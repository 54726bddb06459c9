-------------------------- MODULE AlgorithmProofs --------------------------
(***************************************************************************)
(* Proofs about the merge of an import, for lists of any length and any    *)
(* identities and texts: no configured point moves, is dropped, or changes *)
(* its identity or whether it is enabled (MergeKeeps); each point says the *)
(* latest that was found for it (MergeAsFound); and the same scan merged   *)
(* again changes nothing (MergeSettles).  Then about names: no topic has   *)
(* a wildcard (TopicHasNoWildcard), what is one identity is read alike     *)
(* (SameIdentityReadAlike), and default topics are told apart by all but   *)
(* the device behind a label (DefaultTopicsApart).  And about values: the  *)
(* number that was encoded is what is decoded (NumbersDecoded), and what   *)
(* is shown of it is the DOUBLE next to it (FloatIsClose, ValuesDecoded).  *)
(*                                                                         *)
(* Merge is a fold.  MergeUnrolled says that it takes one found point      *)
(* after the other; MergedSoFar is what holds after each of them, and is   *)
(* carried from one to the next by PointAppended and PointUpdated.  Names  *)
(* are made by folds, too: FoldOver gives the function each of them is,    *)
(* FoldEnds where its last value is, and FoldUnrolled each value on the    *)
(* way.  Every induction asks for the least number at which what is        *)
(* claimed fails.  A topic is taken apart from its end: a level that was   *)
(* sanitized is not changed again (CleanStays), so that the levels         *)
(* of a default topic are those it was made of (DefaultTopic), and the     *)
(* last of them begins after the last "/" (LastSplit).                     *)
(*                                                                         *)
(* A number is decoded by shifting what is there and adding a byte.  No    *)
(* step leaves the word (UnsignedRange, SignedRange), so that after k      *)
(* bytes the value, shifted by the bytes to come, is the sum of the first  *)
(* k weights (DecodedSum).                                                 *)
(***************************************************************************)
EXTENDS Algorithms, SequenceTheorems, FiniteSetTheorems, WellFoundedInduction, TLAPS

(* The least and the greatest of a set of numbers *)

LEMMA LeastExists ==
    ASSUME NEW ds \in SUBSET Nat, ds # {}
    PROVE  \E x \in ds : \A y \in ds : x <= y
<1> DEFINE below == { pair \in Nat \X Nat : pair[1] < pair[2] }
<1>1. IsWellFoundedOn(below, Nat)
    BY NatLessThanWellFounded DEF OpToRel
<1> HIDE DEF below
<1>2. PICK x \in ds : \A y \in ds : <<y, x>> \notin below
    BY <1>1, WFMin
<1>3. \A y \in ds : ~(y < x)
    BY <1>2 DEF below
<1> QED
    BY <1>3

LEMMA MinIsLeast ==
    ASSUME NEW ds \in SUBSET Nat, ds # {}
    PROVE  Min(ds) \in ds /\ \A y \in ds : Min(ds) <= y
BY LeastExists DEF Min

LEMMA MaxIsGreatest ==
    ASSUME NEW n \in Nat, NEW ds \in SUBSET (1 .. n), ds # {}
    PROVE  Max(ds) \in ds /\ \A y \in ds : y <= Max(ds)
<1> DEFINE room == { r \in Nat : \E y \in ds : r = n - y }
<1>1. room \in SUBSET Nat /\ room # {}
    <2>1. PICK y \in ds : TRUE
        OBVIOUS
    <2>2. n - y \in room
        BY <2>1
    <2> QED
        BY <2>2
<1>2. PICK least \in room : \A r \in room : least <= r
    <2> HIDE DEF room
    <2> QED
        BY <1>1, LeastExists
<1>3. PICK x \in ds : least = n - x
    BY <1>2
<1>4. ASSUME NEW y \in ds
      PROVE  least <= n - y
    <2>1. n - y \in Nat
        OBVIOUS
    <2>2. n - y \in room
        BY <2>1
    <2> HIDE DEF room
    <2> QED
        BY <1>2, <2>2
<1>5. \A y \in ds : x >= y
    BY <1>3, <1>4
<1>6. \E z \in ds : \A y \in ds : z >= y
    BY <1>5
<1>7. Max(ds) \in ds /\ \A y \in ds : Max(ds) >= y
    BY <1>6 DEF Max
<1> QED
    BY <1>7

LEMMA WithoutLast ==
    ASSUME NEW m \in Nat, NEW s \in SUBSET (1 .. m), s # {}
    PROVE  Max(s) \in s /\ s \ {Max(s)} \in SUBSET (1 .. m - 1)
<1>1. Max(s) \in s /\ \A y \in s : y <= Max(s)
    BY MaxIsGreatest
<1>2. ASSUME NEW y \in s, y # Max(s)
      PROVE  y \in 1 .. m - 1
    <2>1. y \in 1 .. m /\ Max(s) \in 1 .. m /\ y <= Max(s)
        BY <1>1
    <2> QED
        BY <1>2, <2>1
<1> QED
    BY <1>1, <1>2

LEMMA MaxOfFirst ==
    ASSUME NEW k \in Nat, k \in 1 .. k
    PROVE  Max(1 .. k) = k /\ (1 .. k) \ {k} = 1 .. k - 1
<1>1. Max(1 .. k) \in 1 .. k /\ \A y \in 1 .. k : y <= Max(1 .. k)
    BY MaxIsGreatest
<1> QED
    BY <1>1

\* Induction up to n, over the set of the numbers that something holds for.
LEMMA InductionTo ==
    ASSUME NEW n \in Nat, NEW holds, 0 \in holds,
           \A k \in 1 .. n : k - 1 \in holds => k \in holds
    PROVE  \A k \in 0 .. n : k \in holds
<1> DEFINE others == (0 .. n) \ holds
<1>1. SUFFICES ASSUME others # {} PROVE FALSE
    OBVIOUS
<1>2. PICK k \in others : \A m \in others : k <= m
    <2>1. others \in SUBSET Nat
        OBVIOUS
    <2> HIDE DEF others
    <2> QED
        BY <1>1, <2>1, LeastExists
<1>3. k \in 1 .. n /\ k - 1 \in 0 .. n /\ ~(k <= k - 1)
    BY <1>2
<1> QED
    BY <1>2, <1>3

-----------------------------------------------------------------------------
(* The merge, one found point after the other *)

Unmerged(existing) == [points |-> existing, added |-> 0, updated |-> 0]

\* The function that Merge folds with, on sets of positions of the imported points.
IsMergeOver(iter, existing, imported, positions) ==
    iter = [s \in SUBSET positions |->
              IF s = {} THEN Unmerged(existing)
              ELSE MergeOne(iter[s \ {Max(s)}], imported[Max(s)])]

MergeOver(existing, imported) ==
    CHOOSE iter : IsMergeOver(iter, existing, imported, DOMAIN imported)

\* The merge of the first k of them.
MergedTo(existing, imported, k) == MergeOver(existing, imported)[1 .. k]

LEMMA MergeFolds ==
    ASSUME NEW existing, NEW imported
    PROVE  Merge(existing, imported) = MergeOver(existing, imported)[DOMAIN imported]
BY DEF Merge, FoldLeft, MapThenFoldSet, MergeOver, IsMergeOver, Unmerged

\* There is such a function: among the lengths that had none there would be a smallest
\* one, which has one that goes one further than that of the length before.
LEMMA MergeOverExists ==
    ASSUME NEW existing, NEW imported, NEW n \in Nat
    PROVE  \E iter : IsMergeOver(iter, existing, imported, 1 .. n)
<1> DEFINE without == { m \in Nat : ~\E iter : IsMergeOver(iter, existing, imported, 1 .. m) }
<1>1. SUFFICES ASSUME without # {}
               PROVE  FALSE
    OBVIOUS
<1>2. PICK m \in without : \A k \in without : m <= k
    <2>1. without \in SUBSET Nat
        OBVIOUS
    <2> HIDE DEF without
    <2> QED
        BY <1>1, <2>1, LeastExists
<1>3. m # 0
    <2> DEFINE none == [s \in SUBSET (1 .. 0) |-> Unmerged(existing)]
    <2>1. \A s \in SUBSET (1 .. 0) : s = {}
        OBVIOUS
    <2>2. none = [s \in SUBSET (1 .. 0) |->
                    IF s = {} THEN Unmerged(existing)
                    ELSE MergeOne(none[s \ {Max(s)}], imported[Max(s)])]
        BY <2>1
    <2> HIDE DEF none
    <2>3. IsMergeOver(none, existing, imported, 1 .. 0)
        BY <2>2 DEF IsMergeOver
    <2> QED
        BY <1>2, <2>3
<1>4. PICK g : IsMergeOver(g, existing, imported, 1 .. m - 1)
    <2>1. m \in Nat /\ m - 1 \in Nat /\ ~(m <= m - 1)
        BY <1>3
    <2> QED
        BY <1>2, <2>1
<1> DEFINE h == [s \in SUBSET (1 .. m) |->
                   IF s = {} THEN Unmerged(existing)
                   ELSE MergeOne(g[s \ {Max(s)}], imported[Max(s)])]
<1>5. ASSUME NEW s \in SUBSET (1 .. m), s # {}
      PROVE  h[s \ {Max(s)}] = g[s \ {Max(s)}]
    <2>1. s \ {Max(s)} \in SUBSET (1 .. m - 1)
        BY <1>2, <1>5, WithoutLast
    <2>2. s \ {Max(s)} \in SUBSET (1 .. m)
        OBVIOUS
    <2> QED
        BY <1>4, <2>1, <2>2 DEF IsMergeOver
<1>6. IsMergeOver(h, existing, imported, 1 .. m)
    <2>1. h = [s \in SUBSET (1 .. m) |->
                 IF s = {} THEN Unmerged(existing)
                 ELSE MergeOne(h[s \ {Max(s)}], imported[Max(s)])]
        BY <1>5
    <2> HIDE DEF h
    <2> QED
        BY <2>1 DEF IsMergeOver
<1> QED
    BY <1>2, <1>6

LEMMA MergeUnrolled ==
    ASSUME NEW existing, NEW Points, NEW imported \in Seq(Points)
    PROVE  /\ MergedTo(existing, imported, 0) = Unmerged(existing)
           /\ \A k \in 1 .. Len(imported) :
                MergedTo(existing, imported, k)
                  = MergeOne(MergedTo(existing, imported, k - 1), imported[k])
           /\ Merge(existing, imported) = MergedTo(existing, imported, Len(imported))
<1> DEFINE iter == MergeOver(existing, imported)
<1>1. DOMAIN imported = 1 .. Len(imported) /\ Len(imported) \in Nat
    OBVIOUS
<1>2. IsMergeOver(iter, existing, imported, 1 .. Len(imported))
    <2>1. \E it : IsMergeOver(it, existing, imported, DOMAIN imported)
        BY <1>1, MergeOverExists
    <2> QED
        BY <1>1, <2>1 DEF MergeOver
<1>3. \A s \in SUBSET (1 .. Len(imported)) :
        iter[s] = IF s = {} THEN Unmerged(existing)
                  ELSE MergeOne(iter[s \ {Max(s)}], imported[Max(s)])
    <2> HIDE DEF iter
    <2> QED
        BY <1>2 DEF IsMergeOver
<1> HIDE DEF iter
<1>4. iter[1 .. 0] = Unmerged(existing)
    <2>1. 1 .. 0 = {} /\ 1 .. 0 \in SUBSET (1 .. Len(imported))
        OBVIOUS
    <2> QED
        BY <1>3, <2>1
<1>5. ASSUME NEW k \in 1 .. Len(imported)
      PROVE  iter[1 .. k] = MergeOne(iter[1 .. k - 1], imported[k])
    <2>1. 1 .. k \in SUBSET (1 .. Len(imported)) /\ 1 .. k # {} /\ k \in Nat /\ k \in 1 .. k
        <3>1. k \in Nat /\ 1 <= k /\ k <= Len(imported)
            BY <1>1
        <3>2. \A y \in 1 .. k : y \in 1 .. Len(imported)
            BY <1>1, <3>1
        <3>3. k \in 1 .. k
            BY <3>1
        <3> QED
            BY <3>1, <3>2, <3>3
    <2>2. Max(1 .. k) = k /\ (1 .. k) \ {k} = 1 .. k - 1
        BY <2>1, MaxOfFirst
    <2> QED
        BY <1>3, <2>1, <2>2
<1> QED
    BY <1>1, <1>4, <1>5, MergeFolds DEF MergedTo, iter

-----------------------------------------------------------------------------
(* Where an identity is *)

LEMMA IndexFinds ==
    ASSUME NEW Points, NEW points \in Seq(Points), NEW id
    PROVE  LET index == IndexOfIdentity(points, id)
           IN  /\ index = 0 => \A j \in DOMAIN points : points[j].id # id
               /\ index # 0 => /\ index \in DOMAIN points
                               /\ points[index].id = id
                               /\ \A j \in DOMAIN points : points[j].id = id => j <= index
<1> DEFINE at == { i \in 1 .. Len(points) : points[i].id = id }
<1>1. IndexOfIdentity(points, id) = IF at # {} THEN Max(at) ELSE 0
    BY DEF IndexOfIdentity, SelectLastInSeq
<1>2. CASE at = {}
    BY <1>1, <1>2
<1>3. CASE at # {}
    <2>1. Len(points) \in Nat /\ at \in SUBSET (1 .. Len(points))
        OBVIOUS
    <2>2. Max(at) \in at /\ \A y \in at : y <= Max(at)
        <3> HIDE DEF at
        <3> QED
            BY <1>3, <2>1, MaxIsGreatest
    <2> QED
        BY <1>1, <1>3, <2>2
<1> QED
    BY <1>2, <1>3

LEMMA FirstFinds ==
    ASSUME NEW Points, NEW points \in Seq(Points), NEW k \in DOMAIN points
    PROVE  LET first == FirstOfIdentity(points, points[k].id)
           IN  /\ first \in DOMAIN points
               /\ points[first].id = points[k].id
               /\ first <= k
<1> DEFINE at == { i \in 1 .. Len(points) : points[i].id = points[k].id }
<1>1. k \in at /\ at \in SUBSET Nat
    OBVIOUS
<1>2. FirstOfIdentity(points, points[k].id) = Min(at)
    BY <1>1 DEF FirstOfIdentity, SelectInSeq
<1>3. Min(at) \in at /\ \A y \in at : Min(at) <= y
    <2> HIDE DEF at
    <2> QED
        BY <1>1, MinIsLeast
<1> QED
    BY <1>1, <1>2, <1>3

-----------------------------------------------------------------------------
(* What the first k of the found points say *)

SayingTo(found, k, id, field) ==
    { n \in 1 .. k : found[n].id = id /\ found[n][field] # Blank }

LatestTo(found, k, id, field, otherwise) ==
    LET saying == SayingTo(found, k, id, field)
    IN  IF saying = {} THEN otherwise ELSE found[Max(saying)][field]

\* Each of them says the latest, if it says anything of the field.
LEMMA LatestOfOneMore ==
    ASSUME NEW found, NEW k \in Nat, NEW id, NEW field, NEW otherwise
    PROVE  LatestTo(found, k + 1, id, field, otherwise)
             = IF found[k + 1].id = id /\ found[k + 1][field] # Blank
               THEN found[k + 1][field]
               ELSE LatestTo(found, k, id, field, otherwise)
<1> DEFINE before == SayingTo(found, k, id, field)
           after == SayingTo(found, k + 1, id, field)
<1>1. CASE found[k + 1].id = id /\ found[k + 1][field] # Blank
    <2>1. k + 1 \in Nat /\ k + 1 \in after /\ after \in SUBSET (1 .. k + 1)
        BY <1>1 DEF SayingTo
    <2>2. Max(after) \in after /\ \A y \in after : y <= Max(after)
        <3> HIDE DEF after
        <3> QED
            BY <2>1, MaxIsGreatest
    <2>3. Max(after) = k + 1
        <3> HIDE DEF after
        <3>1. Max(after) \in 1 .. k + 1 /\ k + 1 <= Max(after)
            BY <2>1, <2>2
        <3> QED
            BY <3>1
    <2> QED
        BY <1>1, <2>1, <2>3 DEF LatestTo
<1>2. CASE ~(found[k + 1].id = id /\ found[k + 1][field] # Blank)
    <2>1. \A n \in 1 .. k + 1 : n \in 1 .. k \/ n = k + 1
        OBVIOUS
    <2>2. after = before
        BY <1>2, <2>1 DEF SayingTo
    <2> QED
        BY <1>2, <2>2 DEF LatestTo
<1> QED
    BY <1>1, <1>2

LEMMA LatestOfAll ==
    ASSUME NEW Points, NEW found \in Seq(Points), NEW id, NEW field, NEW otherwise
    PROVE  LatestTo(found, Len(found), id, field, otherwise) = Latest(found, id, field, otherwise)
<1>1. SayingTo(found, Len(found), id, field) = Saying(found, id, field)
    BY DEF SayingTo, Saying
<1> QED
    BY <1>1 DEF LatestTo, Latest

-----------------------------------------------------------------------------
(* The merge of the first k found points *)

Pointlike(keys, tags, labels) == [id : keys, tag : tags, label : labels, enabled : BOOLEAN]

LEMMA UpdatedFields ==
    ASSUME NEW keys, NEW tags, NEW labels,
           NEW point \in Pointlike(keys, tags, labels), NEW found \in Pointlike(keys, tags, labels)
    PROVE  /\ Updated(point, found) \in Pointlike(keys, tags, labels)
           /\ Updated(point, found).id = point.id
           /\ Updated(point, found).enabled = point.enabled
           /\ Updated(point, found).tag = IF found.tag = Blank THEN point.tag ELSE found.tag
           /\ Updated(point, found).label = IF found.label = Blank THEN point.label ELSE found.label
BY DEF Pointlike, Updated

\* Points are equal if their fields are.
LEMMA SameFields ==
    ASSUME NEW keys, NEW tags, NEW labels,
           NEW a \in Pointlike(keys, tags, labels), NEW b \in Pointlike(keys, tags, labels),
           a.id = b.id, a.tag = b.tag, a.label = b.label, a.enabled = b.enabled
    PROVE  a = b
BY DEF Pointlike

MergeShape(Points) == [points : Seq(Points), added : Nat, updated : Nat]

NewTo(points, found, k) == { found[n].id : n \in 1 .. k } \ Identities(points)

Tells(point, found, k, tag, label) ==
    /\ point.tag = LatestTo(found, k, point.id, "tag", tag)
    /\ point.label = LatestTo(found, k, point.id, "label", label)

\* What the merge counts.
CountedTo(points, found, k, merge) ==
    /\ Len(merge.points) = Len(points) + merge.added
    /\ IsFiniteSet(NewTo(points, found, k))
    /\ merge.added = Cardinality(NewTo(points, found, k))
    /\ merge.updated + merge.added <= k

\* Where the configured points are, and what they say.
ConfiguredTo(points, found, k, merge) ==
    \A i \in DOMAIN points :
        /\ merge.points[i].id = points[i].id
        /\ merge.points[i].enabled = points[i].enabled
        /\ LastOfIdentity(points, i) =>
              Tells(merge.points[i], found, k, points[i].tag, points[i].label)
        /\ ~LastOfIdentity(points, i) => merge.points[i] = points[i]

\* What follows them.
AddedTo(points, found, k, merge) ==
    \A i \in DOMAIN merge.points \ DOMAIN points :
        /\ merge.points[i].id \in NewTo(points, found, k)
        /\ Tells(merge.points[i], found, k, Blank, Blank)
        /\ \A j \in DOMAIN merge.points \ DOMAIN points :
              i < j => FirstOfIdentity(found, merge.points[i].id)
                         < FirstOfIdentity(found, merge.points[j].id)

\* Every identity that was found is there.
KnownTo(points, found, k, merge) ==
    \A n \in 1 .. k : \E i \in DOMAIN merge.points : merge.points[i].id = found[n].id

MergedSoFar(points, found, k, merge) ==
    /\ CountedTo(points, found, k, merge)
    /\ ConfiguredTo(points, found, k, merge)
    /\ AddedTo(points, found, k, merge)
    /\ KnownTo(points, found, k, merge)

LEMMA NothingMerged ==
    ASSUME NEW keys, NEW tags, NEW labels,
           NEW points \in Seq(Pointlike(keys, tags, labels)),
           NEW found \in Seq(Pointlike(keys, tags, labels))
    PROVE  /\ Unmerged(points) \in MergeShape(Pointlike(keys, tags, labels))
           /\ MergedSoFar(points, found, 0, Unmerged(points))
<1>1. Unmerged(points) \in MergeShape(Pointlike(keys, tags, labels))
    BY DEF Unmerged, MergeShape
<1>2. NewTo(points, found, 0) = {}
    BY DEF NewTo
<1>3. CountedTo(points, found, 0, Unmerged(points))
    <2>1. Len(points) \in Nat /\ IsFiniteSet({}) /\ Cardinality({}) = 0
        BY FS_EmptySet
    <2>2. /\ Unmerged(points).points = points
          /\ Unmerged(points).added = 0 /\ Unmerged(points).updated = 0
        BY DEF Unmerged
    <2>3. IsFiniteSet(NewTo(points, found, 0)) /\ Cardinality(NewTo(points, found, 0)) = 0
        BY <1>2, <2>1, Zenon
    <2> QED
        BY <2>1, <2>2, <2>3 DEF CountedTo
<1>4. \A id, field, otherwise : LatestTo(found, 0, id, field, otherwise) = otherwise
    BY DEF LatestTo, SayingTo
<1>5. ConfiguredTo(points, found, 0, Unmerged(points))
    BY <1>4 DEF ConfiguredTo, Tells, Unmerged
<1>6. AddedTo(points, found, 0, Unmerged(points)) /\ KnownTo(points, found, 0, Unmerged(points))
    BY DEF AddedTo, KnownTo, Unmerged
<1> QED
    BY <1>1, <1>3, <1>5, <1>6 DEF MergedSoFar

\* A point that says nothing of an identity leaves what is known of it.
LEMMA TellsTheSame ==
    ASSUME NEW found, NEW k \in Nat, NEW point, NEW tag, NEW label,
           point.id # found[k + 1].id
    PROVE  Tells(point, found, k + 1, tag, label) <=> Tells(point, found, k, tag, label)
BY LatestOfOneMore DEF Tells

\* One that speaks of it updates it.
LEMMA TellsTheUpdate ==
    ASSUME NEW keys, NEW tags, NEW labels,
           NEW found \in Seq(Pointlike(keys, tags, labels)), NEW k \in Nat,
           k + 1 \in DOMAIN found,
           NEW point \in Pointlike(keys, tags, labels), NEW tag, NEW label,
           point.id = found[k + 1].id,
           Tells(point, found, k, tag, label)
    PROVE  Tells(Updated(point, found[k + 1]), found, k + 1, tag, label)
<1>1. found[k + 1] \in Pointlike(keys, tags, labels)
    OBVIOUS
<1>2. LatestTo(found, k + 1, point.id, "tag", tag)
        = IF found[k + 1].tag # Blank THEN found[k + 1].tag ELSE point.tag
    BY LatestOfOneMore DEF Tells
<1>3. LatestTo(found, k + 1, point.id, "label", label)
        = IF found[k + 1].label # Blank THEN found[k + 1].label ELSE point.label
    BY LatestOfOneMore DEF Tells
<1> QED
    BY <1>1, <1>2, <1>3, UpdatedFields DEF Tells

LEMMA NewToOneMore ==
    ASSUME NEW points, NEW found, NEW k \in Nat
    PROVE  NewTo(points, found, k + 1)
             = NewTo(points, found, k) \cup ({found[k + 1].id} \ Identities(points))
<1>1. \A n : n \in 1 .. k + 1 <=> n \in 1 .. k \/ n = k + 1
    OBVIOUS
<1>2. { found[n].id : n \in 1 .. k + 1 } = { found[n].id : n \in 1 .. k } \cup {found[k + 1].id}
    BY <1>1
<1> QED
    BY <1>2 DEF NewTo

\* What every step of the merge starts from.
MergeStep(keys, tags, labels, points, found, k, merge) ==
    /\ points \in Seq(Pointlike(keys, tags, labels))
    /\ found \in Seq(Pointlike(keys, tags, labels))
    /\ k \in Nat /\ k + 1 \in DOMAIN found
    /\ merge \in MergeShape(Pointlike(keys, tags, labels))
    /\ MergedSoFar(points, found, k, merge)

\* A point whose identity is nowhere is appended.
LEMMA PointAppended ==
    ASSUME NEW keys, NEW tags, NEW labels, NEW points, NEW found, NEW k, NEW merge,
           MergeStep(keys, tags, labels, points, found, k, merge),
           IndexOfIdentity(merge.points, found[k + 1].id) = 0
    PROVE  LET more == MergeOne(merge, found[k + 1])
           IN  /\ more \in MergeShape(Pointlike(keys, tags, labels))
               /\ MergedSoFar(points, found, k + 1, more)
<1> DEFINE P == Pointlike(keys, tags, labels)
           x == found[k + 1]
           more == MergeOne(merge, x)
           was == merge.points
           now == more.points
<1>1. /\ points \in Seq(P) /\ found \in Seq(P) /\ x \in P
      /\ k \in Nat /\ k + 1 \in DOMAIN found /\ k + 1 \in 1 .. Len(found)
      /\ was \in Seq(P) /\ merge.added \in Nat /\ merge.updated \in Nat
      /\ merge \in [points : Seq(P), added : Nat, updated : Nat]
    BY DEF MergeStep, MergeShape
<1> HIDE DEF P
<1>2. /\ CountedTo(points, found, k, merge) /\ ConfiguredTo(points, found, k, merge)
      /\ AddedTo(points, found, k, merge) /\ KnownTo(points, found, k, merge)
    BY DEF MergeStep, MergedSoFar
<1>3. more = [merge EXCEPT !.points = Append(was, x), !.added = merge.added + 1]
    BY DEF MergeOne
<1>4. /\ now = Append(was, x) /\ more.added = merge.added + 1
      /\ more.updated = merge.updated
      /\ more \in [points : Seq(P), added : Nat, updated : Nat]
    <2>1. Append(was, x) \in Seq(P) /\ merge.added + 1 \in Nat
        BY <1>1
    <2> HIDE DEF more
    <2> QED
        BY <1>1, <1>3, <2>1
<1>5. \A i \in DOMAIN was : was[i].id # x.id
    BY <1>1, IndexFinds
<1> HIDE DEF more
<1>6. /\ Len(was) \in Nat /\ Len(now) = Len(was) + 1 /\ DOMAIN now = 1 .. Len(was) + 1
      /\ DOMAIN was = 1 .. Len(was) /\ now[Len(was) + 1] = x
      /\ \A i \in DOMAIN was : now[i] = was[i]
    BY <1>1, <1>4
<1>7. /\ Len(points) \in Nat /\ DOMAIN points = 1 .. Len(points)
      /\ Len(was) = Len(points) + merge.added
    BY <1>1, <1>2 DEF CountedTo
<1>8. x.id \notin Identities(points)
    BY <1>1, <1>2, <1>5, <1>6, <1>7 DEF ConfiguredTo, Identities
<1>9. \A n \in 1 .. k : found[n].id # x.id
    BY <1>2, <1>5 DEF KnownTo
<1>10. /\ NewTo(points, found, k + 1) = NewTo(points, found, k) \cup {x.id}
       /\ x.id \notin NewTo(points, found, k)
    BY <1>1, <1>8, <1>9, NewToOneMore DEF NewTo
<1>11. CountedTo(points, found, k + 1, more)
    <2>1. IsFiniteSet(NewTo(points, found, k)) /\ merge.added = Cardinality(NewTo(points, found, k))
        BY <1>2 DEF CountedTo
    <2>2. /\ IsFiniteSet(NewTo(points, found, k + 1))
          /\ Cardinality(NewTo(points, found, k + 1)) = merge.added + 1
        BY <1>10, <2>1, FS_AddElement
    <2>3. merge.updated + merge.added <= k
        BY <1>2 DEF CountedTo
    <2>4. Len(now) = Len(points) + more.added
        BY <1>1, <1>4, <1>6, <1>7
    <2>5. more.updated + more.added <= k + 1
        BY <1>1, <1>4, <2>3
    <2> QED
        BY <1>4, <2>2, <2>4, <2>5 DEF CountedTo
<1>12. ConfiguredTo(points, found, k + 1, more)
    <2> SUFFICES ASSUME NEW i \in DOMAIN points
                 PROVE  /\ now[i].id = points[i].id /\ now[i].enabled = points[i].enabled
                        /\ LastOfIdentity(points, i) =>
                              Tells(now[i], found, k + 1, points[i].tag, points[i].label)
                        /\ ~LastOfIdentity(points, i) => now[i] = points[i]
        BY Zenon DEF ConfiguredTo
    <2>1. i \in DOMAIN was
        BY <1>1, <1>6, <1>7
    <2>2. now[i] = was[i] /\ was[i].id # x.id
        BY <1>5, <1>6, <2>1
    <2> QED
        BY <1>1, <1>2, <2>1, <2>2, TellsTheSame DEF ConfiguredTo
<1>13. AddedTo(points, found, k + 1, more)
    <2>1. ASSUME NEW i \in DOMAIN now \ DOMAIN points
          PROVE  /\ now[i].id \in NewTo(points, found, k + 1)
                 /\ Tells(now[i], found, k + 1, Blank, Blank)
        <3>1. CASE i \in DOMAIN was
            <4>1. i \in DOMAIN was \ DOMAIN points /\ now[i] = was[i]
                BY <1>6, <2>1, <3>1
            <4>2. was[i].id \in NewTo(points, found, k) /\ Tells(was[i], found, k, Blank, Blank)
                BY <1>2, <4>1 DEF AddedTo
            <4>3. was[i].id # x.id
                BY <1>10, <4>2
            <4> QED
                BY <1>1, <1>5, <1>10, <4>1, <4>2, <4>3, TellsTheSame
        <3>2. CASE i = Len(was) + 1
            <4>1. \A field \in {"tag", "label"} : LatestTo(found, k, x.id, field, Blank) = Blank
                BY <1>9 DEF LatestTo, SayingTo
            <4>2. Tells(x, found, k + 1, Blank, Blank)
                <5>1. k \in Nat
                    BY <1>1
                <5>2. x.tag = LatestTo(found, k + 1, x.id, "tag", Blank)
                    BY <4>1, <5>1, LatestOfOneMore
                <5>3. x.label = LatestTo(found, k + 1, x.id, "label", Blank)
                    BY <4>1, <5>1, LatestOfOneMore
                <5> QED
                    BY <5>2, <5>3 DEF Tells
            <4> QED
                BY <1>6, <1>10, <3>2, <4>2
        <3> QED
            BY <1>6, <3>1, <3>2
    <2>2. ASSUME NEW i \in DOMAIN now \ DOMAIN points, NEW j \in DOMAIN now \ DOMAIN points, i < j
          PROVE  FirstOfIdentity(found, now[i].id) < FirstOfIdentity(found, now[j].id)
        <3>1. i \in DOMAIN was
            BY <1>6, <2>2
        <3>2. CASE j \in DOMAIN was
            BY <1>2, <1>6, <2>2, <3>1, <3>2 DEF AddedTo
        <3>3. CASE j = Len(was) + 1
            <4>1. now[i].id \in NewTo(points, found, k) /\ now[j] = x
                BY <1>2, <1>6, <3>1, <3>3 DEF AddedTo
            <4>2. PICK n \in 1 .. k : found[n].id = now[i].id
                BY <4>1 DEF NewTo
            <4>3. n \in DOMAIN found /\ n <= k /\ n \in Nat
                BY <1>1
            <4>4. /\ FirstOfIdentity(found, now[i].id) \in Nat
                  /\ FirstOfIdentity(found, now[i].id) <= k
                BY <1>1, <4>2, <4>3, FirstFinds
            <4>5. /\ FirstOfIdentity(found, x.id) \in DOMAIN found
                  /\ found[FirstOfIdentity(found, x.id)].id = x.id
                BY <1>1, FirstFinds
            <4>6. ~(FirstOfIdentity(found, x.id) <= k)
                BY <1>1, <1>9, <4>5
            <4> QED
                BY <1>1, <4>1, <4>4, <4>5, <4>6
        <3> QED
            BY <1>6, <3>2, <3>3
    <2> QED
        BY <2>1, <2>2 DEF AddedTo
<1>14. KnownTo(points, found, k + 1, more)
    <2> SUFFICES ASSUME NEW n \in 1 .. k + 1
                 PROVE  \E i \in DOMAIN now : now[i].id = found[n].id
        BY DEF KnownTo
    <2>1. CASE n \in 1 .. k
        BY <1>2, <1>6, <2>1 DEF KnownTo
    <2>2. CASE n = k + 1
        BY <1>6, <2>2
    <2> QED
        BY <1>1, <2>1, <2>2
<1> QED
    BY <1>4, <1>11, <1>12, <1>13, <1>14 DEF MergedSoFar, MergeShape, P, more

\* A point of a known identity updates the last one that has it.
LEMMA PointUpdated ==
    ASSUME NEW keys, NEW tags, NEW labels, NEW points, NEW found, NEW k, NEW merge,
           MergeStep(keys, tags, labels, points, found, k, merge),
           IndexOfIdentity(merge.points, found[k + 1].id) # 0
    PROVE  LET more == MergeOne(merge, found[k + 1])
           IN  /\ more \in MergeShape(Pointlike(keys, tags, labels))
               /\ MergedSoFar(points, found, k + 1, more)
<1> DEFINE P == Pointlike(keys, tags, labels)
           x == found[k + 1]
           more == MergeOne(merge, x)
           was == merge.points
           now == more.points
           index == IndexOfIdentity(was, x.id)
           update == Updated(was[index], x)
           count == Counted(update # was[index])
<1>1. /\ points \in Seq(P) /\ found \in Seq(P) /\ x \in P
      /\ k \in Nat /\ k + 1 \in DOMAIN found /\ k + 1 \in 1 .. Len(found)
      /\ was \in Seq(P) /\ merge.added \in Nat /\ merge.updated \in Nat
      /\ merge \in [points : Seq(P), added : Nat, updated : Nat]
    BY DEF MergeStep, MergeShape
<1>2. /\ CountedTo(points, found, k, merge) /\ ConfiguredTo(points, found, k, merge)
      /\ AddedTo(points, found, k, merge) /\ KnownTo(points, found, k, merge)
    BY DEF MergeStep, MergedSoFar
<1>3. more = [merge EXCEPT !.points[index] = update, !.updated = @ + count]
    BY DEF MergeOne
<1>4. /\ index \in DOMAIN was /\ was[index].id = x.id
      /\ \A j \in DOMAIN was : was[j].id = x.id => j <= index
    <2> HIDE DEF P
    <2> QED
        BY <1>1, IndexFinds
<1>5. was[index] \in P
    BY <1>1, <1>4
<1>6. update \in P /\ update.id = x.id /\ update.enabled = was[index].enabled
    BY <1>1, <1>4, <1>5, UpdatedFields
<1>7. count \in {0, 1}
    BY DEF Counted
<1> HIDE DEF P, count, more
<1>8. /\ now = [was EXCEPT ![index] = update]
      /\ more.added = merge.added /\ more.updated = merge.updated + count
      /\ more \in [points : Seq(P), added : Nat, updated : Nat]
    <2> HIDE DEF index, update
    <2>1. [was EXCEPT ![index] = update] \in Seq(P) /\ merge.updated + count \in Nat
        BY <1>1, <1>4, <1>6, <1>7
    <2>2. more = [merge EXCEPT !.points = [was EXCEPT ![index] = update],
                               !.updated = merge.updated + count]
        BY <1>1, <1>3
    <2> QED
        BY <1>1, <2>1, <2>2
<1> HIDE DEF index, update
<1>9. /\ DOMAIN now = DOMAIN was /\ Len(now) = Len(was) /\ now[index] = update
      /\ \A i \in DOMAIN was : i # index => now[i] = was[i]
      /\ \A i \in DOMAIN was : now[i].id = was[i].id /\ now[i].enabled = was[i].enabled
    BY <1>1, <1>4, <1>6, <1>8
<1>10. /\ Len(points) \in Nat /\ DOMAIN points = 1 .. Len(points)
       /\ Len(was) \in Nat /\ DOMAIN was = 1 .. Len(was)
       /\ Len(was) = Len(points) + merge.added
       /\ DOMAIN points \subseteq DOMAIN was
    <2>1. Len(was) = Len(points) + merge.added
        BY <1>2 DEF CountedTo
    <2>2. Len(points) \in Nat /\ DOMAIN points = 1 .. Len(points)
          /\ Len(was) \in Nat /\ DOMAIN was = 1 .. Len(was)
        BY <1>1
    <2> QED
        BY <1>1, <2>1, <2>2
<1>11. NewTo(points, found, k + 1) = NewTo(points, found, k)
    <2>1. CASE index \in DOMAIN points
        <3>1. x.id \in Identities(points)
            BY <1>2, <1>4, <2>1 DEF ConfiguredTo, Identities
        <3>2. NewTo(points, found, k + 1)
                = NewTo(points, found, k) \cup ({x.id} \ Identities(points))
            BY <1>1, NewToOneMore
        <3> QED
            BY <3>1, <3>2
    <2>2. CASE index \notin DOMAIN points
        <3>1. x.id \in NewTo(points, found, k)
            BY <1>2, <1>4, <2>2 DEF AddedTo
        <3>2. NewTo(points, found, k + 1)
                = NewTo(points, found, k) \cup ({x.id} \ Identities(points))
            BY <1>1, NewToOneMore
        <3> QED
            BY <3>1, <3>2
    <2> QED
        BY <2>1, <2>2
<1>12. CountedTo(points, found, k + 1, more)
    <2>1. merge.updated + merge.added <= k
        BY <1>2 DEF CountedTo
    <2>2. more.updated + more.added <= k + 1
        BY <1>1, <1>7, <1>8, <2>1
    <2> QED
        BY <1>2, <1>8, <1>9, <1>11, <2>2 DEF CountedTo
<1>13. ConfiguredTo(points, found, k + 1, more)
    <2> SUFFICES ASSUME NEW i \in DOMAIN points
                 PROVE  /\ now[i].id = points[i].id /\ now[i].enabled = points[i].enabled
                        /\ LastOfIdentity(points, i) =>
                              Tells(now[i], found, k + 1, points[i].tag, points[i].label)
                        /\ ~LastOfIdentity(points, i) => now[i] = points[i]
        BY Zenon DEF ConfiguredTo
    <2>1. /\ i \in DOMAIN was /\ was[i].id = points[i].id /\ was[i].enabled = points[i].enabled
          /\ LastOfIdentity(points, i) =>
                Tells(was[i], found, k, points[i].tag, points[i].label)
          /\ ~LastOfIdentity(points, i) => was[i] = points[i]
        BY <1>2, <1>10 DEF ConfiguredTo
    <2>2. CASE i = index
        <3>1. LastOfIdentity(points, i)
            <4>1. ASSUME NEW j \in DOMAIN points, points[j].id = points[i].id
                  PROVE  j <= i
                <5>1. j \in DOMAIN was /\ was[j].id = x.id
                    BY <1>2, <1>4, <1>10, <2>1, <2>2, <4>1 DEF ConfiguredTo
                <5> QED
                    BY <1>4, <2>2, <5>1
            <4> QED
                BY <4>1 DEF LastOfIdentity
        <3>2. Tells(update, found, k + 1, points[i].tag, points[i].label)
            BY <1>1, <1>4, <1>5, <2>1, <2>2, <3>1, TellsTheUpdate DEF P, update
        <3> QED
            BY <1>9, <2>1, <2>2, <3>1, <3>2
    <2>3. CASE i # index
        <3>1. ASSUME LastOfIdentity(points, i), was[i].id = x.id
              PROVE  FALSE
            <4>1. index \notin DOMAIN points
                <5>1. i <= index /\ ~(index <= i)
                    BY <1>4, <1>10, <2>1, <2>3, <3>1
                <5>2. index \in DOMAIN points => points[index].id = points[i].id
                    BY <1>2, <1>4, <2>1, <3>1 DEF ConfiguredTo
                <5> QED
                    BY <3>1, <5>1, <5>2 DEF LastOfIdentity
            <4>2. x.id \in NewTo(points, found, k)
                BY <1>2, <1>4, <4>1 DEF AddedTo
            <4> QED
                BY <2>1, <3>1, <4>2 DEF NewTo, Identities
        <3> QED
            BY <1>1, <1>9, <2>1, <2>3, <3>1, TellsTheSame
    <2> QED
        BY <2>2, <2>3
<1>14. AddedTo(points, found, k + 1, more)
    <2>1. ASSUME NEW i \in DOMAIN now \ DOMAIN points
          PROVE  /\ now[i].id \in NewTo(points, found, k + 1)
                 /\ Tells(now[i], found, k + 1, Blank, Blank)
                 /\ \A j \in DOMAIN now \ DOMAIN points :
                      i < j => FirstOfIdentity(found, now[i].id)
                                 < FirstOfIdentity(found, now[j].id)
        <3>1. /\ i \in DOMAIN was \ DOMAIN points
              /\ was[i].id \in NewTo(points, found, k)
              /\ Tells(was[i], found, k, Blank, Blank)
              /\ \A j \in DOMAIN was \ DOMAIN points :
                    i < j => FirstOfIdentity(found, was[i].id)
                               < FirstOfIdentity(found, was[j].id)
            BY <1>2, <1>9 DEF AddedTo
        <3>2. CASE i = index
            <4>1. Tells(update, found, k + 1, Blank, Blank)
                BY <1>1, <1>4, <1>5, <3>1, <3>2, TellsTheUpdate DEF P, update
            <4> QED
                BY <1>9, <1>11, <3>1, <3>2, <4>1
        <3>3. CASE i # index
            <4>1. ASSUME was[i].id = x.id
                  PROVE  FALSE
                <5>1. i < index /\ index \in DOMAIN was \ DOMAIN points
                    BY <1>4, <1>10, <3>1, <3>3, <4>1
                <5>2. FirstOfIdentity(found, x.id) < FirstOfIdentity(found, x.id)
                    BY <1>4, <3>1, <4>1, <5>1
                <5>3. FirstOfIdentity(found, x.id) \in Nat
                    BY <1>1, FirstFinds
                <5> QED
                    BY <5>2, <5>3
            <4> QED
                BY <1>1, <1>9, <1>11, <3>1, <3>3, <4>1, TellsTheSame
        <3> QED
            BY <3>2, <3>3
    <2> QED
        BY <2>1 DEF AddedTo
<1>15. KnownTo(points, found, k + 1, more)
    <2> SUFFICES ASSUME NEW n \in 1 .. k + 1
                 PROVE  \E i \in DOMAIN now : now[i].id = found[n].id
        BY DEF KnownTo
    <2>1. CASE n \in 1 .. k
        BY <1>2, <1>9, <2>1 DEF KnownTo
    <2>2. CASE n = k + 1
        BY <1>4, <1>9, <2>2
    <2> QED
        BY <1>1, <2>1, <2>2
<1> QED
    BY <1>8, <1>12, <1>13, <1>14, <1>15 DEF MergedSoFar, MergeShape, P, more

\* By induction on their number: at the first that breaks it the one before did not.
LEMMA MergedSoFarAlways ==
    ASSUME NEW keys, NEW tags, NEW labels,
           NEW points \in Seq(Pointlike(keys, tags, labels)),
           NEW found \in Seq(Pointlike(keys, tags, labels)),
           NEW k \in 0 .. Len(found)
    PROVE  /\ MergedTo(points, found, k) \in MergeShape(Pointlike(keys, tags, labels))
           /\ MergedSoFar(points, found, k, MergedTo(points, found, k))
<1> DEFINE P == Pointlike(keys, tags, labels)
           Holds(n) == /\ MergedTo(points, found, n) \in MergeShape(P)
                       /\ MergedSoFar(points, found, n, MergedTo(points, found, n))
           broken == { n \in 0 .. Len(found) : ~Holds(n) }
<1>1. SUFFICES ASSUME broken # {}
               PROVE  FALSE
    OBVIOUS
<1> HIDE DEF Holds
<1>2. PICK n \in broken : \A m \in broken : n <= m
    <2>1. broken \in SUBSET Nat
        OBVIOUS
    <2> HIDE DEF broken
    <2> QED
        BY <1>1, <2>1, LeastExists
<1>3. /\ MergedTo(points, found, 0) = Unmerged(points)
      /\ \A i \in 1 .. Len(found) :
            MergedTo(points, found, i) = MergeOne(MergedTo(points, found, i - 1), found[i])
    BY MergeUnrolled
<1>4. n # 0
    BY <1>2, <1>3, NothingMerged DEF Holds
<1> DEFINE before == n - 1
<1>5. /\ Len(found) \in Nat /\ DOMAIN found = 1 .. Len(found)
      /\ before \in Nat /\ before \in 0 .. Len(found) /\ n = before + 1 /\ n \in 1 .. Len(found)
      /\ ~(n <= before)
    BY <1>2, <1>4
<1> HIDE DEF before
<1>6. Holds(before)
    BY <1>2, <1>5
<1>7. MergeStep(keys, tags, labels, points, found, before, MergedTo(points, found, before))
    BY <1>5, <1>6 DEF Holds, MergeStep
<1>8. MergedTo(points, found, n) = MergeOne(MergedTo(points, found, before), found[before + 1])
    BY <1>3, <1>5 DEF before
<1>9. Holds(n)
    BY <1>5, <1>7, <1>8, PointAppended, PointUpdated DEF Holds
<1> QED
    BY <1>2, <1>9

LEMMA MergedInAll ==
    ASSUME NEW keys, NEW tags, NEW labels,
           NEW points \in Seq(Pointlike(keys, tags, labels)),
           NEW found \in Seq(Pointlike(keys, tags, labels))
    PROVE  /\ Merge(points, found) \in MergeShape(Pointlike(keys, tags, labels))
           /\ MergedSoFar(points, found, Len(found), Merge(points, found))
BY MergedSoFarAlways, MergeUnrolled

-----------------------------------------------------------------------------
(* The merge *)

\* What the merge does to the points that were there, of any lists.
THEOREM MergeKeeps ==
    ASSUME NEW keys, NEW tags, NEW labels,
           NEW points \in Seq(Pointlike(keys, tags, labels)),
           NEW found \in Seq(Pointlike(keys, tags, labels))
    PROVE  LET merged == Merge(points, found).points
           IN  /\ merged \in Seq(Pointlike(keys, tags, labels))
               /\ Len(points) <= Len(merged)
               /\ \A i \in DOMAIN points : /\ merged[i].id = points[i].id
                                           /\ merged[i].enabled = points[i].enabled
<1>1. /\ Merge(points, found).points \in Seq(Pointlike(keys, tags, labels))
      /\ Merge(points, found).added \in Nat
    BY MergedInAll DEF MergeShape
<1>2. /\ Len(Merge(points, found).points) = Len(points) + Merge(points, found).added
      /\ \A i \in DOMAIN points :
            /\ Merge(points, found).points[i].id = points[i].id
            /\ Merge(points, found).points[i].enabled = points[i].enabled
    BY MergedInAll DEF MergedSoFar, CountedTo, ConfiguredTo
<1> QED
    BY <1>1, <1>2

\* Each point of the merge says the latest that was found for its identity.
Said(points, found, merged) ==
    /\ \A i \in DOMAIN points :
          /\ merged[i].id = points[i].id
          /\ merged[i].enabled = points[i].enabled
          /\ LastOfIdentity(points, i) =>
                /\ merged[i].tag = Latest(found, points[i].id, "tag", points[i].tag)
                /\ merged[i].label = Latest(found, points[i].id, "label", points[i].label)
          /\ ~LastOfIdentity(points, i) => merged[i] = points[i]
    /\ \A i \in DOMAIN merged \ DOMAIN points :
          /\ merged[i].id \in Identities(found) \ Identities(points)
          /\ merged[i].tag = Latest(found, merged[i].id, "tag", Blank)
          /\ merged[i].label = Latest(found, merged[i].id, "label", Blank)
          /\ \A j \in DOMAIN merged \ DOMAIN points :
                i < j => FirstOfIdentity(found, merged[i].id)
                           < FirstOfIdentity(found, merged[j].id)
    /\ Identities(found) \subseteq Identities(merged)

LEMMA MergeSays ==
    ASSUME NEW keys, NEW tags, NEW labels,
           NEW points \in Seq(Pointlike(keys, tags, labels)),
           NEW found \in Seq(Pointlike(keys, tags, labels))
    PROVE  Said(points, found, Merge(points, found).points)
<1> DEFINE merged == Merge(points, found).points
<1>1. MergedSoFar(points, found, Len(found), Merge(points, found))
    BY MergedInAll
<1>2. \A id, field, otherwise :
        LatestTo(found, Len(found), id, field, otherwise) = Latest(found, id, field, otherwise)
    BY LatestOfAll
<1>3. NewTo(points, found, Len(found)) = Identities(found) \ Identities(points)
    BY DEF NewTo, Identities
<1>4. \A i \in DOMAIN points :
        /\ merged[i].id = points[i].id
        /\ merged[i].enabled = points[i].enabled
        /\ LastOfIdentity(points, i) =>
              /\ merged[i].tag = Latest(found, points[i].id, "tag", points[i].tag)
              /\ merged[i].label = Latest(found, points[i].id, "label", points[i].label)
        /\ ~LastOfIdentity(points, i) => merged[i] = points[i]
    BY <1>1, <1>2 DEF MergedSoFar, ConfiguredTo, Tells
<1>5. \A i \in DOMAIN merged \ DOMAIN points :
        /\ merged[i].id \in Identities(found) \ Identities(points)
        /\ merged[i].tag = Latest(found, merged[i].id, "tag", Blank)
        /\ merged[i].label = Latest(found, merged[i].id, "label", Blank)
        /\ \A j \in DOMAIN merged \ DOMAIN points :
              i < j => FirstOfIdentity(found, merged[i].id)
                         < FirstOfIdentity(found, merged[j].id)
    BY <1>1, <1>2, <1>3 DEF MergedSoFar, AddedTo, Tells
<1>6. Identities(found) \subseteq Identities(merged)
    BY <1>1 DEF MergedSoFar, KnownTo, Identities
<1> QED
    BY <1>4, <1>5, <1>6 DEF Said

\* The merge is what MergedAsFound says, of any lists.
THEOREM MergeAsFound ==
    ASSUME NEW keys, NEW tags, NEW labels,
           NEW points \in Seq(Pointlike(keys, tags, labels)),
           NEW found \in Seq(Pointlike(keys, tags, labels))
    PROVE  MergedAsFound(points, found, Merge(points, found))
<1> DEFINE P == Pointlike(keys, tags, labels)
           merge == Merge(points, found)
           merged == merge.points
<1>1. merge \in MergeShape(P) /\ MergedSoFar(points, found, Len(found), merge)
    BY MergedInAll
<1>2. Said(points, found, merged)
    BY MergeSays
<1>3. merged \in Seq(P) /\ merge.added \in Nat /\ merge.updated \in Nat
    BY <1>1 DEF MergeShape
<1>4. NewTo(points, found, Len(found)) = Identities(found) \ Identities(points)
    BY DEF NewTo, Identities
<1> HIDE DEF merge
<1>5. /\ Len(merged) = Len(points) + merge.added
      /\ merge.added = Cardinality(Identities(found) \ Identities(points))
      /\ merge.updated <= Len(found) - merge.added
    BY <1>1, <1>3, <1>4 DEF MergedSoFar, CountedTo
<1>6. ASSUME NEW i \in DOMAIN points
      PROVE  merged[i] = IF LastOfIdentity(points, i)
                         THEN [points[i] EXCEPT
                                 !.tag = Latest(found, points[i].id, "tag", @),
                                 !.label = Latest(found, points[i].id, "label", @)]
                         ELSE points[i]
    <2>1. points[i] \in P /\ merged[i] \in P
        <3>1. i \in DOMAIN merged
            BY <1>3, <1>5
        <3> QED
            BY <1>3, <3>1
    <2> QED
        BY <1>2, <2>1 DEF Said, P, Pointlike
<1>7. MergedAsFound(points, found, merge)
    <2>1. \A i \in DOMAIN merged \ DOMAIN points :
            /\ merged[i].id \in Identities(found) \ Identities(points)
            /\ merged[i].tag = Latest(found, merged[i].id, "tag", Blank)
            /\ merged[i].label = Latest(found, merged[i].id, "label", Blank)
            /\ \A j \in DOMAIN merged \ DOMAIN points :
                  i < j => FirstOfIdentity(found, merged[i].id)
                             < FirstOfIdentity(found, merged[j].id)
        BY <1>2 DEF Said
    <2> QED
        BY <1>5, <1>6, <2>1 DEF MergedAsFound
<1> QED
    BY <1>7 DEF merge

\* Merging the same points again changes nothing.
THEOREM MergeSettles ==
    ASSUME NEW keys, NEW tags, NEW labels,
           NEW points \in Seq(Pointlike(keys, tags, labels)),
           NEW found \in Seq(Pointlike(keys, tags, labels))
    PROVE  LET merged == Merge(points, found).points
               again == Merge(merged, found)
           IN  again.points = merged /\ again.added = 0
<1> DEFINE P == Pointlike(keys, tags, labels)
           merged == Merge(points, found).points
           again == Merge(merged, found)
           twice == again.points
<1>1. merged \in Seq(P) /\ Len(points) <= Len(merged)
    BY MergeKeeps
<1>2. Said(points, found, merged)
    BY MergeSays
<1> HIDE DEF merged
<1>3. again \in MergeShape(P) /\ MergedAsFound(merged, found, again) /\ Said(merged, found, twice)
    BY <1>1, MergedInAll, MergeAsFound, MergeSays
<1> HIDE DEF again
<1>4. twice \in Seq(P)
    BY <1>3 DEF MergeShape
<1> HIDE DEF P
<1>5. again.added = 0 /\ Len(twice) = Len(merged)
    <2>1. Identities(found) \ Identities(merged) = {}
        BY <1>2 DEF Said
    <2>2. again.added = Cardinality({}) /\ Len(twice) = Len(merged) + again.added
        BY <1>3, <2>1 DEF MergedAsFound
    <2> QED
        BY <1>1, <2>2, FS_EmptySet
<1>6. /\ DOMAIN points \subseteq DOMAIN merged
      /\ DOMAIN twice = DOMAIN merged
    BY <1>1, <1>4, <1>5
\* An identity that is new is the last of its kind, and no configured point has it.
<1>7. ASSUME NEW i \in DOMAIN merged
      PROVE  IF i \in DOMAIN points
             THEN LastOfIdentity(merged, i) => LastOfIdentity(points, i)
             ELSE LastOfIdentity(merged, i)
    <2>1. CASE i \in DOMAIN points
        BY <1>2, <1>6, <2>1 DEF Said, LastOfIdentity
    <2>2. CASE i \notin DOMAIN points
        <3>1. merged[i].id \in Identities(found) /\ merged[i].id \notin Identities(points)
            BY <1>2, <2>2 DEF Said
        <3>2. FirstOfIdentity(found, merged[i].id) \in Nat
            <4>1. PICK n \in DOMAIN found : found[n].id = merged[i].id
                BY <3>1 DEF Identities
            <4>2. found \in Seq(P) /\ FirstOfIdentity(found, found[n].id) \in DOMAIN found
                BY FirstFinds DEF P
            <4> QED
                BY <4>1, <4>2
        <3>3. ASSUME NEW j \in DOMAIN merged, merged[j].id = merged[i].id
              PROVE  j <= i
            <4>1. j \notin DOMAIN points
                BY <1>2, <3>1, <3>3 DEF Said, Identities
            <4>2. i < j => FirstOfIdentity(found, merged[i].id)
                             < FirstOfIdentity(found, merged[j].id)
                BY <1>2, <2>2, <4>1 DEF Said
            <4> QED
                BY <1>1, <3>2, <3>3, <4>2
        <3> QED
            BY <2>2, <3>3 DEF LastOfIdentity
    <2> QED
        BY <2>1, <2>2
\* So the latest was said the first time.
<1>8. \A id, field, otherwise :
        Latest(found, id, field, Latest(found, id, field, otherwise))
          = Latest(found, id, field, otherwise)
    BY DEF Latest
<1>9. ASSUME NEW i \in DOMAIN merged
      PROVE  twice[i] = merged[i]
    <2>1. CASE LastOfIdentity(merged, i)
        <3>1. /\ twice[i].id = merged[i].id
              /\ twice[i].enabled = merged[i].enabled
              /\ twice[i].tag = Latest(found, merged[i].id, "tag", merged[i].tag)
              /\ twice[i].label = Latest(found, merged[i].id, "label", merged[i].label)
            BY <1>3, <2>1 DEF Said
        <3>2. CASE i \in DOMAIN points
            <4>1. /\ merged[i].id = points[i].id
                  /\ merged[i].tag = Latest(found, points[i].id, "tag", points[i].tag)
                  /\ merged[i].label = Latest(found, points[i].id, "label", points[i].label)
                BY <1>2, <1>7, <2>1, <3>2 DEF Said
            <4> QED
                BY <1>1, <1>4, <1>6, <1>8, <3>1, <4>1, SameFields DEF P
        <3>3. CASE i \notin DOMAIN points
            <4>1. /\ merged[i].tag = Latest(found, merged[i].id, "tag", Blank)
                  /\ merged[i].label = Latest(found, merged[i].id, "label", Blank)
                BY <1>2, <3>3 DEF Said
            <4> QED
                BY <1>1, <1>4, <1>6, <1>8, <3>1, <4>1, SameFields DEF P
        <3> QED
            BY <3>2, <3>3
    <2>2. CASE ~LastOfIdentity(merged, i)
        BY <1>3, <2>2 DEF Said
    <2> QED
        BY <2>1, <2>2
<1>10. twice = merged
    BY <1>1, <1>4, <1>5, <1>6, <1>9
<1> QED
    BY <1>5, <1>10 DEF merged, again

\* The points of a merge are points that the merge tells apart.
LEMMA InputsAreLists ==
    ASSUME NEW list \in MergeInputs
    PROVE  LET P == Pointlike(Ids, MergeTexts \cup {Blank}, MergeTexts \cup {Blank})
           IN  list.of = "merge" /\ list.points \in Seq(P) /\ list.found \in Seq(P)
<1> DEFINE P == Pointlike(Ids, MergeTexts \cup {Blank}, MergeTexts \cup {Blank})
<1>1. Configured \subseteq P /\ Found \subseteq P
    BY DEF Configured, Found, Pointlike
<1>2. list.points \in UNION { [1 .. m -> Configured] : m \in 0 .. MaxConfigured }
    BY DEF MergeInputs, BoundedSeq, SeqOf
<1>3. list.found \in UNION { [1 .. m -> Found] : m \in 0 .. MaxFound }
    BY DEF MergeInputs, BoundedSeq, SeqOf
<1> HIDE DEF P
<1>4. list.points \in Seq(P)
    <2>1. PICK m \in 0 .. MaxConfigured : list.points \in [1 .. m -> Configured]
        BY <1>2
    <2> QED
        BY <1>1, <2>1
<1>5. list.found \in Seq(P)
    <2>1. PICK m \in 0 .. MaxFound : list.found \in [1 .. m -> Found]
        BY <1>3
    <2> QED
        BY <1>1, <2>1
<1> QED
    BY <1>4, <1>5 DEF P, MergeInputs

\* merge_imported_points leaves every configured point where it is, and what it makes of
\* the list is what MergeCorrect says, whatever the identities and the texts.
THEOREM ImportsMerged == AlgorithmSpec => []MergeCorrect
<1> DEFINE AInv == (input.of = "merge" => input \in MergeInputs) /\ MergeCorrect
<1>1. AlgorithmInit => AInv
    BY DEF AlgorithmInit, NameInputs, ScalarInputs, MergeCorrect, Computed, NotYet
<1>2. AInv /\ [AlgorithmNext]_algorithm => AInv'
    <2> SUFFICES ASSUME AInv, [AlgorithmNext]_algorithm
                 PROVE  AInv'
        OBVIOUS
    <2>1. CASE MergePoints /\ UNCHANGED input
        <3> DEFINE P == Pointlike(Ids, MergeTexts \cup {Blank}, MergeTexts \cup {Blank})
        <3>1. input.points \in Seq(P) /\ input.found \in Seq(P)
            BY <2>1, InputsAreLists DEF MergePoints
        <3>2. /\ MergedAsFound(input.points, input.found, Merge(input.points, input.found))
              /\ LET merged == Merge(input.points, input.found).points
                     again == Merge(merged, input.found)
                 IN  again.points = merged /\ again.added = 0
            BY <3>1, MergeAsFound, MergeSettles
        <3>3. result' = Merge(input.points, input.found)
            BY <2>1 DEF MergePoints, result
        <3> QED
            BY <2>1, <3>2, <3>3 DEF MergeCorrect
    <2>2. CASE (ReadName \/ Decode) /\ UNCHANGED input
        BY <2>2 DEF ReadName, Decode, MergeCorrect, Computed
    <2>3. CASE UNCHANGED algorithm
        BY <2>3 DEF algorithm, MergeCorrect, Computed, result
    <2> QED
        BY <2>1, <2>2, <2>3 DEF AlgorithmNext
<1> QED
    BY <1>1, <1>2, PTL DEF AlgorithmSpec

-----------------------------------------------------------------------------
(* Values *)

\* application_payload takes from what follows the first byte what the value is encoded
\* in, neither more nor less, and fails if it is not all there.
THEOREM PayloadIsEncoded ==
    ASSUME NEW code \in Nat, NEW rest \in Seq(Nat)
    PROVE  /\ \A bytes \in Seq(Nat) : Encodes(code, rest, bytes) <=> Payload(code, rest) = Ok(bytes)
           /\ Payload(code, rest).ok => Payload(code, rest).value \in Seq(Nat)
<1> DEFINE prefix(offset, length) == SubSeq(rest, offset + 1, offset + length)
<1>1. Len(rest) \in Nat /\ \A i \in 1 .. Len(rest) : rest[i] \in Nat
    OBVIOUS
<1>2. ASSUME NEW offset \in Nat, NEW length \in Nat, offset + length <= Len(rest)
      PROVE  prefix(offset, length) \in Seq(Nat) /\ Len(prefix(offset, length)) = length
    <2>1. \A i \in offset + 1 .. offset + length : rest[i] \in Nat
        BY <1>1, <1>2
    <2> HIDE DEF prefix
    <2>2. /\ SubSeq(rest, offset + 1, offset + length) \in Seq(Nat)
          /\ Len(SubSeq(rest, offset + 1, offset + length))
               = IF offset + 1 <= offset + length
                 THEN (offset + length) - (offset + 1) + 1 ELSE 0
        BY <2>1, SubSeqProperties
    <2> QED
        BY <2>2 DEF prefix
<1>3. \A a, b : (Ok(a) = Ok(b) <=> a = b) /\ Ok(a) # Error(b) /\ Ok(a).ok /\ ~Error(a).ok
                /\ Ok(a).value = a
    BY DEF Ok, Error
<1>4. CASE code <= 4
    <2>1. Payload(code, rest) = IF code > Len(rest) THEN Error("Truncated")
                                ELSE Ok(SubSeq(rest, 1, code))
        BY <1>4 DEF Payload
    <2>2. code <= Len(rest) => /\ SubSeq(rest, 1, code) \in Seq(Nat)
                               /\ Len(SubSeq(rest, 1, code)) = code
        BY <1>1, <1>2
    <2>3. CASE code > Len(rest)
        <3>1. \A bytes \in Seq(Nat) : ~Encodes(code, rest, bytes)
            BY <1>1, <1>4, <2>3 DEF Encodes
        <3> QED
            BY <1>3, <2>1, <2>3, <3>1
    <2>4. CASE code <= Len(rest)
        <3>1. Payload(code, rest) = Ok(SubSeq(rest, 1, code))
            BY <1>1, <2>1, <2>4
        <3>2. \A bytes \in Seq(Nat) : Encodes(code, rest, bytes) <=> bytes = SubSeq(rest, 1, code)
            <4> SUFFICES ASSUME NEW bytes \in Seq(Nat)
                         PROVE  Encodes(code, rest, bytes) <=> bytes = SubSeq(rest, 1, code)
                OBVIOUS
            <4>1. Encodes(code, rest, bytes)
                    <=> code = Len(bytes) /\ Len(rest) >= Len(bytes)
                        /\ SubSeq(rest, 1, Len(bytes)) = bytes
                <5>1. code # 5
                    BY <1>4
                <5> QED
                    BY <1>4, <5>1, Zenon DEF Encodes
            <4> HIDE DEF Encodes
            <4>2. Len(SubSeq(rest, 1, code)) = code
                BY <2>2, <2>4
            <4>3. ASSUME Encodes(code, rest, bytes) PROVE bytes = SubSeq(rest, 1, code)
                BY <4>1, <4>3
            <4>4. ASSUME bytes = SubSeq(rest, 1, code) PROVE Encodes(code, rest, bytes)
                <5>1. code = Len(bytes)
                    BY <4>2, <4>4
                <5> QED
                    BY <2>4, <4>1, <4>4, <5>1
            <4> QED
                BY <4>3, <4>4
        <3> DEFINE taken == SubSeq(rest, 1, code)
        <3>3. taken \in Seq(Nat)
            BY <2>2, <2>4
        <3> HIDE DEF taken
        <3>4. Payload(code, rest).ok => Payload(code, rest).value \in Seq(Nat)
            BY <1>3, <3>1, <3>3 DEF taken
        <3>5. \A bytes \in Seq(Nat) : Ok(taken) = Ok(bytes) <=> bytes = taken
            BY <1>3
        <3>6. \A bytes \in Seq(Nat) : Encodes(code, rest, bytes) <=> Payload(code, rest) = Ok(bytes)
            BY <3>1, <3>2, <3>5 DEF taken
        <3> QED
            BY <3>4, <3>6
    <2> QED
        BY <1>1, <2>3, <2>4
<1>5. CASE code > 5
    BY <1>3, <1>5 DEF Payload, Encodes
<1>6. CASE code = 5 /\ rest = << >>
    BY <1>3, <1>6 DEF Payload, Encodes
<1>7. CASE code = 5 /\ rest # << >>
    <2>1. rest[1] \in Nat /\ Len(rest) >= 1
        BY <1>1, <1>7
    <2>2. Payload(code, rest) = IF 1 + rest[1] > Len(rest) THEN Error("Truncated")
                                ELSE Ok(SubSeq(rest, 2, 1 + rest[1]))
        BY <1>7 DEF Payload
    <2>3. 1 + rest[1] <= Len(rest) => /\ SubSeq(rest, 2, 1 + rest[1]) \in Seq(Nat)
                                      /\ Len(SubSeq(rest, 2, 1 + rest[1])) = rest[1]
        BY <1>1, <1>2, <2>1
    <2>4. CASE 1 + rest[1] > Len(rest)
        <3>1. \A bytes \in Seq(Nat) : ~Encodes(code, rest, bytes)
            BY <1>1, <1>7, <2>1, <2>4 DEF Encodes
        <3> QED
            BY <1>3, <2>2, <2>4, <3>1
    <2>5. CASE 1 + rest[1] <= Len(rest)
        <3>1. Payload(code, rest) = Ok(SubSeq(rest, 2, 1 + rest[1]))
            BY <1>1, <2>1, <2>2, <2>5
        <3>2. \A bytes \in Seq(Nat) :
                Encodes(code, rest, bytes) <=> bytes = SubSeq(rest, 2, 1 + rest[1])
            <4> SUFFICES ASSUME NEW bytes \in Seq(Nat)
                         PROVE  Encodes(code, rest, bytes) <=> bytes = SubSeq(rest, 2, 1 + rest[1])
                OBVIOUS
            <4>1. Encodes(code, rest, bytes)
                    <=> Len(rest) > Len(bytes) /\ rest[1] = Len(bytes)
                        /\ SubSeq(rest, 2, Len(bytes) + 1) = bytes
                <5>1. ~(code <= 4)
                    BY <1>7
                <5> QED
                    BY <1>7, <5>1, Zenon DEF Encodes
            <4> HIDE DEF Encodes
            <4>2. Len(bytes) = rest[1] => Len(bytes) + 1 = 1 + rest[1]
                BY <2>1
            <4>3. Len(SubSeq(rest, 2, 1 + rest[1])) = rest[1]
                BY <2>3, <2>5
            <4>4. ASSUME Encodes(code, rest, bytes) PROVE bytes = SubSeq(rest, 2, 1 + rest[1])
                BY <4>1, <4>2, <4>4
            <4>5. ASSUME bytes = SubSeq(rest, 2, 1 + rest[1]) PROVE Encodes(code, rest, bytes)
                <5>1. rest[1] = Len(bytes)
                    BY <4>3, <4>5
                <5>2. Len(rest) > rest[1]
                    BY <1>1, <2>1, <2>5
                <5> QED
                    BY <4>1, <4>2, <4>5, <5>1, <5>2
            <4> QED
                BY <4>4, <4>5
        <3>3. SubSeq(rest, 2, 1 + rest[1]) \in Seq(Nat)
            BY <2>3, <2>5
        <3> DEFINE taken == SubSeq(rest, 2, 1 + rest[1])
        <3> HIDE DEF taken
        <3>4. Payload(code, rest).ok => Payload(code, rest).value \in Seq(Nat)
            BY <1>3, <3>1, <3>3 DEF taken
        <3>5. \A bytes \in Seq(Nat) : Ok(taken) = Ok(bytes) <=> bytes = taken
            BY <1>3
        <3>6. \A bytes \in Seq(Nat) : Encodes(code, rest, bytes) <=> Payload(code, rest) = Ok(bytes)
            BY <3>1, <3>2, <3>5 DEF taken
        <3> QED
            BY <3>4, <3>6
    <2> QED
        BY <1>1, <2>1, <2>4, <2>5
<1> QED
    BY <1>4, <1>5, <1>6, <1>7

\* Of the values that have a payload, one that is not complete is refused.
THEOREM IncompleteRefused ==
    ASSUME NEW tag \in Nat \ {0, 1}, NEW code \in Nat, NEW rest \in Seq(Nat),
           \A bytes \in Seq(Nat) : ~Encodes(code, rest, bytes)
    PROVE  ~DecodeScalar(tag, code, rest).ok
<1>1. ~Payload(code, rest).ok
    <2>1. SUFFICES ASSUME Payload(code, rest).ok PROVE FALSE
        OBVIOUS
    <2>2. Payload(code, rest) = Ok(Payload(code, rest).value)
        BY <2>1 DEF Payload, Ok, Error
    <2> QED
        BY <2>1, <2>2, PayloadIsEncoded
<1>2. ~Error("UnsupportedTag").ok
    BY DEF Error
<1> QED
    BY <1>1, <1>2 DEF DecodeScalar

-----------------------------------------------------------------------------
(* Folds whose values stay in a set *)

\* What a fold over the first n elements of a sequence makes, by the positions it took.
IsFold(iter, base, step, seq, n) ==
    iter = [s \in SUBSET (1 .. n) |->
              IF s = {} THEN base ELSE step[<<iter[s \ {Max(s)}], seq[Max(s)]>>]]

\* There is such a function, and it stays among what the steps make: among the lengths
\* that had none there would be a smallest one.
LEMMA FoldExists ==
    ASSUME NEW Acc, NEW Elem, NEW base \in Acc, NEW step \in [Acc \X Elem -> Acc],
           NEW seq \in Seq(Elem), NEW n \in 0 .. Len(seq)
    PROVE  \E iter \in [SUBSET (1 .. n) -> Acc] : IsFold(iter, base, step, seq, n)
<1> DEFINE Has(m) == \E iter \in [SUBSET (1 .. m) -> Acc] : IsFold(iter, base, step, seq, m)
           without == { m \in 0 .. Len(seq) : ~Has(m) }
<1>0. Len(seq) \in Nat /\ \A i \in 1 .. Len(seq) : seq[i] \in Elem
    OBVIOUS
<1>1. SUFFICES ASSUME without # {}
               PROVE  FALSE
    OBVIOUS
<1>2. PICK m \in without : \A k \in without : m <= k
    <2>1. without \in SUBSET Nat
        BY <1>0
    <2> HIDE DEF without
    <2> QED
        BY <1>1, <2>1, LeastExists
<1>3. m # 0
    <2> DEFINE none == [s \in SUBSET (1 .. 0) |-> base]
    <2>1. \A s \in SUBSET (1 .. 0) : s = {}
        OBVIOUS
    <2>2. none = [s \in SUBSET (1 .. 0) |->
                    IF s = {} THEN base ELSE step[<<none[s \ {Max(s)}], seq[Max(s)]>>]]
        BY <2>1
    <2>3. none \in [SUBSET (1 .. 0) -> Acc]
        OBVIOUS
    <2> HIDE DEF none
    <2>4. Has(0)
        BY <2>2, <2>3 DEF IsFold
    <2> QED
        BY <1>2, <2>4
<1>4. PICK g \in [SUBSET (1 .. m - 1) -> Acc] : IsFold(g, base, step, seq, m - 1)
    <2>1. m - 1 \in 0 .. Len(seq) /\ ~(m <= m - 1)
        BY <1>0, <1>2, <1>3
    <2>2. m - 1 \notin without
        BY <1>2, <2>1
    <2> QED
        BY <2>1, <2>2
<1> DEFINE h == [s \in SUBSET (1 .. m) |->
                   IF s = {} THEN base ELSE step[<<g[s \ {Max(s)}], seq[Max(s)]>>]]
<1>5. m \in Nat /\ 1 .. m \subseteq 1 .. Len(seq)
    BY <1>0, <1>2
<1>6. ASSUME NEW s \in SUBSET (1 .. m), s # {}
      PROVE  /\ h[s \ {Max(s)}] = g[s \ {Max(s)}]
             /\ g[s \ {Max(s)}] \in Acc /\ seq[Max(s)] \in Elem
    <2>1. Max(s) \in s /\ s \ {Max(s)} \in SUBSET (1 .. m - 1)
        BY <1>5, <1>6, WithoutLast
    <2>2. s \ {Max(s)} \in SUBSET (1 .. m)
        OBVIOUS
    <2>3. g[s \ {Max(s)}] = IF s \ {Max(s)} = {} THEN base
                            ELSE step[<<g[(s \ {Max(s)}) \ {Max(s \ {Max(s)})}], seq[Max(s \ {Max(s)})]>>]
        BY <1>4, <2>1 DEF IsFold
    <2>4. g[s \ {Max(s)}] \in Acc /\ seq[Max(s)] \in Elem
        BY <1>0, <1>4, <1>5, <2>1
    <2> QED
        BY <2>2, <2>3, <2>4
<1>7. h \in [SUBSET (1 .. m) -> Acc]
    <2>1. ASSUME NEW s \in SUBSET (1 .. m), s # {}
          PROVE  step[<<g[s \ {Max(s)}], seq[Max(s)]>>] \in Acc
        BY <1>6, <2>1
    <2> QED
        BY <2>1
<1>8. h = [s \in SUBSET (1 .. m) |->
             IF s = {} THEN base ELSE step[<<h[s \ {Max(s)}], seq[Max(s)]>>]]
    BY <1>6
<1> HIDE DEF h
<1>9. Has(m)
    BY <1>7, <1>8 DEF IsFold
<1> QED
    BY <1>2, <1>9

\* The last of a sequence of steps that stay in Acc is in Acc.
LEMMA FoldStays ==
    ASSUME NEW Acc, NEW n \in Nat, NEW iter, iter[{}] \in Acc,
           \A k \in 1 .. n : iter[(1 .. k) \ {Max(1 .. k)}] \in Acc => iter[1 .. k] \in Acc
    PROVE  iter[1 .. n] \in Acc
<1> DEFINE without == { m \in 0 .. n : iter[1 .. m] \notin Acc }
<1>1. SUFFICES ASSUME without # {}
               PROVE  FALSE
    OBVIOUS
<1>2. PICK m \in without : \A k \in without : m <= k
    <2>1. without \in SUBSET Nat
        OBVIOUS
    <2> HIDE DEF without
    <2> QED
        BY <1>1, <2>1, LeastExists
<1>3. m # 0
    <2>1. 1 .. 0 = {}
        OBVIOUS
    <2> QED
        BY <1>2, <2>1
<1>4. m \in 1 .. n /\ m - 1 \in 0 .. n /\ ~(m <= m - 1)
    BY <1>2, <1>3
<1>5. iter[1 .. m - 1] \in Acc
    BY <1>2, <1>4
<1>6. (1 .. m) \ {Max(1 .. m)} = 1 .. m - 1
    BY <1>4, MaxOfFirst
<1> QED
    BY <1>2, <1>4, <1>5, <1>6

\* The same of a whole sequence, with what each step is taken from.
TakesSteps(iter, Acc, Elem, base, step, seq) ==
    /\ iter = [s \in SUBSET DOMAIN seq |-> iter[s]]
    /\ iter[{}] = base
    /\ \A s \in SUBSET DOMAIN seq : s # {} =>
          /\ iter[s \ {Max(s)}] \in Acc /\ seq[Max(s)] \in Elem
          /\ iter[s] = step[<<iter[s \ {Max(s)}], seq[Max(s)]>>]

LEMMA FoldOver ==
    ASSUME NEW Acc, NEW Elem, NEW base \in Acc, NEW step \in [Acc \X Elem -> Acc],
           NEW seq \in Seq(Elem)
    PROVE  \E iter : TakesSteps(iter, Acc, Elem, base, step, seq)
<1>1. /\ Len(seq) \in Nat /\ DOMAIN seq = 1 .. Len(seq) /\ Len(seq) \in 0 .. Len(seq)
      /\ \A i \in DOMAIN seq : seq[i] \in Elem
    OBVIOUS
<1>2. PICK iter \in [SUBSET (1 .. Len(seq)) -> Acc] : IsFold(iter, base, step, seq, Len(seq))
    BY <1>1, FoldExists
<1>3. iter = [s \in SUBSET DOMAIN seq |-> iter[s]]
    BY <1>1
<1>4. \A s \in SUBSET DOMAIN seq :
        iter[s] = IF s = {} THEN base ELSE step[<<iter[s \ {Max(s)}], seq[Max(s)]>>]
    BY <1>1, <1>2 DEF IsFold
<1>5. ASSUME NEW s \in SUBSET DOMAIN seq, s # {}
      PROVE  iter[s \ {Max(s)}] \in Acc /\ seq[Max(s)] \in Elem
    <2>1. Max(s) \in s /\ s \ {Max(s)} \in SUBSET (1 .. Len(seq))
        <3>1. Max(s) \in s
            BY <1>1, <1>5, MaxIsGreatest
        <3> QED
            BY <1>1, <3>1
    <2> QED
        BY <1>1, <2>1
<1> QED
    BY <1>3, <1>4, <1>5 DEF TakesSteps

LEMMA FoldEnds ==
    ASSUME NEW Acc, NEW Elem, NEW seq \in Seq(Elem), NEW iter, iter[{}] \in Acc,
           \A s \in SUBSET DOMAIN seq :
              s # {} /\ iter[s \ {Max(s)}] \in Acc => iter[s] \in Acc
    PROVE  iter[DOMAIN seq] \in Acc
<1>1. Len(seq) \in Nat /\ DOMAIN seq = 1 .. Len(seq)
    OBVIOUS
<1>2. ASSUME NEW k \in 1 .. Len(seq), iter[(1 .. k) \ {Max(1 .. k)}] \in Acc
      PROVE  iter[1 .. k] \in Acc
    <2>1. 1 .. k # {} /\ 1 .. k \in SUBSET DOMAIN seq
        <3>1. k \in Nat /\ 1 <= k /\ k <= Len(seq)
            BY <1>1
        <3> QED
            BY <1>1, <3>1
    <2> QED
        BY <1>2, <2>1
<1> QED
    BY <1>1, <1>2, FoldStays

\* A fold takes one step after the other, of the first k elements.
StepsOver(fold, Acc, base, step, seq) ==
    /\ fold[{}] = base
    /\ \A s \in SUBSET DOMAIN seq :
          s # {} /\ fold[s \ {Max(s)}] \in Acc =>
             fold[s] = step[<<fold[s \ {Max(s)}], seq[Max(s)]>>]

Unrolled(fold, Acc, base, step, seq) ==
    /\ fold[1 .. 0] = base
    /\ \A k \in 1 .. Len(seq) : /\ fold[1 .. k - 1] \in Acc
                                /\ fold[1 .. k] = step[<<fold[1 .. k - 1], seq[k]>>]
    /\ \A k \in 0 .. Len(seq) : fold[1 .. k] \in Acc

LEMMA FoldUnrolled ==
    ASSUME NEW Acc, NEW Elem, NEW base \in Acc, NEW step \in [Acc \X Elem -> Acc],
           NEW seq \in Seq(Elem), NEW fold, StepsOver(fold, Acc, base, step, seq)
    PROVE  Unrolled(fold, Acc, base, step, seq)
<1>0. /\ fold[{}] = base
      /\ \A s \in SUBSET DOMAIN seq :
            s # {} /\ fold[s \ {Max(s)}] \in Acc =>
               fold[s] = step[<<fold[s \ {Max(s)}], seq[Max(s)]>>]
    BY DEF StepsOver
<1> DEFINE holds == { k \in 0 .. Len(seq) : fold[1 .. k] \in Acc }
<1>1. /\ Len(seq) \in Nat /\ DOMAIN seq = 1 .. Len(seq)
      /\ \A k \in 1 .. Len(seq) : seq[k] \in Elem
    OBVIOUS
<1>2. fold[1 .. 0] = base
    <2>1. 1 .. 0 = {}
        OBVIOUS
    <2> QED
        BY <1>0, <2>1
<1>3. ASSUME NEW k \in 1 .. Len(seq), fold[1 .. k - 1] \in Acc
      PROVE  fold[1 .. k] = step[<<fold[1 .. k - 1], seq[k]>>]
    <2>1. 1 .. k \in SUBSET DOMAIN seq /\ 1 .. k # {} /\ k \in Nat /\ k \in 1 .. k
        <3>1. k \in Nat /\ 1 <= k /\ k <= Len(seq)
            BY <1>1
        <3>2. \A y \in 1 .. k : y \in 1 .. Len(seq)
            BY <1>1, <3>1
        <3>3. k \in 1 .. k
            BY <3>1
        <3> QED
            BY <1>1, <3>1, <3>2, <3>3
    <2>2. Max(1 .. k) = k /\ (1 .. k) \ {k} = 1 .. k - 1
        BY <2>1, MaxOfFirst
    <2> QED
        BY <1>0, <1>3, <2>1, <2>2
<1>4. \A k \in 0 .. Len(seq) : k \in holds
    <2>1. 0 \in holds
        BY <1>1, <1>2
    <2>2. ASSUME NEW k \in 1 .. Len(seq), k - 1 \in holds
          PROVE  k \in holds
        <3>1. k \in 0 .. Len(seq) /\ seq[k] \in Elem /\ fold[1 .. k - 1] \in Acc
            BY <1>1, <2>2
        <3>2. fold[1 .. k] = step[<<fold[1 .. k - 1], seq[k]>>]
            BY <1>3, <3>1
        <3> QED
            BY <3>1, <3>2
    <2> HIDE DEF holds
    <2> QED
        BY <1>1, <2>1, <2>2, InductionTo
<1>5. \A k \in 1 .. Len(seq) : fold[1 .. k - 1] \in Acc
    <2> TAKE k \in 1 .. Len(seq)
    <2>1. k - 1 \in 0 .. Len(seq)
        BY <1>1
    <2> QED
        BY <1>4, <2>1
<1> QED
    BY <1>2, <1>3, <1>4, <1>5 DEF Unrolled

\* One more element takes one more step.
LEMMA FoldAppended ==
    ASSUME NEW Acc, NEW Elem, NEW base, NEW step, NEW seq \in Seq(Elem), NEW x \in Elem,
           NEW fold, Unrolled(fold, Acc, base, step, seq),
           NEW longer, Unrolled(longer, Acc, base, step, Append(seq, x))
    PROVE  longer[1 .. Len(Append(seq, x))] = step[<<fold[1 .. Len(seq)], x>>]
<1> DEFINE more == Append(seq, x)
           holds == { k \in 0 .. Len(seq) : longer[1 .. k] = fold[1 .. k] }
<1>1. /\ Len(seq) \in Nat /\ Len(more) = Len(seq) + 1 /\ more[Len(seq) + 1] = x
      /\ \A k \in 1 .. Len(seq) : more[k] = seq[k]
    OBVIOUS
<1>2. /\ fold[1 .. 0] = base
      /\ \A k \in 1 .. Len(seq) : fold[1 .. k] = step[<<fold[1 .. k - 1], seq[k]>>]
    BY DEF Unrolled
<1>3. /\ longer[1 .. 0] = base
      /\ \A k \in 1 .. Len(more) : longer[1 .. k] = step[<<longer[1 .. k - 1], more[k]>>]
    BY DEF Unrolled
<1> HIDE DEF more
<1>4. 0 \in holds
    BY <1>1, <1>2, <1>3
<1>5. ASSUME NEW k \in 1 .. Len(seq), k - 1 \in holds
      PROVE  k \in holds
    <2>1. k \in 0 .. Len(seq) /\ k \in 1 .. Len(more) /\ more[k] = seq[k]
        BY <1>1
    <2>2. longer[1 .. k] = fold[1 .. k]
        BY <1>2, <1>3, <1>5, <2>1
    <2> QED
        BY <2>1, <2>2
<1>6. \A k \in 0 .. Len(seq) : k \in holds
    <2> HIDE DEF holds
    <2> QED
        BY <1>1, <1>4, <1>5, InductionTo
<1>7. longer[1 .. Len(seq)] = fold[1 .. Len(seq)]
    BY <1>1, <1>6
<1>8. Len(more) \in 1 .. Len(more) /\ Len(more) - 1 = Len(seq)
    BY <1>1
<1> QED
    BY <1>1, <1>3, <1>7, <1>8 DEF more

-----------------------------------------------------------------------------
(* Texts *)

\* White space.
Blanks == {" "}

\* The characters that a topic level does not keep.
Soft == {"/", "#", "+", " "}

Bar == "_"

LEMMA SameText ==
    ASSUME NEW C, NEW t \in Seq(C), NEW u \in Seq(C), Len(t) = Len(u),
           \A j \in 1 .. Len(u) : t[j] = u[j]
    PROVE  t = u
OBVIOUS

LEMMA OneMore ==
    ASSUME NEW C, NEW text \in Seq(C), NEW c \in C
    PROVE  /\ Append(text, c) \in Seq(C) /\ Len(Append(text, c)) = Len(text) + 1
           /\ Append(text, c)[Len(text) + 1] = c
           /\ \A j \in 1 .. Len(text) : Append(text, c)[j] = text[j]
OBVIOUS

LEMMA ShortTexts ==
    ASSUME NEW C, NEW c \in C, NEW d \in C, NEW e \in C, NEW f \in C
    PROVE  /\ << >> \in Seq(C) /\ <<c>> \in Seq(C) /\ <<c, d>> \in Seq(C)
           /\ <<c, d, e>> \in Seq(C) /\ <<c, d, e, f>> \in Seq(C)
OBVIOUS

\* A trimmed text is a stretch of the text that begins and ends with something else, and
\* around it there is nothing else.
LEMMA TrimmedShape ==
    ASSUME NEW Chars, NEW text \in Seq(Chars), NEW characters
    PROVE  \E a \in Nat, n \in Nat :
              /\ a + n <= Len(text)
              /\ N!Trimmed(text, characters) \in Seq(Chars)
              /\ Len(N!Trimmed(text, characters)) = n
              /\ \A j \in 1 .. n : N!Trimmed(text, characters)[j] = text[a + j]
              /\ \A j \in 1 .. a : text[j] \in characters
              /\ \A j \in a + n + 1 .. Len(text) : text[j] \in characters
              /\ n # 0 => text[a + 1] \notin characters /\ text[a + n] \notin characters
<1> DEFINE kept == { i \in DOMAIN text : text[i] \notin characters }
           trimmed == N!Trimmed(text, characters)
<1>1. /\ Len(text) \in Nat /\ DOMAIN text = 1 .. Len(text)
      /\ \A i \in DOMAIN text : text[i] \in Chars
    OBVIOUS
<1>2. trimmed = IF kept = {} THEN << >> ELSE SubSeq(text, Min(kept), Max(kept))
    BY DEF N!Trimmed, N!Min, N!Max, Min, Max
<1>3. /\ kept \in SUBSET (1 .. Len(text)) /\ kept \in SUBSET Nat
      /\ \A j \in 1 .. Len(text) : j \notin kept => text[j] \in characters
      /\ \A j \in kept : text[j] \notin characters
    BY <1>1
<1> HIDE DEF kept, trimmed
<1>4. CASE kept = {}
    <2>1. /\ Len(text) + 0 <= Len(text) /\ trimmed \in Seq(Chars) /\ Len(trimmed) = 0
          /\ \A j \in 1 .. 0 : trimmed[j] = text[Len(text) + j]
          /\ \A j \in 1 .. Len(text) : text[j] \in characters
          /\ \A j \in Len(text) + 0 + 1 .. Len(text) : text[j] \in characters
        BY <1>1, <1>2, <1>3, <1>4
    <2> QED
        BY <1>1, <2>1 DEF trimmed
<1>5. CASE kept # {}
    <2> DEFINE first == Min(kept)
               last == Max(kept)
    <2>1. /\ first \in kept /\ last \in kept
          /\ \A j \in kept : first <= j /\ j <= last
        BY <1>1, <1>3, <1>5, MinIsLeast, MaxIsGreatest
    <2> HIDE DEF first, last
    <2>2. first \in 1 .. Len(text) /\ last \in 1 .. Len(text) /\ first <= last
        BY <1>3, <2>1
    <2>3. \A i \in first .. last : text[i] \in Chars
        BY <1>1, <2>2
    <2>4. /\ SubSeq(text, first, last) \in Seq(Chars)
          /\ Len(SubSeq(text, first, last)) = last - first + 1
          /\ \A j \in 1 .. last - first + 1 : SubSeq(text, first, last)[j] = text[first + j - 1]
        BY <1>1, <2>2, <2>3, SubSeqProperties
    <2> DEFINE a == first - 1
               n == last - first + 1
    <2>5. a \in Nat /\ n \in Nat /\ a + n = last /\ a + n <= Len(text)
        BY <1>1, <2>2
    <2>6. \A j \in 1 .. n : first + j - 1 = a + j
        BY <2>2
    <2>7. \A j \in 1 .. n : trimmed[j] = text[a + j]
        BY <1>2, <1>5, <2>4, <2>6 DEF first, last
    <2>8. \A j \in 1 .. a : j \in 1 .. Len(text) /\ j \notin kept
        BY <1>1, <2>1, <2>2
    <2>9. \A j \in a + n + 1 .. Len(text) : j \in 1 .. Len(text) /\ j \notin kept
        BY <1>1, <2>1, <2>2, <2>5
    <2>10. trimmed \in Seq(Chars) /\ Len(trimmed) = n
        BY <1>2, <1>5, <2>4 DEF first, last
    <2>11. text[a + 1] \notin characters /\ text[a + n] \notin characters
        <3>1. a + 1 = first /\ a + n = last
            BY <2>2
        <3> QED
            BY <1>3, <2>1, <3>1
    <2> HIDE DEF a, n
    <2> QED
        BY <1>3, <2>5, <2>7, <2>8, <2>9, <2>10, <2>11 DEF trimmed
<1> QED
    BY <1>4, <1>5

LEMMA TrimmedStays ==
    ASSUME NEW Chars, NEW text \in Seq(Chars), NEW characters
    PROVE  N!Trimmed(text, characters) \in Seq(Chars)
BY TrimmedShape

\* A text that begins and ends with something else is left as it is.
LEMMA TrimmedWhole ==
    ASSUME NEW Chars, NEW text \in Seq(Chars), NEW characters,
           text # << >> => text[1] \notin characters /\ text[Len(text)] \notin characters
    PROVE  N!Trimmed(text, characters) = text
<1> DEFINE trimmed == N!Trimmed(text, characters)
<1>1. PICK a \in Nat, n \in Nat :
              /\ a + n <= Len(text)
              /\ trimmed \in Seq(Chars)
              /\ Len(trimmed) = n
              /\ \A j \in 1 .. n : trimmed[j] = text[a + j]
              /\ \A j \in 1 .. a : text[j] \in characters
              /\ \A j \in a + n + 1 .. Len(text) : text[j] \in characters
              /\ n # 0 => text[a + 1] \notin characters /\ text[a + n] \notin characters
    BY TrimmedShape
<1> HIDE DEF trimmed
<1>2. Len(text) \in Nat /\ (Len(text) # 0 => text # << >>)
    OBVIOUS
<1>3. a = 0
    <2>1. a # 0 => 1 \in 1 .. a /\ text # << >>
        BY <1>1, <1>2
    <2> QED
        BY <1>1, <2>1
<1>4. n = Len(text)
    <2>1. n # Len(text) => Len(text) \in a + n + 1 .. Len(text) /\ text # << >>
        BY <1>1, <1>2, <1>3
    <2> QED
        BY <1>1, <2>1
<1>5. \A j \in 1 .. Len(text) : trimmed[j] = text[j]
    <2>1. \A j \in 1 .. n : a + j = j
        BY <1>3
    <2> QED
        BY <1>1, <1>4, <2>1
<1> QED
    BY <1>1, <1>4, <1>5, SameText DEF trimmed

\* What Collapsed folds with, and what it makes of the first k characters.
Joint(done, c) == IF c = Bar /\ done # << >> /\ N!Last(done) = Bar THEN done ELSE Append(done, c)

JoinsOver(iter, text) ==
    iter = [s \in SUBSET DOMAIN text |->
              IF s = {} THEN << >> ELSE Joint(iter[s \ {Max(s)}], text[Max(s)])]

CollapsedTo(text, k) == (CHOOSE iter : JoinsOver(iter, text))[1 .. k]

LEMMA CollapsedUnrolled ==
    ASSUME NEW Chars, NEW text \in Seq(Chars)
    PROVE  /\ N!Collapsed(text) = CollapsedTo(text, Len(text))
           /\ CollapsedTo(text, 0) = << >>
           /\ \A k \in 1 .. Len(text) :
                CollapsedTo(text, k) = Joint(CollapsedTo(text, k - 1), text[k])
           /\ \A k \in 0 .. Len(text) : CollapsedTo(text, k) \in Seq(Chars)
<1> DEFINE step == [at \in Seq(Chars) \X Chars |-> Joint(at[1], at[2])]
           chosen == CHOOSE iter : JoinsOver(iter, text)
           holds == { k \in 0 .. Len(text) : CollapsedTo(text, k) \in Seq(Chars) }
<1>1. Len(text) \in Nat /\ DOMAIN text = 1 .. Len(text) /\ \A k \in 1 .. Len(text) : text[k] \in Chars
    OBVIOUS
<1>2. N!Collapsed(text) = chosen[DOMAIN text]
    BY DEF N!Collapsed, N!FoldLeft, N!MapThenFoldSet, N!Max, Max, JoinsOver, Joint, Bar
<1>3. ASSUME NEW done \in Seq(Chars), NEW c \in Chars
      PROVE  Joint(done, c) \in Seq(Chars)
    <2>1. Append(done, c) \in Seq(Chars)
        OBVIOUS
    <2> QED
        BY <2>1, Zenon DEF Joint
<1>4. step \in [Seq(Chars) \X Chars -> Seq(Chars)] /\ << >> \in Seq(Chars)
    BY <1>3
<1> HIDE DEF step
<1>5. PICK iter : TakesSteps(iter, Seq(Chars), Chars, << >>, step, text)
    BY <1>4, FoldOver
<1>6. JoinsOver(iter, text)
    <2>1. \A s \in SUBSET DOMAIN text : s # {} => iter[s] = Joint(iter[s \ {Max(s)}], text[Max(s)])
        BY <1>5 DEF TakesSteps, step
    <2> QED
        BY <1>5, <2>1 DEF TakesSteps, JoinsOver
<1>7. JoinsOver(chosen, text)
    BY <1>6
<1> HIDE DEF chosen
<1>8. \A s \in SUBSET DOMAIN text :
        chosen[s] = IF s = {} THEN << >> ELSE Joint(chosen[s \ {Max(s)}], text[Max(s)])
    BY <1>7 DEF JoinsOver
<1>9. CollapsedTo(text, 0) = << >>
    <2>1. 1 .. 0 = {} /\ 1 .. 0 \in SUBSET DOMAIN text
        OBVIOUS
    <2> QED
        BY <1>8, <2>1 DEF CollapsedTo, chosen
<1>10. ASSUME NEW k \in 1 .. Len(text)
       PROVE  CollapsedTo(text, k) = Joint(CollapsedTo(text, k - 1), text[k])
    <2>1. 1 .. k \in SUBSET DOMAIN text /\ 1 .. k # {} /\ k \in Nat /\ k \in 1 .. k
        <3>1. k \in Nat /\ 1 <= k /\ k <= Len(text)
            BY <1>1
        <3>2. \A y \in 1 .. k : y \in 1 .. Len(text)
            BY <1>1, <3>1
        <3>3. k \in 1 .. k
            BY <3>1
        <3> QED
            BY <1>1, <3>1, <3>2, <3>3
    <2>2. Max(1 .. k) = k /\ (1 .. k) \ {k} = 1 .. k - 1
        BY <2>1, MaxOfFirst
    <2> QED
        BY <1>8, <2>1, <2>2 DEF CollapsedTo, chosen
<1>11. \A k \in 0 .. Len(text) : k \in holds
    <2>1. 0 \in 0 .. Len(text)
        BY <1>1
    <2>2. 0 \in holds
        BY <1>4, <1>9, <2>1
    <2>3. ASSUME NEW k \in 1 .. Len(text), k - 1 \in holds
          PROVE  k \in holds
        <3>1. k \in 0 .. Len(text) /\ text[k] \in Chars /\ CollapsedTo(text, k - 1) \in Seq(Chars)
            BY <1>1, <2>3
        <3> QED
            BY <1>3, <1>10, <3>1
    <2> HIDE DEF holds
    <2> QED
        BY <1>1, <2>2, <2>3, InductionTo
<1> QED
    BY <1>1, <1>2, <1>9, <1>10, <1>11 DEF CollapsedTo, chosen

LEMMA CollapsedStays ==
    ASSUME NEW Chars, NEW text \in Seq(Chars)
    PROVE  N!Collapsed(text) \in Seq(Chars)
<1>1. Len(text) \in 0 .. Len(text)
    OBVIOUS
<1> QED
    BY <1>1, CollapsedUnrolled

\* No two "_" are next to each other.
SingleBars(text) == \A j \in 1 .. Len(text) - 1 : ~(text[j] = Bar /\ text[j + 1] = Bar)

LEMMA CollapsedSingle ==
    ASSUME NEW Chars, NEW text \in Seq(Chars)
    PROVE  SingleBars(N!Collapsed(text))
<1> DEFINE holds == { k \in 0 .. Len(text) : SingleBars(CollapsedTo(text, k)) }
<1>1. Len(text) \in Nat /\ \A k \in 1 .. Len(text) : text[k] \in Chars
    OBVIOUS
<1>2. 0 \in holds
    <2>1. CollapsedTo(text, 0) = << >> /\ 0 \in 0 .. Len(text)
        BY <1>1, CollapsedUnrolled
    <2> QED
        BY <2>1 DEF SingleBars
<1>3. ASSUME NEW k \in 1 .. Len(text), k - 1 \in holds
      PROVE  k \in holds
    <2> DEFINE done == CollapsedTo(text, k - 1)
               c == text[k]
               more == Append(done, c)
    <2>1. k \in 0 .. Len(text) /\ k - 1 \in 0 .. Len(text) /\ c \in Chars /\ SingleBars(done)
        BY <1>1, <1>3
    <2>2. CollapsedTo(text, k) = Joint(done, c) /\ done \in Seq(Chars)
        BY <2>1, CollapsedUnrolled
    <2> HIDE DEF done, c
    <2>3. CASE Joint(done, c) = done
        BY <2>1, <2>2, <2>3
    <2>4. CASE Joint(done, c) # done
        <3>1. Joint(done, c) = more /\ (c = Bar /\ done # << >> => done[Len(done)] # Bar)
            BY <2>4 DEF Joint, N!Last
        <3>2. /\ Len(done) \in Nat /\ Len(more) = Len(done) + 1 /\ more[Len(done) + 1] = c
              /\ \A j \in 1 .. Len(done) : more[j] = done[j]
            BY <2>1, <2>2
        <3> HIDE DEF more
        <3>3. ASSUME NEW j \in 1 .. Len(more) - 1
              PROVE  ~(more[j] = Bar /\ more[j + 1] = Bar)
            <4>1. CASE j = Len(done)
                <5>1. more[j] = done[Len(done)] /\ more[j + 1] = c /\ done # << >>
                    BY <3>2, <3>3, <4>1
                <5> QED
                    BY <3>1, <5>1
            <4>2. CASE j # Len(done)
                <5>1. j \in 1 .. Len(done) - 1 /\ j \in 1 .. Len(done) /\ j + 1 \in 1 .. Len(done)
                    BY <3>2, <3>3, <4>2
                <5> QED
                    BY <2>1, <3>2, <5>1 DEF SingleBars
            <4> QED
                BY <4>1, <4>2
        <3> QED
            BY <2>1, <2>2, <3>1, <3>3 DEF SingleBars
    <2> QED
        BY <2>3, <2>4
<1>4. \A k \in 0 .. Len(text) : k \in holds
    <2> HIDE DEF holds
    <2> QED
        BY <1>1, <1>2, <1>3, InductionTo
<1>5. Len(text) \in holds
    BY <1>1, <1>4
<1> QED
    BY <1>5, CollapsedUnrolled

LEMMA SingleCollapsed ==
    ASSUME NEW Chars, NEW text \in Seq(Chars), SingleBars(text)
    PROVE  N!Collapsed(text) = text
<1> DEFINE Begins(done, k) == Len(done) = k /\ \A j \in 1 .. k : done[j] = text[j]
           holds == { k \in 0 .. Len(text) : Begins(CollapsedTo(text, k), k) }
<1>1. Len(text) \in Nat /\ \A k \in 1 .. Len(text) : text[k] \in Chars
    OBVIOUS
<1>2. 0 \in holds
    <2>1. CollapsedTo(text, 0) = << >> /\ 0 \in 0 .. Len(text)
        BY <1>1, CollapsedUnrolled
    <2> QED
        BY <2>1
<1>3. ASSUME NEW k \in 1 .. Len(text), k - 1 \in holds
      PROVE  k \in holds
    <2> DEFINE done == CollapsedTo(text, k - 1)
    <2>1. /\ k \in 0 .. Len(text) /\ k - 1 \in 0 .. Len(text) /\ text[k] \in Chars
          /\ Len(done) = k - 1 /\ \A j \in 1 .. k - 1 : done[j] = text[j]
        BY <1>1, <1>3
    <2>2. CollapsedTo(text, k) = Joint(done, text[k]) /\ done \in Seq(Chars)
        BY <2>1, CollapsedUnrolled
    <2> HIDE DEF done
    <2>3. Joint(done, text[k]) = Append(done, text[k])
        <3>1. ASSUME text[k] = Bar, done # << >>, done[Len(done)] = Bar
              PROVE  FALSE
            <4>1. k - 1 # 0
                BY <2>1, <2>2, <3>1
            <4>2. k - 1 \in 1 .. Len(text) - 1 /\ k - 1 \in 1 .. k - 1 /\ (k - 1) + 1 = k
                BY <1>1, <4>1
            <4> QED
                BY <2>1, <3>1, <4>2 DEF SingleBars
        <3> QED
            BY <3>1, Zenon DEF Joint, N!Last
    <2>4. /\ Len(Append(done, text[k])) = k
          /\ \A j \in 1 .. k : Append(done, text[k])[j] = text[j]
        BY <2>1, <2>2
    <2> QED
        BY <2>1, <2>2, <2>3, <2>4
<1>4. \A k \in 0 .. Len(text) : k \in holds
    <2> HIDE DEF holds
    <2> QED
        BY <1>1, <1>2, <1>3, InductionTo
<1>5. Begins(N!Collapsed(text), Len(text))
    <2>1. Len(text) \in holds
        BY <1>1, <1>4
    <2> QED
        BY <2>1, CollapsedUnrolled
<1>6. N!Collapsed(text) \in Seq(Chars)
    BY CollapsedStays
<1> QED
    BY <1>5, <1>6, SameText

\* The characters of a level, and of a sanitized text.
Kept(Chars) == (Chars \cup {Bar}) \ Soft
Harmless(Chars) == (Chars \cup {"_"}) \ {"#", "+"}

LEMMA KeptHarmless ==
    ASSUME NEW Chars
    PROVE  Kept(Chars) \subseteq Harmless(Chars) /\ Kept(Chars) \cap Soft = {} /\ Bar \in Kept(Chars)
<1>1. \A c : c \notin Soft => c \notin {"#", "+"}
    BY Zenon DEF Soft
<1>2. Bar \notin Soft
    BY Zenon DEF Soft, Bar
<1>3. \A c \in Kept(Chars) : c \in Harmless(Chars)
    BY <1>1, Zenon DEF Kept, Harmless, Bar
<1> QED
    BY <1>2, <1>3 DEF Kept

\* What is left of a level: no soft character, and "_" alone and inside.
Clean(text) == SingleBars(text) /\ (text # << >> => text[1] # Bar /\ text[Len(text)] # Bar)

LEMMA SegmentClean ==
    ASSUME NEW Chars, NEW text \in Seq(Chars)
    PROVE  N!SanitizeSegment(text) \in Seq(Kept(Chars)) /\ Clean(N!SanitizeSegment(text))
<1> DEFINE harmless(c) == IF c \in Soft THEN Bar ELSE c
           trimmed == N!Trimmed(text, Blanks)
           mapped == [i \in DOMAIN trimmed |-> harmless(trimmed[i])]
           underscore == {Bar}
           collapsed == N!Collapsed(mapped)
           segment == N!Trimmed(collapsed, underscore)
<1>1. N!SanitizeSegment(text) = segment
    BY Zenon DEF N!SanitizeSegment, N!Mapped, Soft, Blanks, Bar
<1>2. trimmed \in Seq(Chars)
    BY TrimmedStays
<1> HIDE DEF trimmed
<1>3. mapped \in Seq(Kept(Chars))
    <2>1. \A c \in Chars : harmless(c) \in Kept(Chars)
        BY KeptHarmless DEF Kept
    <2>2. DOMAIN trimmed = 1 .. Len(trimmed) /\ Len(trimmed) \in Nat
          /\ \A i \in 1 .. Len(trimmed) : trimmed[i] \in Chars
        BY <1>2
    <2> HIDE DEF harmless
    <2> QED
        BY <2>1, <2>2
<1> HIDE DEF mapped
<1>4. collapsed \in Seq(Kept(Chars)) /\ SingleBars(collapsed)
    BY <1>3, CollapsedStays, CollapsedSingle
<1> HIDE DEF collapsed, underscore
<1>5. PICK a \in Nat, n \in Nat :
              /\ a + n <= Len(collapsed)
              /\ segment \in Seq(Kept(Chars))
              /\ Len(segment) = n
              /\ \A j \in 1 .. n : segment[j] = collapsed[a + j]
              /\ n # 0 => collapsed[a + 1] \notin underscore /\ collapsed[a + n] \notin underscore
    BY <1>4, TrimmedShape
<1> HIDE DEF segment
<1>6. SingleBars(segment)
    <2> SUFFICES ASSUME NEW j \in 1 .. Len(segment) - 1
                 PROVE  ~(segment[j] = Bar /\ segment[j + 1] = Bar)
        BY DEF SingleBars
    <2>1. /\ j \in 1 .. n /\ j + 1 \in 1 .. n /\ a + j \in 1 .. Len(collapsed) - 1
          /\ a + (j + 1) = (a + j) + 1
        BY <1>4, <1>5
    <2>2. segment[j] = collapsed[a + j] /\ segment[j + 1] = collapsed[(a + j) + 1]
        BY <1>5, <2>1
    <2> QED
        BY <1>4, <2>1, <2>2 DEF SingleBars
<1>7. segment # << >> => segment[1] # Bar /\ segment[Len(segment)] # Bar
    <2> SUFFICES ASSUME segment # << >>
                 PROVE  segment[1] # Bar /\ segment[Len(segment)] # Bar
        OBVIOUS
    <2>1. n # 0 /\ 1 \in 1 .. n /\ n \in 1 .. n
        BY <1>5
    <2> QED
        BY <1>5, <2>1 DEF underscore
<1> QED
    BY <1>1, <1>5, <1>6, <1>7 DEF Clean

LEMMA SegmentHarmless ==
    ASSUME NEW Chars, NEW text \in Seq(Chars)
    PROVE  N!SanitizeSegment(text) \in Seq(Harmless(Chars))
BY SegmentClean, KeptHarmless, SeqMonotonic

\* Nothing is left out of a clean text: what was sanitized stays as it is.
LEMMA CleanStays ==
    ASSUME NEW Chars, Chars \cap Soft = {}, NEW text \in Seq(Chars), Clean(text)
    PROVE  N!SanitizeSegment(text) = text /\ (N!IsBlank(text) <=> text = << >>)
<1> DEFINE harmless(c) == IF c \in Soft THEN Bar ELSE c
           mapped == [i \in DOMAIN text |-> harmless(text[i])]
           underscore == {Bar}
<1>1. /\ Len(text) \in Nat /\ \A j \in 1 .. Len(text) : text[j] \in Chars
      /\ DOMAIN text = 1 .. Len(text) /\ text = [i \in DOMAIN text |-> text[i]]
      /\ text # << >> => 1 \in 1 .. Len(text) /\ Len(text) \in 1 .. Len(text)
    OBVIOUS
<1>2. \A j \in 1 .. Len(text) : text[j] \notin Soft /\ text[j] \notin Blanks
    <2>1. \A c : c \in Blanks => c \in Soft
        BY Zenon DEF Blanks, Soft
    <2> QED
        BY <1>1, <2>1
<1>3. N!Trimmed(text, Blanks) = text
    BY <1>1, <1>2, TrimmedWhole
<1>4. N!SanitizeSegment(text) = N!Trimmed(N!Collapsed([i \in DOMAIN N!Trimmed(text, Blanks) |->
                                    harmless(N!Trimmed(text, Blanks)[i])]), underscore)
    BY Zenon DEF N!SanitizeSegment, N!Mapped, Soft, Blanks, Bar
<1>5. mapped = text
    <2>1. \A i \in DOMAIN text : harmless(text[i]) = text[i]
        BY <1>1, <1>2
    <2> HIDE DEF harmless
    <2> QED
        BY <1>1, <2>1
<1>6. N!Collapsed(text) = text
    BY SingleCollapsed DEF Clean
<1>7. N!Trimmed(text, underscore) = text
    <2>1. text # << >> => text[1] \notin underscore /\ text[Len(text)] \notin underscore
        BY DEF Clean
    <2> HIDE DEF underscore
    <2> QED
        BY <2>1, TrimmedWhole
<1>8. N!IsBlank(text) <=> N!Trimmed(text, Blanks) = << >>
    BY Zenon DEF N!IsBlank, Blanks
<1> HIDE DEF underscore, harmless
<1> QED
    BY <1>3, <1>4, <1>5, <1>6, <1>7, <1>8

LevelLists(Chars) == Seq(Seq(Chars)) \ {<< >>}

\* What Levels folds with.
NextLevel(levels, c) == IF c = "/" THEN Append(levels, << >>)
                        ELSE [levels EXCEPT ![Len(levels)] = Append(@, c)]
LevelStep(Chars) == [at \in LevelLists(Chars) \X Chars |-> NextLevel(at[1], at[2])]
LevelsOver(iter, text) ==
    iter = [s \in SUBSET DOMAIN text |->
              IF s = {} THEN << << >> >> ELSE NextLevel(iter[s \ {Max(s)}], text[Max(s)])]
LevelsBy(text) == CHOOSE iter : LevelsOver(iter, text)

LEMMA LevelsUnrolled ==
    ASSUME NEW Chars, NEW text \in Seq(Chars)
    PROVE  /\ N!Levels(text) = LevelsBy(text)[1 .. Len(text)]
           /\ Unrolled(LevelsBy(text), LevelLists(Chars), << << >> >>, LevelStep(Chars), text)
<1> DEFINE chosen == LevelsBy(text)
           step == LevelStep(Chars)
<1>1. N!Levels(text) = chosen[DOMAIN text]
    BY DEF N!Levels, N!FoldLeft, N!MapThenFoldSet, N!Max, Max, LevelsBy, LevelsOver, NextLevel
<1>2. ASSUME NEW done \in LevelLists(Chars), NEW x \in Chars
      PROVE  NextLevel(done, x) \in LevelLists(Chars)
    <2>1. done \in Seq(Seq(Chars)) /\ Len(done) \in Nat /\ Len(done) >= 1 /\ DOMAIN done = 1 .. Len(done)
        BY DEF LevelLists
    <2>2. Append(done, << >>) \in LevelLists(Chars)
        <3>1. Append(done, << >>) \in Seq(Seq(Chars)) /\ Len(Append(done, << >>)) = Len(done) + 1
            BY <2>1
        <3> QED
            BY <2>1, <3>1 DEF LevelLists
    <2>3. [done EXCEPT ![Len(done)] = Append(@, x)] \in LevelLists(Chars)
        <3>1. Append(done[Len(done)], x) \in Seq(Chars)
            BY <2>1
        <3>2. [done EXCEPT ![Len(done)] = Append(@, x)] \in Seq(Seq(Chars))
            BY <2>1, <3>1
        <3>3. DOMAIN [done EXCEPT ![Len(done)] = Append(@, x)] # DOMAIN << >>
            BY <2>1
        <3> QED
            BY <3>2, <3>3 DEF LevelLists
    <2> QED
        BY <2>2, <2>3, Zenon DEF NextLevel
<1>3. step \in [LevelLists(Chars) \X Chars -> LevelLists(Chars)] /\ << << >> >> \in LevelLists(Chars)
    <2>1. step \in [LevelLists(Chars) \X Chars -> LevelLists(Chars)]
        BY <1>2 DEF LevelStep
    <2>2. << << >> >> \in Seq(Seq(Chars)) /\ Len(<< << >> >>) # Len(<< >>)
        OBVIOUS
    <2> QED
        BY <2>1, <2>2 DEF LevelLists
<1> HIDE DEF step
<1>4. PICK iter : TakesSteps(iter, LevelLists(Chars), Chars, << << >> >>, step, text)
    BY <1>3, FoldOver
<1>5. LevelsOver(iter, text)
    <2>1. \A s \in SUBSET DOMAIN text :
            s # {} => iter[s] = NextLevel(iter[s \ {Max(s)}], text[Max(s)])
        BY <1>4 DEF TakesSteps, step, LevelStep
    <2> QED
        BY <1>4, <2>1 DEF TakesSteps, LevelsOver
<1>6. LevelsOver(chosen, text)
    BY <1>5 DEF LevelsBy
<1> HIDE DEF chosen
<1>7. StepsOver(chosen, LevelLists(Chars), << << >> >>, step, text)
    <2>1. chosen[{}] = << << >> >>
        BY <1>6 DEF LevelsOver
    <2>2. ASSUME NEW s \in SUBSET DOMAIN text, s # {}, chosen[s \ {Max(s)}] \in LevelLists(Chars)
          PROVE  chosen[s] = step[<<chosen[s \ {Max(s)}], text[Max(s)]>>]
        <3>1. chosen[s] = NextLevel(chosen[s \ {Max(s)}], text[Max(s)])
            BY <1>6, <2>2 DEF LevelsOver
        <3>2. text[Max(s)] \in Chars
            BY <1>4, <2>2 DEF TakesSteps
        <3> QED
            BY <2>2, <3>1, <3>2 DEF step, LevelStep
    <2> QED
        BY <2>1, <2>2 DEF StepsOver
<1>8. Unrolled(chosen, LevelLists(Chars), << << >> >>, step, text)
    BY <1>3, <1>7, FoldUnrolled
<1> QED
    BY <1>1, <1>8 DEF chosen, step

LEMMA LevelsStay ==
    ASSUME NEW Chars, NEW text \in Seq(Chars)
    PROVE  N!Levels(text) \in LevelLists(Chars)
<1>1. Len(text) \in 0 .. Len(text)
    OBVIOUS
<1> QED
    BY <1>1, LevelsUnrolled DEF Unrolled

LEMMA LevelsAppended ==
    ASSUME NEW Chars, NEW text \in Seq(Chars), NEW c \in Chars
    PROVE  N!Levels(Append(text, c)) = NextLevel(N!Levels(text), c)
<1> DEFINE more == Append(text, c)
<1>1. more \in Seq(Chars)
    OBVIOUS
<1>2. N!Levels(more) = LevelStep(Chars)[<<N!Levels(text), c>>]
    <2>1. Unrolled(LevelsBy(text), LevelLists(Chars), << << >> >>, LevelStep(Chars), text)
        BY LevelsUnrolled
    <2>2. Unrolled(LevelsBy(more), LevelLists(Chars), << << >> >>, LevelStep(Chars), more)
        BY <1>1, LevelsUnrolled
    <2>3. LevelsBy(more)[1 .. Len(more)] = LevelStep(Chars)[<<LevelsBy(text)[1 .. Len(text)], c>>]
        BY <2>1, <2>2, FoldAppended
    <2> HIDE DEF more
    <2> QED
        BY <1>1, <2>3, LevelsUnrolled
<1>3. N!Levels(text) \in LevelLists(Chars)
    BY LevelsStay
<1> QED
    BY <1>2, <1>3 DEF LevelStep

\* What Sanitized folds with.
NextKept(kept, level) == IF N!IsBlank(level) THEN kept ELSE Append(kept, N!SanitizeSegment(level))
KeptStep(Chars) == [at \in Seq(Seq(Harmless(Chars))) \X Seq(Chars) |-> NextKept(at[1], at[2])]
SanitizedOver(iter, levels) ==
    iter = [s \in SUBSET DOMAIN levels |->
              IF s = {} THEN << >> ELSE NextKept(iter[s \ {Max(s)}], levels[Max(s)])]
SanitizedBy(levels) == CHOOSE iter : SanitizedOver(iter, levels)

LEMMA SanitizedUnrolled ==
    ASSUME NEW Chars, NEW levels \in Seq(Seq(Chars))
    PROVE  /\ N!Sanitized(levels) = SanitizedBy(levels)[1 .. Len(levels)]
           /\ Unrolled(SanitizedBy(levels), Seq(Seq(Harmless(Chars))), << >>, KeptStep(Chars), levels)
<1> DEFINE chosen == SanitizedBy(levels)
           step == KeptStep(Chars)
           Acc == Seq(Seq(Harmless(Chars)))
<1>1. N!Sanitized(levels) = chosen[DOMAIN levels]
    BY DEF N!Sanitized, N!FoldLeft, N!MapThenFoldSet, N!Max, Max, SanitizedBy, SanitizedOver, NextKept
<1>2. ASSUME NEW done \in Acc, NEW x \in Seq(Chars)
      PROVE  NextKept(done, x) \in Acc
    <2>1. N!SanitizeSegment(x) \in Seq(Harmless(Chars))
        BY SegmentHarmless
    <2>2. Append(done, N!SanitizeSegment(x)) \in Acc
        BY <2>1
    <2> QED
        BY <2>2, Zenon DEF NextKept
<1>3. step \in [Acc \X Seq(Chars) -> Acc] /\ << >> \in Acc
    BY <1>2 DEF KeptStep
<1> HIDE DEF step
<1>4. PICK iter : TakesSteps(iter, Acc, Seq(Chars), << >>, step, levels)
    BY <1>3, FoldOver
<1>5. SanitizedOver(iter, levels)
    <2>1. \A s \in SUBSET DOMAIN levels :
            s # {} => iter[s] = NextKept(iter[s \ {Max(s)}], levels[Max(s)])
        BY <1>4 DEF TakesSteps, step, KeptStep
    <2> QED
        BY <1>4, <2>1 DEF TakesSteps, SanitizedOver
<1>6. SanitizedOver(chosen, levels)
    BY <1>5 DEF SanitizedBy
<1> HIDE DEF chosen
<1>7. StepsOver(chosen, Acc, << >>, step, levels)
    <2>1. chosen[{}] = << >>
        BY <1>6 DEF SanitizedOver
    <2>2. ASSUME NEW s \in SUBSET DOMAIN levels, s # {}, chosen[s \ {Max(s)}] \in Acc
          PROVE  chosen[s] = step[<<chosen[s \ {Max(s)}], levels[Max(s)]>>]
        <3>1. chosen[s] = NextKept(chosen[s \ {Max(s)}], levels[Max(s)])
            BY <1>6, <2>2 DEF SanitizedOver
        <3>2. levels[Max(s)] \in Seq(Chars)
            BY <1>4, <2>2 DEF TakesSteps
        <3> QED
            BY <2>2, <3>1, <3>2 DEF step, KeptStep
    <2> QED
        BY <2>1, <2>2 DEF StepsOver
<1> HIDE DEF Acc
<1>8. Unrolled(chosen, Acc, << >>, step, levels)
    BY <1>3, <1>7, FoldUnrolled
<1> QED
    BY <1>1, <1>8 DEF chosen, step, Acc

LEMMA SanitizedHarmless ==
    ASSUME NEW Chars, NEW levels \in Seq(Seq(Chars))
    PROVE  N!Sanitized(levels) \in Seq(Seq(Harmless(Chars)))
<1>1. Len(levels) \in 0 .. Len(levels)
    OBVIOUS
<1> QED
    BY <1>1, SanitizedUnrolled DEF Unrolled

LEMMA SanitizedAppended ==
    ASSUME NEW Chars, NEW levels \in Seq(Seq(Chars)), NEW level \in Seq(Chars)
    PROVE  N!Sanitized(Append(levels, level)) = NextKept(N!Sanitized(levels), level)
<1> DEFINE more == Append(levels, level)
           Acc == Seq(Seq(Harmless(Chars)))
<1>1. more \in Seq(Seq(Chars))
    OBVIOUS
<1>2. N!Sanitized(more) = KeptStep(Chars)[<<N!Sanitized(levels), level>>]
    <2>1. Unrolled(SanitizedBy(levels), Acc, << >>, KeptStep(Chars), levels)
        BY SanitizedUnrolled
    <2>2. Unrolled(SanitizedBy(more), Acc, << >>, KeptStep(Chars), more)
        BY <1>1, SanitizedUnrolled
    <2> HIDE DEF Acc
    <2>3. SanitizedBy(more)[1 .. Len(more)] = KeptStep(Chars)[<<SanitizedBy(levels)[1 .. Len(levels)], level>>]
        BY <2>1, <2>2, FoldAppended
    <2> HIDE DEF more
    <2> QED
        BY <1>1, <2>3, SanitizedUnrolled
<1>3. N!Sanitized(levels) \in Acc
    BY SanitizedHarmless
<1> QED
    BY <1>2, <1>3 DEF KeptStep

\* What Joined folds with.
NextText(text, level) == text \o <<"/">> \o level
JoinStep(Chars) == [at \in Seq(Chars) \X Seq(Chars) |-> NextText(at[1], at[2])]
JoinedOver(iter, first, rest) ==
    iter = [s \in SUBSET DOMAIN rest |->
              IF s = {} THEN first ELSE NextText(iter[s \ {Max(s)}], rest[Max(s)])]
JoinedBy(first, rest) == CHOOSE iter : JoinedOver(iter, first, rest)

LEMMA JoinedUnrolled ==
    ASSUME NEW Chars, "/" \in Chars, NEW levels \in Seq(Seq(Chars)), levels # << >>
    PROVE  /\ N!Joined(levels) = JoinedBy(Head(levels), Tail(levels))[1 .. Len(Tail(levels))]
           /\ Unrolled(JoinedBy(Head(levels), Tail(levels)), Seq(Chars), Head(levels),
                       JoinStep(Chars), Tail(levels))
<1> DEFINE first == Head(levels)
           rest == Tail(levels)
           chosen == JoinedBy(first, rest)
           step == JoinStep(Chars)
<1>1. N!Joined(levels) = chosen[DOMAIN rest]
    BY DEF N!Joined, N!FoldLeft, N!MapThenFoldSet, N!Max, Max, JoinedBy, JoinedOver, NextText
<1>2. ASSUME NEW done \in Seq(Chars), NEW x \in Seq(Chars)
      PROVE  NextText(done, x) \in Seq(Chars)
    <2>1. <<"/">> \in Seq(Chars)
        OBVIOUS
    <2>2. done \o <<"/">> \in Seq(Chars)
        BY <2>1
    <2> QED
        BY <2>2 DEF NextText
<1>3. first \in Seq(Chars) /\ rest \in Seq(Seq(Chars))
    OBVIOUS
<1>4. step \in [Seq(Chars) \X Seq(Chars) -> Seq(Chars)]
    BY <1>2 DEF JoinStep
<1> HIDE DEF step, first, rest
<1>5. PICK iter : TakesSteps(iter, Seq(Chars), Seq(Chars), first, step, rest)
    BY <1>3, <1>4, FoldOver
<1>6. JoinedOver(iter, first, rest)
    <2>1. \A s \in SUBSET DOMAIN rest :
            s # {} => iter[s] = NextText(iter[s \ {Max(s)}], rest[Max(s)])
        BY <1>5 DEF TakesSteps, step, JoinStep
    <2> QED
        BY <1>5, <2>1 DEF TakesSteps, JoinedOver
<1>7. JoinedOver(chosen, first, rest)
    BY <1>6 DEF JoinedBy
<1> HIDE DEF chosen
<1>8. StepsOver(chosen, Seq(Chars), first, step, rest)
    <2>1. chosen[{}] = first
        BY <1>7 DEF JoinedOver
    <2>2. ASSUME NEW s \in SUBSET DOMAIN rest, s # {}, chosen[s \ {Max(s)}] \in Seq(Chars)
          PROVE  chosen[s] = step[<<chosen[s \ {Max(s)}], rest[Max(s)]>>]
        <3>1. chosen[s] = NextText(chosen[s \ {Max(s)}], rest[Max(s)])
            BY <1>7, <2>2 DEF JoinedOver
        <3>2. rest[Max(s)] \in Seq(Chars)
            BY <1>5, <2>2 DEF TakesSteps
        <3> QED
            BY <2>2, <3>1, <3>2 DEF step, JoinStep
    <2> QED
        BY <2>1, <2>2 DEF StepsOver
<1>9. Unrolled(chosen, Seq(Chars), first, step, rest)
    BY <1>3, <1>4, <1>8, FoldUnrolled
<1>10. DOMAIN rest = 1 .. Len(rest)
    BY <1>3
<1>11. /\ N!Joined(levels) = JoinedBy(first, rest)[1 .. Len(rest)]
       /\ Unrolled(JoinedBy(first, rest), Seq(Chars), first, JoinStep(Chars), rest)
    BY <1>1, <1>9, <1>10 DEF chosen, step
<1> QED
    BY <1>11 DEF first, rest

LEMMA JoinedStays ==
    ASSUME NEW Chars, "/" \in Chars, NEW levels \in Seq(Seq(Chars))
    PROVE  N!Joined(levels) \in Seq(Chars)
<1>1. CASE levels = << >>
    <2>1. << >> \in Seq(Chars)
        OBVIOUS
    <2>2. N!Joined(levels) = << >>
        BY <1>1, Zenon DEF N!Joined
    <2> QED
        BY <2>1, <2>2
<1>2. CASE levels # << >>
    <2> DEFINE first == Head(levels)
               rest == Tail(levels)
    <2>1. Len(rest) \in 0 .. Len(rest)
        BY <1>2
    <2> HIDE DEF first, rest
    <2>2. /\ N!Joined(levels) = JoinedBy(first, rest)[1 .. Len(rest)]
          /\ Unrolled(JoinedBy(first, rest), Seq(Chars), first, JoinStep(Chars), rest)
        BY <1>2, JoinedUnrolled DEF first, rest
    <2> QED
        BY <2>1, <2>2 DEF Unrolled
<1> QED
    BY <1>1, <1>2

\* "/" between what is there and one level more.
LEMMA JoinedAppended ==
    ASSUME NEW Chars, "/" \in Chars, NEW levels \in Seq(Seq(Chars)), NEW level \in Seq(Chars)
    PROVE  N!Joined(Append(levels, level))
             = IF levels = << >> THEN level ELSE NextText(N!Joined(levels), level)
<1> DEFINE more == Append(levels, level)
           first == Head(levels)
           rest == Tail(levels)
           later == Tail(more)
<1>1. /\ more \in Seq(Seq(Chars)) /\ Len(more) = Len(levels) + 1 /\ Len(levels) \in Nat
      /\ more # << >> /\ later \in Seq(Seq(Chars)) /\ Len(later) = Len(levels)
    <2>1. more \in Seq(Seq(Chars)) /\ Len(more) = Len(levels) + 1 /\ Len(levels) \in Nat
        BY OneMore
    <2>2. more # << >>
        BY <2>1
    <2> HIDE DEF more
    <2>3. Tail(more) \in Seq(Seq(Chars)) /\ Len(Tail(more)) = Len(more) - 1
        BY <2>1, <2>2
    <2> QED
        BY <2>1, <2>2, <2>3
<1>2. CASE levels = << >>
    <2>1. Head(more) = level /\ Len(later) = 0
        BY <1>1, <1>2
    <2>2. /\ N!Joined(more) = JoinedBy(level, later)[1 .. Len(later)]
          /\ Unrolled(JoinedBy(level, later), Seq(Chars), level, JoinStep(Chars), later)
        <3>1. later = Tail(more) /\ level = Head(more)
            BY <2>1
        <3> HIDE DEF more, later
        <3>2. /\ N!Joined(more) = JoinedBy(Head(more), Tail(more))[1 .. Len(Tail(more))]
              /\ Unrolled(JoinedBy(Head(more), Tail(more)), Seq(Chars), Head(more),
                          JoinStep(Chars), Tail(more))
            BY <1>1, JoinedUnrolled
        <3> QED
            BY <3>1, <3>2
    <2> HIDE DEF more, later
    <2>3. N!Joined(more) = level
        BY <2>1, <2>2 DEF Unrolled
    <2> QED
        BY <1>2, <2>3 DEF more
<1>3. CASE levels # << >>
    <2> DEFINE same == Append(rest, level)
    <2>1. /\ Head(more) = first /\ rest \in Seq(Seq(Chars)) /\ later = same
        <3>1. Head(more) = first /\ rest \in Seq(Seq(Chars)) /\ same \in Seq(Seq(Chars))
            BY <1>3
        <3>2. Len(same) = Len(levels) /\ \A j \in 1 .. Len(levels) : later[j] = more[j + 1]
            BY <1>1, <1>3
        <3>3. \A j \in 1 .. Len(levels) : same[j] = IF j = Len(levels) THEN level ELSE levels[j + 1]
            BY <1>1, <1>3
        <3>4. \A j \in 1 .. Len(levels) : more[j + 1] = IF j = Len(levels) THEN level ELSE levels[j + 1]
            BY <1>1
        <3>5. \A j \in 1 .. Len(same) : later[j] = same[j]
            BY <3>2, <3>3, <3>4
        <3> HIDE DEF more, later, same
        <3> QED
            BY <1>1, <3>1, <3>2, <3>5, SameText
    <2>2. /\ N!Joined(more) = JoinedBy(first, later)[1 .. Len(later)]
          /\ Unrolled(JoinedBy(first, later), Seq(Chars), first, JoinStep(Chars), later)
        <3>1. later = Tail(more) /\ first = Head(more)
            BY <2>1
        <3> HIDE DEF more, first, later
        <3>2. /\ N!Joined(more) = JoinedBy(Head(more), Tail(more))[1 .. Len(Tail(more))]
              /\ Unrolled(JoinedBy(Head(more), Tail(more)), Seq(Chars), Head(more),
                          JoinStep(Chars), Tail(more))
            BY <1>1, JoinedUnrolled
        <3> QED
            BY <3>1, <3>2
    <2> HIDE DEF more, first, rest, later
    <2>3. /\ N!Joined(levels) = JoinedBy(first, rest)[1 .. Len(rest)]
          /\ Unrolled(JoinedBy(first, rest), Seq(Chars), first, JoinStep(Chars), rest)
        BY <1>3, JoinedUnrolled DEF first, rest
    <2>4. N!Joined(more) = JoinStep(Chars)[<<N!Joined(levels), level>>]
        BY <2>1, <2>2, <2>3, FoldAppended
    <2>5. N!Joined(levels) \in Seq(Chars)
        BY JoinedStays
    <2>6. N!Joined(more) = NextText(N!Joined(levels), level)
        BY <2>4, <2>5 DEF JoinStep
    <2> QED
        BY <1>3, <2>6 DEF more
<1> QED
    BY <1>2, <1>3

LEMMA PrefixHarmless ==
    ASSUME NEW Chars, "/" \in Chars, NEW prefix \in Seq(Chars)
    PROVE  N!NormalizePrefix(prefix) \in Seq(Harmless(Chars))
<1> DEFINE trimmed == N!Trimmed(prefix, {" "})
           kept == { i \in DOMAIN trimmed : trimmed[i] # "#" }
           open == N!WithoutTrailingHash(trimmed)
<1>1. trimmed \in Seq(Chars)
    BY TrimmedStays
<1>2. open = IF kept = {} THEN << >> ELSE SubSeq(trimmed, 1, Max(kept))
    BY DEF N!WithoutTrailingHash, N!Max, Max
<1> HIDE DEF trimmed
<1>3. /\ Len(trimmed) \in Nat /\ DOMAIN trimmed = 1 .. Len(trimmed)
      /\ \A i \in DOMAIN trimmed : trimmed[i] \in Chars
    BY <1>1
<1>4. kept \in SUBSET (1 .. Len(trimmed))
    BY <1>3
<1> HIDE DEF kept, open
<1>5. open \in Seq(Chars)
    <2>1. CASE kept # {}
        <3>1. Max(kept) \in 1 .. Len(trimmed)
            BY <1>3, <1>4, <2>1, MaxIsGreatest
        <3>2. Max(kept) \in Int /\ 1 \in Int /\ \A i \in 1 .. Max(kept) : trimmed[i] \in Chars
            BY <1>3, <3>1
        <3>3. SubSeq(trimmed, 1, Max(kept)) \in Seq(Chars)
            BY <3>2, SubSeqProperties
        <3> QED
            BY <1>2, <2>1, <3>3
    <2> QED
        BY <1>2, <2>1
<1>6. N!NormalizePrefix(prefix) = N!Joined(N!Sanitized(N!Levels(N!Trimmed(open, {"/"}))))
    BY DEF N!NormalizePrefix, open, trimmed
<1>7. N!Levels(N!Trimmed(open, {"/"})) \in Seq(Seq(Chars))
    BY <1>5, TrimmedStays, LevelsStay DEF LevelLists
<1>8. N!Sanitized(N!Levels(N!Trimmed(open, {"/"}))) \in Seq(Seq(Harmless(Chars)))
    BY <1>7, SanitizedHarmless
<1>9. "/" \in Harmless(Chars)
    BY DEF Harmless
<1> QED
    BY <1>6, <1>8, <1>9, JoinedStays

\* The points whose texts are made of some characters.
PointsOf(Chars) ==
    [tag_path : Seq(Chars), device_label : Seq(Chars), device_instance : Seq(Chars),
     object_type : Seq(Chars), object_instance : Seq(Chars), property : Seq(Chars)]

LEMMA DefaultStays ==
    ASSUME NEW C, "/" \in C, "_" \in C, "d" \in C, NEW point \in PointsOf(C)
    PROVE  N!DefaultTagPath(point) \in Seq(C)
<1>1. Harmless(C) \subseteq C
    BY DEF Harmless
<1>2. /\ \A text \in Seq(C) : N!SanitizeSegment(text) \in Seq(C)
      /\ \A x \in Seq(C), y \in Seq(C) : x \o y \in Seq(C)
    BY <1>1, SegmentHarmless, SeqMonotonic, ConcatProperties
<1>3. /\ point.device_label \in Seq(C) /\ point.device_instance \in Seq(C)
      /\ point.object_type \in Seq(C) /\ point.object_instance \in Seq(C)
      /\ point.property \in Seq(C)
    BY DEF PointsOf
<1> DEFINE slash == <<"/">>
           underscore == <<"_">>
           numbered == <<"d", "_">> \o point.device_instance
           device == IF N!IsBlank(point.device_label) THEN numbered ELSE point.device_label
<1>4. slash \in Seq(C) /\ underscore \in Seq(C) /\ <<"d", "_">> \in Seq(C)
    BY ShortTexts, Zenon
<1>5. numbered \in Seq(C)
    BY <1>2, <1>3, <1>4, Zenon
<1> HIDE DEF numbered
<1>6. device \in Seq(C)
    BY <1>3, <1>5, Zenon
<1>7. N!DeviceLevel(point) = N!SanitizeSegment(device)
    BY Zenon DEF N!DeviceLevel, numbered
<1> HIDE DEF device
<1>8. N!DeviceLevel(point) \in Seq(C)
    BY <1>2, <1>6, <1>7, Zenon
<1>9. N!ObjectLevel(point)
        = N!SanitizeSegment(point.object_type) \o underscore \o point.object_instance
    BY Zenon DEF N!ObjectLevel
<1>10. N!DefaultTagPath(point)
         = N!DeviceLevel(point) \o slash \o N!ObjectLevel(point)
             \o slash \o N!SanitizeSegment(point.property)
    BY Zenon DEF N!DefaultTagPath
<1> HIDE DEF slash, underscore
<1>11. N!ObjectLevel(point) \in Seq(C)
    <2>1. N!SanitizeSegment(point.object_type) \in Seq(C)
        BY <1>2, <1>3
    <2>2. N!SanitizeSegment(point.object_type) \o underscore \in Seq(C)
        BY <1>2, <1>4, <2>1
    <2> QED
        BY <1>2, <1>3, <1>9, <2>2, Zenon
<1>12. N!DeviceLevel(point) \o slash \in Seq(C)
    BY <1>2, <1>4, <1>8
<1>13. N!DeviceLevel(point) \o slash \o N!ObjectLevel(point) \in Seq(C)
    BY <1>2, <1>11, <1>12
<1>14. N!DeviceLevel(point) \o slash \o N!ObjectLevel(point) \o slash \in Seq(C)
    BY <1>2, <1>4, <1>13
<1>15. N!SanitizeSegment(point.property) \in Seq(C)
    BY <1>2, <1>3
<1> QED
    BY <1>2, <1>10, <1>14, <1>15, Zenon

\* No topic of a point contains a wildcard, whatever characters its prefix, its tag path
\* and its other texts are made of: telemetry_topic passes validate_publish_topic, or
\* gives a blank text.
THEOREM TopicHasNoWildcard ==
    ASSUME NEW Chars, NEW prefix \in Seq(Chars), NEW point \in PointsOf(Chars)
    PROVE  LET topic == N!TelemetryTopic(prefix, point)
           IN  /\ topic \in Seq(Harmless(Chars \cup {"/", "d"}))
               /\ N!ValidatePublishTopic(topic) # "Wildcard"
<1> DEFINE C == Chars \cup {"_", "/", "d"}
           path == point.tag_path
           default == N!DefaultTagPath(point)
           own == IF N!IsBlank(path) THEN default ELSE path
           topic == N!TelemetryTopic(prefix, point)
<1>1. Seq(Chars) \subseteq Seq(C)
    BY SeqMonotonic
<1>2. prefix \in Seq(C) /\ own \in Seq(C) /\ "/" \in C /\ "/" \in Harmless(C)
    <2>1. point \in PointsOf(C) /\ path \in Seq(C)
        BY <1>1 DEF PointsOf
    <2>2. "/" \in C /\ "_" \in C /\ "d" \in C /\ "/" \in Harmless(C)
        BY DEF Harmless
    <2> HIDE DEF C
    <2>3. default \in Seq(C)
        BY <2>1, <2>2, DefaultStays
    <2> QED
        BY <1>1, <2>1, <2>2, <2>3, Zenon
<1>3. topic = N!Joined(N!Sanitized(N!Levels(N!NormalizePrefix(prefix)) \o N!Levels(own)))
    BY DEF N!TelemetryTopic, N!JoinTopic
<1>4. Harmless(C) = Harmless(Chars \cup {"/", "d"}) /\ Harmless(C) \subseteq C
    BY DEF Harmless
<1> HIDE DEF C, own, topic
<1>5. N!NormalizePrefix(prefix) \in Seq(C)
    <2>1. N!NormalizePrefix(prefix) \in Seq(Harmless(C))
        BY <1>2, PrefixHarmless
    <2>2. Seq(Harmless(C)) \subseteq Seq(C)
        BY <1>4, SeqMonotonic
    <2> QED
        BY <2>1, <2>2
<1>6. N!Levels(N!NormalizePrefix(prefix)) \in Seq(Seq(C)) /\ N!Levels(own) \in Seq(Seq(C))
    BY <1>2, <1>5, LevelsStay DEF LevelLists
<1>7. N!Levels(N!NormalizePrefix(prefix)) \o N!Levels(own) \in Seq(Seq(C))
    BY <1>6
<1>8. N!Sanitized(N!Levels(N!NormalizePrefix(prefix)) \o N!Levels(own)) \in Seq(Seq(Harmless(C)))
    BY <1>7, SanitizedHarmless
<1>9. topic \in Seq(Harmless(C))
    BY <1>2, <1>3, <1>8, JoinedStays
<1>10. N!ValidatePublishTopic(topic) # "Wildcard"
    <2>1. \A i \in DOMAIN topic : topic[i] \in Harmless(C)
        BY <1>9
    <2>2. \A i \in DOMAIN topic : topic[i] \notin {"#", "+"}
        BY <2>1 DEF Harmless
    <2> QED
        BY <2>2 DEF N!ValidatePublishTopic
<1> QED
    BY <1>4, <1>9, <1>10 DEF topic

-----------------------------------------------------------------------------
(* What is read of a text: its characters but some that are left out *)

Keep(left, kept, c) == IF c \in left THEN kept ELSE Append(kept, MCLower(c))

KeepsOver(iter, left, text) ==
    iter = [s \in SUBSET DOMAIN text |->
              IF s = {} THEN << >> ELSE Keep(left, iter[s \ {Max(s)}], text[Max(s)])]

\* Of the first k characters.
KeptTo(left, text, k) == (CHOOSE iter : KeepsOver(iter, left, text))[1 .. k]

LEMMA KeptUnrolled ==
    ASSUME NEW left, NEW Chars, NEW text \in Seq(Chars)
    PROVE  /\ N!WithoutLowered(text, left) = KeptTo(left, text, Len(text))
           /\ KeptTo(left, text, 0) = << >>
           /\ \A k \in 1 .. Len(text) :
                KeptTo(left, text, k) = Keep(left, KeptTo(left, text, k - 1), text[k])
<1> DEFINE Letters == { MCLower(c) : c \in Chars }
           step == [at \in Seq(Letters) \X Chars |-> Keep(left, at[1], at[2])]
           chosen == CHOOSE iter : KeepsOver(iter, left, text)
<1>1. Len(text) \in Nat /\ DOMAIN text = 1 .. Len(text)
    OBVIOUS
<1>2. N!WithoutLowered(text, left) = chosen[DOMAIN text]
    BY DEF N!WithoutLowered, N!FoldLeft, N!MapThenFoldSet, N!Max, Max, KeepsOver, Keep
<1>3. ASSUME NEW kept \in Seq(Letters), NEW c \in Chars
      PROVE  Keep(left, kept, c) \in Seq(Letters)
    <2>1. MCLower(c) \in Letters
        OBVIOUS
    <2> HIDE DEF Letters
    <2>2. Append(kept, MCLower(c)) \in Seq(Letters)
        BY <2>1
    <2> QED
        BY <2>2, Zenon DEF Keep
<1> HIDE DEF Letters
<1>4. step \in [Seq(Letters) \X Chars -> Seq(Letters)] /\ << >> \in Seq(Letters)
    BY <1>3
<1> HIDE DEF step
<1>5. PICK iter : TakesSteps(iter, Seq(Letters), Chars, << >>, step, text)
    BY <1>4, FoldOver
<1>6. KeepsOver(iter, left, text)
    <2>1. \A s \in SUBSET DOMAIN text :
            s # {} => iter[s] = Keep(left, iter[s \ {Max(s)}], text[Max(s)])
        BY <1>5 DEF TakesSteps, step
    <2> QED
        BY <1>5, <2>1 DEF TakesSteps, KeepsOver
<1>7. KeepsOver(chosen, left, text)
    BY <1>6
<1> HIDE DEF chosen
<1>8. \A s \in SUBSET DOMAIN text :
        chosen[s] = IF s = {} THEN << >> ELSE Keep(left, chosen[s \ {Max(s)}], text[Max(s)])
    BY <1>7 DEF KeepsOver
<1>9. chosen[1 .. 0] = << >>
    <2>1. 1 .. 0 = {} /\ 1 .. 0 \in SUBSET DOMAIN text
        OBVIOUS
    <2> QED
        BY <1>8, <2>1
<1>10. ASSUME NEW k \in 1 .. Len(text)
       PROVE  chosen[1 .. k] = Keep(left, chosen[1 .. k - 1], text[k])
    <2>1. 1 .. k \in SUBSET DOMAIN text /\ 1 .. k # {} /\ k \in Nat /\ k \in 1 .. k
        <3>1. k \in Nat /\ 1 <= k /\ k <= Len(text)
            BY <1>1
        <3>2. \A y \in 1 .. k : y \in 1 .. Len(text)
            BY <1>1, <3>1
        <3>3. k \in 1 .. k
            BY <3>1
        <3> QED
            BY <1>1, <3>1, <3>2, <3>3
    <2>2. Max(1 .. k) = k /\ (1 .. k) \ {k} = 1 .. k - 1
        BY <2>1, MaxOfFirst
    <2> QED
        BY <1>8, <2>1, <2>2
<1> QED
    BY <1>1, <1>2, <1>9, <1>10 DEF KeptTo, chosen

\* The characters after a and up to b are left out, and add nothing.
LeftOut(left, text, a, b) ==
    /\ a <= b /\ b <= Len(text)
    /\ \A j \in 1 .. Len(text) : a < j /\ j <= b => text[j] \in left

LEMMA KeptOverLeft ==
    ASSUME NEW left, NEW Chars, NEW text \in Seq(Chars),
           NEW a \in Nat, NEW b \in Nat, LeftOut(left, text, a, b)
    PROVE  KeptTo(left, text, b) = KeptTo(left, text, a)
<1> DEFINE holds == { k \in 0 .. b : a <= k => KeptTo(left, text, k) = KeptTo(left, text, a) }
<1>1. Len(text) \in Nat /\ a <= b /\ b <= Len(text)
    BY DEF LeftOut
<1>2. 0 \in holds
    OBVIOUS
<1>3. ASSUME NEW k \in 1 .. b, k - 1 \in holds
      PROVE  k \in holds
    <2>1. CASE k <= a
        <3>1. k \in 0 .. b /\ (a <= k => k = a)
            BY <2>1
        <3> QED
            BY <3>1
    <2>2. CASE a < k
        <3>1. k \in 1 .. Len(text) /\ k \in 0 .. b /\ a <= k - 1
            BY <1>1, <2>2
        <3>2. text[k] \in left
            BY <2>2, <3>1 DEF LeftOut
        <3>3. KeptTo(left, text, k) = KeptTo(left, text, k - 1)
            BY <3>1, <3>2, KeptUnrolled DEF Keep
        <3> QED
            BY <1>3, <3>1, <3>3
    <2> QED
        BY <2>1, <2>2
<1>4. \A k \in 0 .. b : k \in holds
    <2> HIDE DEF holds
    <2> QED
        BY <1>2, <1>3, InductionTo
<1> QED
    BY <1>1, <1>4

\* Two characters of which the same is read.
ReadTheSame(left, c, d) == \A kept : Keep(left, kept, c) = Keep(left, kept, d)

\* The n characters after a, and the first n of another text.
Alike(left, t, a, u, n) ==
    /\ a + n <= Len(t) /\ n <= Len(u)
    /\ \A j \in 1 .. n : ReadTheSame(left, t[a + j], u[j])

LEMMA KeptAlike ==
    ASSUME NEW left, NEW Chars, NEW t \in Seq(Chars), NEW Others, NEW u \in Seq(Others),
           NEW n \in Nat, NEW a \in Nat, Alike(left, t, a, u, n), KeptTo(left, t, a) = << >>
    PROVE  KeptTo(left, t, a + n) = KeptTo(left, u, n)
<1> DEFINE holds == { k \in 0 .. n : KeptTo(left, t, a + k) = KeptTo(left, u, k) }
<1>1. Len(t) \in Nat /\ Len(u) \in Nat /\ a + n <= Len(t) /\ n <= Len(u) /\ a + 0 = a
    BY DEF Alike
<1>2. 0 \in holds
    <2>1. KeptTo(left, u, 0) = << >>
        BY KeptUnrolled
    <2> QED
        BY <1>1, <2>1
<1>3. ASSUME NEW k \in 1 .. n, k - 1 \in holds
      PROVE  k \in holds
    <2>1. /\ a + k \in 1 .. Len(t) /\ k \in 1 .. Len(u)
          /\ (a + k) - 1 = a + (k - 1) /\ k \in 0 .. n
        BY <1>1
    <2>2. /\ KeptTo(left, t, a + k) = Keep(left, KeptTo(left, t, a + (k - 1)), t[a + k])
          /\ KeptTo(left, u, k) = Keep(left, KeptTo(left, u, k - 1), u[k])
        BY <2>1, KeptUnrolled
    <2>3. ReadTheSame(left, t[a + k], u[k])
        BY DEF Alike
    <2> QED
        BY <1>3, <2>1, <2>2, <2>3 DEF ReadTheSame
<1>4. \A k \in 0 .. n : k \in holds
    <2> HIDE DEF holds
    <2> QED
        BY <1>2, <1>3, InductionTo
<1> QED
    BY <1>4

LEMMA ReadAlike ==
    ASSUME NEW left, NEW Chars, NEW t \in Seq(Chars), NEW Others, NEW u \in Seq(Others),
           Len(t) = Len(u), \A j \in 1 .. Len(u) : ReadTheSame(left, t[j], u[j])
    PROVE  N!WithoutLowered(t, left) = N!WithoutLowered(u, left)
<1>1. Len(t) \in Nat /\ 0 + Len(t) = Len(t) /\ \A j \in 1 .. Len(t) : 0 + j = j
    OBVIOUS
<1>2. Alike(left, t, 0, u, Len(t))
    BY <1>1 DEF Alike
<1>3. KeptTo(left, t, 0) = << >>
    BY KeptUnrolled
<1>4. KeptTo(left, t, Len(t)) = KeptTo(left, u, Len(t))
    <2>1. KeptTo(left, t, 0 + Len(t)) = KeptTo(left, u, Len(t))
        BY <1>1, <1>2, <1>3, KeptAlike
    <2> QED
        BY <1>1, <2>1
<1> QED
    BY <1>4, KeptUnrolled

\* Trimming takes away nothing that is read.
LEMMA TrimmedReadAlike ==
    ASSUME NEW left, NEW characters \in SUBSET left, NEW Chars, NEW text \in Seq(Chars)
    PROVE  N!WithoutLowered(N!Trimmed(text, characters), left) = N!WithoutLowered(text, left)
<1> DEFINE trimmed == N!Trimmed(text, characters)
<1>1. PICK a \in Nat, n \in Nat :
              /\ a + n <= Len(text)
              /\ trimmed \in Seq(Chars)
              /\ Len(trimmed) = n
              /\ \A j \in 1 .. n : trimmed[j] = text[a + j]
              /\ \A j \in 1 .. a : text[j] \in characters
              /\ \A j \in a + n + 1 .. Len(text) : text[j] \in characters
              /\ n # 0 => text[a + 1] \notin characters /\ text[a + n] \notin characters
    BY TrimmedShape
<1> HIDE DEF trimmed
<1> DEFINE e == a + n
<1>2. /\ Len(text) \in Nat /\ e \in Nat /\ 0 <= a /\ a <= Len(text) /\ e <= Len(text)
      /\ \A j \in 1 .. Len(text) : 0 < j /\ j <= a => text[j] \in left
      /\ \A j \in 1 .. Len(text) : e < j /\ j <= Len(text) => text[j] \in left
    BY <1>1
<1> HIDE DEF e
<1>3. KeptTo(left, text, a) = << >>
    <2>1. LeftOut(left, text, 0, a)
        BY <1>2 DEF LeftOut
    <2>2. KeptTo(left, text, a) = KeptTo(left, text, 0)
        BY <2>1, KeptOverLeft
    <2> QED
        BY <2>2, KeptUnrolled
<1>4. KeptTo(left, text, Len(text)) = KeptTo(left, text, e)
    <2>1. LeftOut(left, text, e, Len(text))
        BY <1>2 DEF LeftOut
    <2> QED
        BY <1>2, <2>1, KeptOverLeft
<1>5. KeptTo(left, text, e) = KeptTo(left, trimmed, n)
    <2>1. Alike(left, text, a, trimmed, n)
        BY <1>1 DEF Alike, ReadTheSame
    <2> QED
        BY <1>1, <1>3, <2>1, KeptAlike DEF e
<1> QED
    BY <1>1, <1>4, <1>5, KeptUnrolled DEF trimmed

LEMMA AppendedRead ==
    ASSUME NEW left, NEW Chars, NEW text \in Seq(Chars), NEW c \in Chars
    PROVE  N!WithoutLowered(Append(text, c), left)
             = Keep(left, N!WithoutLowered(text, left), c)
<1> DEFINE longer == Append(text, c)
<1>1. /\ longer \in Seq(Chars) /\ Len(text) \in Nat /\ Len(longer) = Len(text) + 1
      /\ longer[Len(text) + 1] = c
      /\ \A j \in 1 .. Len(text) : longer[j] = text[j]
    OBVIOUS
<1> HIDE DEF longer
<1>2. /\ Len(longer) \in 1 .. Len(longer) /\ Len(longer) - 1 = Len(text)
      /\ 0 + Len(text) = Len(text) /\ Len(text) <= Len(longer)
      /\ \A j \in 1 .. Len(text) : 0 + j = j
    BY <1>1
<1>3. KeptTo(left, longer, Len(text)) = KeptTo(left, text, Len(text))
    <2>1. Alike(left, longer, 0, text, Len(text))
        BY <1>1, <1>2 DEF Alike, ReadTheSame
    <2>2. KeptTo(left, longer, 0) = << >>
        BY <1>1, KeptUnrolled
    <2>3. KeptTo(left, longer, 0 + Len(text)) = KeptTo(left, text, Len(text))
        BY <1>1, <2>1, <2>2, KeptAlike
    <2> QED
        BY <1>2, <2>3
<1>4. KeptTo(left, longer, Len(longer)) = Keep(left, KeptTo(left, longer, Len(text)), c)
    <2>1. KeptTo(left, longer, Len(longer))
            = Keep(left, KeptTo(left, longer, Len(longer) - 1), longer[Len(longer)])
        BY <1>1, <1>2, KeptUnrolled
    <2> QED
        BY <1>1, <1>2, <2>1
<1> QED
    BY <1>1, <1>3, <1>4, KeptUnrolled DEF longer

LEMMA ReadStays ==
    ASSUME NEW left, NEW Chars, NEW text \in Seq(Chars)
    PROVE  \E Letters : N!WithoutLowered(text, left) \in Seq(Letters)
<1> DEFINE Letters == { MCLower(c) : c \in Chars }
           holds == { k \in 0 .. Len(text) : KeptTo(left, text, k) \in Seq(Letters) }
<1>1. /\ Len(text) \in Nat
      /\ \A k \in 1 .. Len(text) : text[k] \in Chars /\ MCLower(text[k]) \in Letters
    OBVIOUS
<1> HIDE DEF Letters
<1>2. 0 \in holds
    <2>1. KeptTo(left, text, 0) = << >>
        BY KeptUnrolled
    <2>2. << >> \in Seq(Letters) /\ 0 \in 0 .. Len(text)
        BY <1>1
    <2> QED
        BY <2>1, <2>2
<1>3. ASSUME NEW k \in 1 .. Len(text), k - 1 \in holds
      PROVE  k \in holds
    <2> DEFINE kept == KeptTo(left, text, k - 1)
    <2>1. k \in 0 .. Len(text) /\ kept \in Seq(Letters) /\ MCLower(text[k]) \in Letters
        BY <1>1, <1>3
    <2>2. KeptTo(left, text, k) = Keep(left, kept, text[k])
        BY KeptUnrolled
    <2> HIDE DEF kept
    <2>3. Append(kept, MCLower(text[k])) \in Seq(Letters)
        BY <2>1
    <2> QED
        BY <2>1, <2>2, <2>3 DEF Keep
<1>4. \A k \in 0 .. Len(text) : k \in holds
    <2> HIDE DEF holds
    <2> QED
        BY <1>1, <1>2, <1>3, InductionTo
<1>5. Len(text) \in holds
    BY <1>1, <1>4
<1> QED
    BY <1>5, KeptUnrolled

\* What is read of a few characters.
LEMMA NothingRead ==
    ASSUME NEW left
    PROVE  N!WithoutLowered(<< >>, left) = << >>
<1> DEFINE text == << >>
<1>1. text \in Seq({}) /\ Len(text) = 0
    OBVIOUS
<1> HIDE DEF text
<1>2. N!WithoutLowered(text, left) = << >>
    BY <1>1, KeptUnrolled
<1> QED
    BY <1>2 DEF text

LEMMA OneRead ==
    ASSUME NEW left
    PROVE  \A c : N!WithoutLowered(<<c>>, left) = Keep(left, << >>, c)
<1> TAKE c
<1> DEFINE text == <<c>>
<1>1. text \in Seq({c}) /\ Len(text) = 1 /\ text[1] = c
    OBVIOUS
<1>2. 1 \in 1 .. 1 /\ 1 - 1 = 0
    OBVIOUS
<1> HIDE DEF text
<1>3. N!WithoutLowered(text, left) = Keep(left, << >>, c)
    BY <1>1, <1>2, KeptUnrolled
<1> QED
    BY <1>3, Zenon DEF text

LEMMA ThreeRead ==
    ASSUME NEW left
    PROVE  \A c, d, e : N!WithoutLowered(<<c, d, e>>, left)
             = Keep(left, Keep(left, Keep(left, << >>, c), d), e)
<1> TAKE c, d, e
<1> DEFINE text == <<c, d, e>>
           C == {c, d, e}
<1>1. text \in Seq(C) /\ Len(text) = 3 /\ text[1] = c /\ text[2] = d /\ text[3] = e
    OBVIOUS
<1>2. /\ 1 \in 1 .. 3 /\ 2 \in 1 .. 3 /\ 3 \in 1 .. 3
      /\ 1 - 1 = 0 /\ 2 - 1 = 1 /\ 3 - 1 = 2
    OBVIOUS
<1> HIDE DEF text, C
<1>3. \A k \in 1 .. 3 : KeptTo(left, text, k) = Keep(left, KeptTo(left, text, k - 1), text[k])
    BY <1>1, KeptUnrolled
<1>4. KeptTo(left, text, 1) = Keep(left, KeptTo(left, text, 0), c)
    BY <1>1, <1>2, <1>3
<1>5. KeptTo(left, text, 2) = Keep(left, KeptTo(left, text, 1), d)
    BY <1>1, <1>2, <1>3
<1>6. KeptTo(left, text, 3) = Keep(left, KeptTo(left, text, 2), e)
    BY <1>1, <1>2, <1>3
<1>7. KeptTo(left, text, 0) = << >> /\ N!WithoutLowered(text, left) = KeptTo(left, text, 3)
    BY <1>1, KeptUnrolled
<1> QED
    BY <1>4, <1>5, <1>6, <1>7, Zenon DEF text

\* A text of small letters and the like, of which nothing is left out.
LEMMA ReadWhole ==
    ASSUME NEW left, NEW Chars, NEW text \in Seq(Chars),
           \A c \in Chars : c \notin left /\ MCLower(c) = c
    PROVE  N!WithoutLowered(text, left) = text
<1> DEFINE Begins(kept, k) == kept \in Seq(Chars) /\ Len(kept) = k /\ \A j \in 1 .. k : kept[j] = text[j]
           holds == { k \in 0 .. Len(text) : Begins(KeptTo(left, text, k), k) }
<1>1. Len(text) \in Nat /\ \A k \in 1 .. Len(text) : text[k] \in Chars
    OBVIOUS
<1>2. 0 \in holds
    <2>1. KeptTo(left, text, 0) = << >>
        BY KeptUnrolled
    <2>2. Begins(<< >>, 0) /\ 0 \in 0 .. Len(text)
        BY <1>1
    <2> QED
        BY <2>1, <2>2
<1>3. ASSUME NEW k \in 1 .. Len(text), k - 1 \in holds
      PROVE  k \in holds
    <2> DEFINE kept == KeptTo(left, text, k - 1)
    <2>1. /\ k \in 0 .. Len(text) /\ text[k] \in Chars /\ kept \in Seq(Chars)
          /\ Len(kept) = k - 1 /\ \A j \in 1 .. k - 1 : kept[j] = text[j]
        BY <1>1, <1>3
    <2>2. KeptTo(left, text, k) = Keep(left, kept, text[k])
        BY KeptUnrolled
    <2> HIDE DEF kept
    <2>3. Begins(Append(kept, text[k]), k)
        BY <2>1
    <2>4. Keep(left, kept, text[k]) = Append(kept, text[k])
        BY <2>1 DEF Keep
    <2> QED
        BY <2>1, <2>2, <2>3, <2>4
<1>4. \A k \in 0 .. Len(text) : k \in holds
    <2> HIDE DEF holds
    <2> QED
        BY <1>1, <1>2, <1>3, InductionTo
<1>5. Begins(N!WithoutLowered(text, left), Len(text))
    <2>1. Len(text) \in holds
        BY <1>1, <1>4
    <2> QED
        BY <2>1, KeptUnrolled
<1> QED
    BY <1>5, SameText

LEMMA FirstLeftOut ==
    ASSUME NEW left, NEW Chars, NEW text \in Seq(Chars), text # << >>, Head(text) \in left
    PROVE  N!WithoutLowered(Tail(text), left) = N!WithoutLowered(text, left)
<1> DEFINE rest == Tail(text)
<1>1. /\ Len(text) \in Nat /\ Len(text) >= 1 /\ text[1] \in left
      /\ rest \in Seq(Chars) /\ Len(rest) = Len(text) - 1
      /\ \A j \in 1 .. Len(rest) : rest[j] = text[1 + j]
    OBVIOUS
<1> HIDE DEF rest
<1>2. KeptTo(left, text, 1) = << >>
    <2>1. LeftOut(left, text, 0, 1)
        BY <1>1 DEF LeftOut
    <2>2. KeptTo(left, text, 1) = KeptTo(left, text, 0)
        BY <2>1, KeptOverLeft
    <2> QED
        BY <2>2, KeptUnrolled
<1>3. KeptTo(left, text, 1 + Len(rest)) = KeptTo(left, rest, Len(rest))
    <2>1. Alike(left, text, 1, rest, Len(rest)) /\ Len(rest) \in Nat
        BY <1>1 DEF Alike, ReadTheSame
    <2> QED
        BY <1>1, <1>2, <2>1, KeptAlike
<1>4. 1 + Len(rest) = Len(text)
    BY <1>1
<1> QED
    BY <1>1, <1>3, <1>4, KeptUnrolled DEF rest

\* What is read leaving out more is read of what is read leaving out less, when a letter
\* is left out in each case or in none.
CasesAlike(left) == \A c : ReadTheSame(left, MCLower(c), c)

LEMMA ReadTwice ==
    ASSUME NEW more, NEW left \in SUBSET more, CasesAlike(more), NEW Chars, NEW text \in Seq(Chars)
    PROVE  N!WithoutLowered(N!WithoutLowered(text, left), more) = N!WithoutLowered(text, more)
<1> DEFINE Letters == { MCLower(c) : c \in Chars }
           holds == { k \in 0 .. Len(text) :
                        /\ KeptTo(left, text, k) \in Seq(Letters)
                        /\ N!WithoutLowered(KeptTo(left, text, k), more) = KeptTo(more, text, k) }
<1>1. Len(text) \in Nat /\ \A k \in 1 .. Len(text) : text[k] \in Chars
    OBVIOUS
<1>2. 0 \in holds
    <2>1. KeptTo(left, text, 0) = << >> /\ KeptTo(more, text, 0) = << >>
        BY KeptUnrolled
    <2>2. << >> \in Seq(Letters) /\ 0 \in 0 .. Len(text)
        BY <1>1
    <2> QED
        BY <2>1, <2>2, NothingRead
<1>3. ASSUME NEW k \in 1 .. Len(text), k - 1 \in holds
      PROVE  k \in holds
    <2> DEFINE kept == KeptTo(left, text, k - 1)
               c == text[k]
    <2>1. /\ kept \in Seq(Letters) /\ N!WithoutLowered(kept, more) = KeptTo(more, text, k - 1)
          /\ k \in 0 .. Len(text) /\ MCLower(c) \in Letters
        BY <1>1, <1>3
    <2>2. /\ KeptTo(left, text, k) = Keep(left, kept, c)
          /\ KeptTo(more, text, k) = Keep(more, KeptTo(more, text, k - 1), c)
        BY KeptUnrolled
    <2> HIDE DEF kept, c, Letters
    <2>3. CASE c \in left
        BY <2>1, <2>2, <2>3 DEF Keep, Letters
    <2>4. CASE c \notin left
        <3>1. KeptTo(left, text, k) = Append(kept, MCLower(c))
            BY <2>2, <2>4 DEF Keep
        <3>2. Append(kept, MCLower(c)) \in Seq(Letters)
            BY <2>1
        <3>3. N!WithoutLowered(Append(kept, MCLower(c)), more)
                = Keep(more, KeptTo(more, text, k - 1), MCLower(c))
            BY <2>1, AppendedRead
        <3>4. Keep(more, KeptTo(more, text, k - 1), MCLower(c)) = KeptTo(more, text, k)
            BY <2>2 DEF CasesAlike, ReadTheSame
        <3> QED
            BY <2>1, <3>1, <3>2, <3>3, <3>4 DEF Letters
    <2> QED
        BY <2>3, <2>4
<1>4. \A k \in 0 .. Len(text) : k \in holds
    <2> HIDE DEF holds
    <2> QED
        BY <1>1, <1>2, <1>3, InductionTo
<1>5. Len(text) \in holds
    BY <1>1, <1>4
<1> QED
    BY <1>5, KeptUnrolled

\* Nor does collapsing, when "_" is left out.
LEMMA CollapsedReadAlike ==
    ASSUME NEW left, Bar \in left, NEW Chars, NEW text \in Seq(Chars)
    PROVE  N!WithoutLowered(N!Collapsed(text), left) = N!WithoutLowered(text, left)
<1> DEFINE holds == { k \in 0 .. Len(text) :
                        N!WithoutLowered(CollapsedTo(text, k), left) = KeptTo(left, text, k) }
<1>1. Len(text) \in Nat /\ \A k \in 1 .. Len(text) : text[k] \in Chars
    OBVIOUS
<1>2. 0 \in holds
    <2>1. CollapsedTo(text, 0) = << >>
        BY CollapsedUnrolled
    <2>2. KeptTo(left, text, 0) = << >>
        BY KeptUnrolled
    <2>3. N!WithoutLowered(<< >>, left) = << >> /\ 0 \in 0 .. Len(text)
        BY <1>1, NothingRead
    <2> QED
        BY <2>1, <2>2, <2>3
<1>3. ASSUME NEW k \in 1 .. Len(text), k - 1 \in holds
      PROVE  k \in holds
    <2> DEFINE done == CollapsedTo(text, k - 1)
               c == text[k]
    <2>1. /\ k \in 0 .. Len(text) /\ k - 1 \in 0 .. Len(text) /\ c \in Chars
          /\ N!WithoutLowered(done, left) = KeptTo(left, text, k - 1)
        BY <1>1, <1>3
    <2>2. /\ CollapsedTo(text, k) = Joint(done, c)
          /\ KeptTo(left, text, k) = Keep(left, KeptTo(left, text, k - 1), c)
          /\ done \in Seq(Chars)
        BY <2>1, CollapsedUnrolled, KeptUnrolled
    <2> HIDE DEF done, c
    <2>3. CASE Joint(done, c) = Append(done, c)
        BY <2>1, <2>2, <2>3, AppendedRead
    <2>4. CASE Joint(done, c) # Append(done, c)
        <3>1. c = Bar /\ Joint(done, c) = done
            BY <2>4 DEF Joint
        <3> QED
            BY <2>1, <2>2, <3>1 DEF Keep
    <2> QED
        BY <2>3, <2>4
<1>4. \A k \in 0 .. Len(text) : k \in holds
    <2> HIDE DEF holds
    <2> QED
        BY <1>1, <1>2, <1>3, InductionTo
<1>5. Len(text) \in holds
    BY <1>1, <1>4
<1> QED
    BY <1>5, CollapsedUnrolled, KeptUnrolled

LEMMA SegmentReadAlike ==
    ASSUME NEW left, Bar \in left, Soft \subseteq left, NEW Chars, NEW text \in Seq(Chars)
    PROVE  N!WithoutLowered(N!SanitizeSegment(text), left) = N!WithoutLowered(text, left)
<1> DEFINE harmless(c) == IF c \in Soft THEN Bar ELSE c
           trimmed == N!Trimmed(text, Blanks)
           mapped == [i \in DOMAIN trimmed |-> harmless(trimmed[i])]
           underscore == {Bar}
<1>1. N!SanitizeSegment(text) = N!Trimmed(N!Collapsed(mapped), underscore)
    BY Zenon DEF N!SanitizeSegment, N!Mapped, Soft, Blanks, Bar
<1>2. Blanks \subseteq left /\ underscore \subseteq left
    <2>1. Blanks \subseteq Soft
        BY Zenon DEF Blanks, Soft
    <2> QED
        BY <2>1
<1>3. trimmed \in Seq(Chars)
    BY TrimmedStays
<1> HIDE DEF trimmed
<1> DEFINE Others == { harmless(c) : c \in Chars }
<1>4. mapped \in Seq(Others) /\ Len(trimmed) = Len(mapped)
      /\ \A j \in 1 .. Len(mapped) : mapped[j] = harmless(trimmed[j])
    <2>1. DOMAIN trimmed = 1 .. Len(trimmed) /\ Len(trimmed) \in Nat
          /\ \A i \in 1 .. Len(trimmed) : harmless(trimmed[i]) \in Others
        BY <1>3
    <2> HIDE DEF harmless, Others
    <2> QED
        BY <2>1
<1>5. \A c : ReadTheSame(left, c, harmless(c))
    BY DEF ReadTheSame, Keep
<1> HIDE DEF harmless, mapped, Others
<1>6. N!WithoutLowered(trimmed, left) = N!WithoutLowered(mapped, left)
    BY <1>3, <1>4, <1>5, ReadAlike
<1>7. N!WithoutLowered(text, left) = N!WithoutLowered(trimmed, left)
    BY <1>2, TrimmedReadAlike DEF trimmed
<1>8. N!WithoutLowered(mapped, left) = N!WithoutLowered(N!Collapsed(mapped), left)
    BY <1>4, CollapsedReadAlike
<1>9. N!Collapsed(mapped) \in Seq(Others)
    BY <1>4, CollapsedStays
<1>10. N!WithoutLowered(N!Trimmed(N!Collapsed(mapped), underscore), left)
         = N!WithoutLowered(N!Collapsed(mapped), left)
    <2> HIDE DEF underscore
    <2> QED
        BY <1>2, <1>9, TrimmedReadAlike
<1> QED
    BY <1>1, <1>6, <1>7, <1>8, <1>10

-----------------------------------------------------------------------------
(* Types and identities *)

LEMMA ShortAppended ==
    ASSUME NEW c, NEW d
    PROVE  Append(<< >>, c) = <<c>> /\ Append(<<c>>, d) = <<c, d>>
<1>1. Append(<< >>, c) = <<c>>
    OBVIOUS
<1>2. Append(<<c>>, d) = <<c, d>>
    <2> DEFINE C == {c, d}
               one == <<c>>
               more == Append(one, d)
               two == <<c, d>>
    <2>1. one \in Seq(C) /\ Len(one) = 1 /\ one[1] = c /\ d \in C
        OBVIOUS
    <2>2. two \in Seq(C) /\ Len(two) = 2 /\ two[1] = c /\ two[2] = d
        OBVIOUS
    <2> HIDE DEF C, one, two
    <2>3. more \in Seq(C) /\ Len(more) = 2 /\ more[1] = c /\ more[2] = d
        <3>1. /\ more \in Seq(C) /\ Len(more) = Len(one) + 1 /\ more[Len(one) + 1] = d
              /\ \A j \in 1 .. Len(one) : more[j] = one[j]
            BY <2>1, OneMore
        <3> HIDE DEF more
        <3> QED
            BY <2>1, <3>1
    <2> HIDE DEF more
    <2>4. \A j \in 1 .. Len(two) : more[j] = two[j]
        <3>1. \A j \in 1 .. 2 : j = 1 \/ j = 2
            OBVIOUS
        <3> QED
            BY <2>2, <2>3, <3>1
    <2>5. more = two
        BY <2>2, <2>3, <2>4, SameText
    <2> QED
        BY <2>5 DEF more, one, two
<1> QED
    BY <1>1, <1>2

\* What tells the types apart: a text without anything that a level of a topic or the
\* reading of a type leaves out.
Ignored == Soft \cup {"_", "-"}

Plain(text) == N!WithoutLowered(text, Ignored)

\* What object_type_from_text leaves out.
Dashes == {"_", "-", " "}

LEMMA IgnoredFacts ==
    /\ Bar \in Ignored /\ Soft \subseteq Ignored /\ Dashes \subseteq Ignored
    /\ CasesAlike(Ignored)
    /\ \A c \in MCDigits \cup {"a", "A"} : c \notin Ignored /\ c \notin Dashes
    /\ "+" \in Ignored /\ Bar \in Dashes
    /\ \A c \in MCDigits \cup {"a"} : MCLower(c) = c
    /\ "a" \notin MCDigits /\ "+" \notin MCDigits
<1>1. Bar \in Ignored /\ Soft \subseteq Ignored /\ "+" \in Ignored /\ Bar \in Dashes
    BY Zenon DEF Ignored, Soft, Bar, Dashes
<1>2. Dashes \subseteq Ignored
    BY Zenon DEF Ignored, Soft, Dashes
<1>3. \A c \in MCDigits \cup {"a", "A"} : c \notin Ignored
    BY Zenon DEF Ignored, Soft, MCDigits
<1>4. \A c \in MCDigits \cup {"a", "A"} : c \notin Dashes
    BY <1>2, <1>3
<1>5. CasesAlike(Ignored)
    <2>1. "a" \notin Ignored /\ "A" \notin Ignored
        BY <1>3, Zenon
    <2>2. "a" # "A"
        OBVIOUS
    <2> QED
        BY <2>1, <2>2, Zenon DEF CasesAlike, ReadTheSame, Keep, MCLower
<1>6. \A c \in MCDigits \cup {"a"} : MCLower(c) = c
    BY Zenon DEF MCDigits, MCLower
<1>7. "a" \notin MCDigits /\ "+" \notin MCDigits
    BY Zenon DEF MCDigits
<1> QED
    BY <1>1, <1>2, <1>3, <1>4, <1>5, <1>6, <1>7, Zenon

\* What a type reads plainly: its number, after any zeros, or the letters of its name.
Numerals == Seq(MCDigits) \ {<< >>}

Spelled(type, plain) ==
    \/ plain \in Numerals /\ type = N!Significant(plain)
    \/ type = <<"2">> /\ plain = <<"a">>
    \/ type = <<"3">> /\ plain = <<"a", "a">>

LEMMA SpellingsApart ==
    ASSUME NEW x, NEW y, NEW plain, Spelled(x, plain), Spelled(y, plain)
    PROVE  x = y
<1>1. <<"a">> # <<"a", "a">>
    OBVIOUS
<1>2. \A text \in Numerals : text[1] \in MCDigits
    BY DEF Numerals
<1>3. <<"a">>[1] = "a" /\ <<"a", "a">>[1] = "a"
    OBVIOUS
<1>4. <<"a">> \notin Numerals /\ <<"a", "a">> \notin Numerals
    BY <1>2, <1>3, IgnoredFacts, Zenon
<1> DEFINE short == <<"a">>
           long == <<"a", "a">>
           second == <<"2">>
           third == <<"3">>
<1>5. \A type : Spelled(type, plain) => \/ plain \in Numerals /\ type = N!Significant(plain)
                                        \/ type = second /\ plain = short
                                        \/ type = third /\ plain = long
    BY DEF Spelled
<1> HIDE DEF short, long, second, third
<1>6. short \notin Numerals /\ long \notin Numerals /\ short # long
    BY <1>1, <1>4 DEF short, long
<1> QED
    BY <1>5, <1>6

LEMMA ParsedSpelled ==
    ASSUME NEW Chars, NEW text \in Seq(Chars), NEW type \in N!Parsed(text)
    PROVE  Plain(text) \in Numerals /\ type = N!Significant(Plain(text)) /\ Len(type) <= 2
<1> DEFINE digits == IF text # << >> /\ Head(text) = "+" THEN Tail(text) ELSE text
<1>1. /\ type = N!Significant(digits) /\ digits # << >> /\ Len(type) <= 2
      /\ \A i \in DOMAIN digits : digits[i] \in MCDigits
    BY Zenon DEF N!Parsed
<1>2. digits \in Seq(Chars) /\ Plain(digits) = Plain(text)
    <2>1. CASE text # << >> /\ Head(text) = "+"
        <3>1. Tail(text) \in Seq(Chars) /\ "+" \in Ignored
            BY <2>1, IgnoredFacts
        <3>2. Plain(Tail(text)) = Plain(text)
            BY <2>1, <3>1, FirstLeftOut DEF Plain
        <3> QED
            BY <2>1, <3>1, <3>2, Zenon
    <2>2. CASE ~(text # << >> /\ Head(text) = "+")
        BY <2>2, Zenon
    <2> QED
        BY <2>1, <2>2
<1> HIDE DEF digits
<1>3. digits \in Numerals
    <2>1. digits \in Seq(MCDigits)
        BY <1>1, <1>2
    <2> QED
        BY <1>1, <2>1 DEF Numerals
<1>4. Plain(digits) = digits
    BY <1>3, IgnoredFacts, ReadWhole DEF Plain, Numerals
<1> QED
    BY <1>1, <1>2, <1>3, <1>4

LEMMA NamedTypes ==
    /\ DOMAIN MCNameOf = {<<"2">>, <<"3">>}
    /\ MCNameOf[<<"2">>] = <<"A">> /\ MCNameOf[<<"3">>] = <<"A", Bar, "A">>
<1>1. <<"2">> # <<"3">>
    OBVIOUS
<1> QED
    BY <1>1, Zenon DEF MCNameOf, Bar

LEMMA NamesRead ==
    ASSUME NEW left, Bar \in left, "A" \notin left, "a" \notin left
    PROVE  /\ N!WithoutLowered(<<"A">>, left) = <<"a">>
           /\ N!WithoutLowered(<<"a">>, left) = <<"a">>
           /\ N!WithoutLowered(<<"A", Bar, "A">>, left) = <<"a", "a">>
           /\ N!WithoutLowered(<<"a", Bar, "a">>, left) = <<"a", "a">>
<1>1. Append(<< >>, "a") = <<"a">> /\ Append(<<"a">>, "a") = <<"a", "a">>
    BY ShortAppended, Zenon
<1>2. MCLower("A") = "a" /\ MCLower("a") = "a"
    BY DEF MCLower
<1>3. \A c \in {"A", "a"} : Keep(left, << >>, c) = <<"a">> /\ Keep(left, <<"a">>, c) = <<"a", "a">>
    BY <1>1, <1>2 DEF Keep
<1>4. Keep(left, <<"a">>, Bar) = <<"a">>
    BY DEF Keep
<1>5. \A c \in {"A", "a"} : N!WithoutLowered(<<c>>, left) = <<"a">>
    BY <1>3, OneRead
<1>6. \A c \in {"A", "a"} : N!WithoutLowered(<<c, Bar, c>>, left) = <<"a", "a">>
    <2>1. \A c \in {"A", "a"} : N!WithoutLowered(<<c, Bar, c>>, left)
                                  = Keep(left, Keep(left, Keep(left, << >>, c), Bar), c)
        BY ThreeRead
    <2> QED
        BY <1>3, <1>4, <2>1
<1> QED
    BY <1>5, <1>6, Zenon

LEMMA TypeSpelled ==
    ASSUME NEW Chars, NEW text \in Seq(Chars), NEW type \in N!ObjectTypeFromText(text)
    PROVE  Spelled(type, Plain(text))
<1> DEFINE normal == N!NormalizeIdentifier(text)
<1>1. \A x : N!NormalizeIdentifier(x) = N!WithoutLowered(x, Dashes)
    BY Zenon DEF N!NormalizeIdentifier, Dashes
<1>2. \E Letters : normal \in Seq(Letters)
    BY <1>1, ReadStays
<1>3. Plain(normal) = Plain(text)
    <2>1. Dashes \subseteq Ignored /\ CasesAlike(Ignored)
        BY IgnoredFacts, Zenon
    <2>2. N!WithoutLowered(N!WithoutLowered(text, Dashes), Ignored) = N!WithoutLowered(text, Ignored)
        BY <2>1, ReadTwice
    <2> QED
        BY <1>1, <2>2 DEF Plain
<1>4. \/ type \in N!Parsed(normal)
      \/ type \in DOMAIN MCNameOf /\ N!NormalizeIdentifier(MCNameOf[type]) = normal
    BY Zenon DEF N!ObjectTypeFromText
<1> HIDE DEF normal
<1>5. CASE type \in N!Parsed(normal)
    BY <1>2, <1>3, <1>5, ParsedSpelled DEF Spelled
<1>6. CASE type \in DOMAIN MCNameOf /\ N!NormalizeIdentifier(MCNameOf[type]) = normal
    <2> DEFINE name == MCNameOf[type]
               Letters == {"A", Bar}
    <2>1. (type = <<"2">> /\ name = <<"A">>) \/ (type = <<"3">> /\ name = <<"A", Bar, "A">>)
        BY <1>6, NamedTypes, Zenon
    <2>2. <<"A">> \in Seq(Letters) /\ <<"A", Bar, "A">> \in Seq(Letters)
        <3>1. "A" \in Letters /\ Bar \in Letters
            BY Zenon
        <3> HIDE DEF Letters
        <3> QED
            BY <3>1, ShortTexts, Zenon
    <2>3. /\ N!WithoutLowered(<<"A">>, Ignored) = <<"a">>
          /\ N!WithoutLowered(<<"A", Bar, "A">>, Ignored) = <<"a", "a">>
        <3>1. Bar \in Ignored /\ "A" \notin Ignored /\ "a" \notin Ignored
            BY IgnoredFacts, Zenon
        <3> QED
            BY <3>1, NamesRead
    <2>4. name \in Seq(Letters)
        BY <2>1, <2>2, Zenon
    <2> HIDE DEF name, Letters
    <2>5. N!WithoutLowered(N!WithoutLowered(name, Dashes), Ignored) = N!WithoutLowered(name, Ignored)
        <3>1. Dashes \subseteq Ignored /\ CasesAlike(Ignored)
            BY IgnoredFacts, Zenon
        <3> QED
            BY <2>4, <3>1, ReadTwice
    <2>6. N!WithoutLowered(name, Dashes) = normal
        BY <1>1, <1>6 DEF name
    <2>7. Plain(text) = N!WithoutLowered(name, Ignored)
        BY <1>3, <2>5, <2>6 DEF Plain
    <2> QED
        BY <2>1, <2>3, <2>7, Zenon DEF Spelled
<1> QED
    BY <1>4, <1>5, <1>6

\* Two texts that are read, and read plainly alike, are read as one type.
LEMMA OneType ==
    ASSUME NEW Chars, NEW t \in Seq(Chars), NEW Others, NEW u \in Seq(Others),
           Plain(t) = Plain(u),
           N!ObjectTypeFromText(t) # {}, N!ObjectTypeFromText(u) # {}
    PROVE  \E type : /\ Spelled(type, Plain(t))
                     /\ N!ObjectTypeFromText(t) = {type} /\ N!ObjectTypeFromText(u) = {type}
<1>1. PICK type \in N!ObjectTypeFromText(t) : TRUE
    OBVIOUS
<1>2. Spelled(type, Plain(t))
    BY TypeSpelled
<1>3. \A other \in N!ObjectTypeFromText(t) : other = type
    <2> TAKE other \in N!ObjectTypeFromText(t)
    <2>1. Spelled(other, Plain(t))
        BY TypeSpelled
    <2> QED
        BY <1>2, <2>1, SpellingsApart
<1>4. \A other \in N!ObjectTypeFromText(u) : other = type
    <2> TAKE other \in N!ObjectTypeFromText(u)
    <2>1. Spelled(other, Plain(t))
        BY TypeSpelled
    <2> QED
        BY <1>2, <2>1, SpellingsApart
<1> QED
    BY <1>1, <1>2, <1>3, <1>4

\* Two texts that are read, and are one level of a topic, are read as one type.
LEMMA SameLevelReadAlike ==
    ASSUME NEW Chars, NEW t \in Seq(Chars), NEW Others, NEW u \in Seq(Others),
           N!SanitizeSegment(t) = N!SanitizeSegment(u),
           N!ObjectTypeFromText(t) # {}, N!ObjectTypeFromText(u) # {}
    PROVE  N!ObjectTypeFromText(t) = N!ObjectTypeFromText(u)
<1>1. Bar \in Ignored /\ Soft \subseteq Ignored
    BY IgnoredFacts, Zenon
<1>2. Plain(N!SanitizeSegment(t)) = Plain(t)
    BY <1>1, SegmentReadAlike DEF Plain
<1>3. Plain(N!SanitizeSegment(u)) = Plain(u)
    BY <1>1, SegmentReadAlike DEF Plain
<1>4. Plain(t) = Plain(u)
    BY <1>2, <1>3
<1> QED
    BY <1>4, OneType

\* What an identity makes of a character.
Kind(c) == IF c \in {" ", "-"} THEN "_" ELSE MCLower(c)

LEMMA IdentityRead ==
    ASSUME NEW Chars, NEW text \in Seq(Chars)
    PROVE  N!WithoutLowered(N!IdentityPart(text), Dashes) = N!WithoutLowered(text, Dashes)
<1> DEFINE trimmed == N!Trimmed(text, Blanks)
           mapped == [i \in DOMAIN trimmed |-> Kind(trimmed[i])]
           Others == { Kind(c) : c \in Chars }
<1>1. N!IdentityPart(text) = mapped
    BY Zenon DEF N!IdentityPart, N!Mapped, Kind, Blanks
<1>2. trimmed \in Seq(Chars)
    BY TrimmedStays
<1>3. N!WithoutLowered(trimmed, Dashes) = N!WithoutLowered(text, Dashes)
    <2>1. Blanks \in SUBSET Dashes
        BY Zenon DEF Blanks, Dashes
    <2> QED
        BY <2>1, TrimmedReadAlike
<1> HIDE DEF trimmed
<1>4. mapped \in Seq(Others) /\ Len(mapped) = Len(trimmed)
      /\ \A j \in 1 .. Len(trimmed) : mapped[j] = Kind(trimmed[j])
    <2>1. DOMAIN trimmed = 1 .. Len(trimmed) /\ Len(trimmed) \in Nat
          /\ \A i \in 1 .. Len(trimmed) : Kind(trimmed[i]) \in Others
        BY <1>2
    <2> HIDE DEF Others
    <2> QED
        BY <2>1
<1>5. \A c : ReadTheSame(Dashes, Kind(c), c)
    <2>1. \A c : c \in {" ", "-"} => c \in Dashes /\ Kind(c) = "_"
        BY Zenon DEF Dashes, Kind
    <2>2. "_" \in Dashes /\ "a" \notin Dashes /\ "A" \notin Dashes
        BY Zenon DEF Dashes
    <2>3. \A c : c \notin {" ", "-"} => Kind(c) = MCLower(c)
        BY Zenon DEF Kind
    <2>4. \A c : \/ Kind(c) = "_" /\ c \in Dashes
                 \/ Kind(c) = "a" /\ c = "A"
                 \/ Kind(c) = c
        <3> SUFFICES ASSUME NEW c PROVE \/ Kind(c) = "_" /\ c \in Dashes
                                        \/ Kind(c) = "a" /\ c = "A"
                                        \/ Kind(c) = c
            OBVIOUS
        <3>1. MCLower(c) = c \/ (c = "A" /\ MCLower(c) = "a")
            BY Zenon DEF MCLower
        <3> QED
            BY <2>1, <2>3, <3>1, Zenon
    <2>5. \A c : ReadTheSame(Dashes, c, c)
        BY DEF ReadTheSame
    <2>6. \A c \in Dashes : ReadTheSame(Dashes, "_", c)
        BY <2>2, Zenon DEF ReadTheSame, Keep
    <2>7. ReadTheSame(Dashes, "a", "A")
        BY <2>2, Zenon DEF ReadTheSame, Keep, MCLower
    <2> QED
        <3> TAKE c
        <3>1. CASE Kind(c) = "_" /\ c \in Dashes
            BY <2>6, <3>1, Zenon
        <3>2. CASE Kind(c) = "a" /\ c = "A"
            BY <2>7, <3>2, Zenon
        <3>3. CASE Kind(c) = c
            BY <2>5, <3>3, Zenon
        <3> QED
            BY <2>4, <3>1, <3>2, <3>3, Zenon
<1> HIDE DEF mapped, Others
<1>6. N!WithoutLowered(mapped, Dashes) = N!WithoutLowered(trimmed, Dashes)
    BY <1>2, <1>4, <1>5, ReadAlike
<1> QED
    BY <1>1, <1>3, <1>6

\* Two texts that are one identity are read as one type: points that share a status read
\* the same object.
THEOREM SameIdentityReadAlike ==
    ASSUME NEW Chars, NEW t \in Seq(Chars), NEW Others, NEW u \in Seq(Others),
           N!IdentityPart(t) = N!IdentityPart(u)
    PROVE  N!ObjectTypeFromText(t) = N!ObjectTypeFromText(u)
<1>1. \A x : N!NormalizeIdentifier(x) = N!WithoutLowered(x, Dashes)
    BY Zenon DEF N!NormalizeIdentifier, Dashes
<1>2. N!NormalizeIdentifier(t) = N!NormalizeIdentifier(u)
    <2>1. N!WithoutLowered(N!IdentityPart(t), Dashes) = N!WithoutLowered(t, Dashes)
        BY IdentityRead
    <2>2. N!WithoutLowered(N!IdentityPart(u), Dashes) = N!WithoutLowered(u, Dashes)
        BY IdentityRead
    <2> QED
        BY <1>1, <2>1, <2>2
<1> QED
    BY <1>2 DEF N!ObjectTypeFromText

\* A text of settled characters is its own identity.
LEMMA Settled ==
    ASSUME NEW Chars, NEW text \in Seq(Chars), \A c \in Chars : c \notin Blanks /\ Kind(c) = c
    PROVE  N!IdentityPart(text) = text
<1> DEFINE trimmed == N!Trimmed(text, Blanks)
<1>1. N!IdentityPart(text) = [i \in DOMAIN trimmed |-> Kind(trimmed[i])]
    BY Zenon DEF N!IdentityPart, N!Mapped, Kind, Blanks
<1>2. trimmed = text
    <2>1. Len(text) \in Nat /\ \A j \in 1 .. Len(text) : text[j] \notin Blanks
        OBVIOUS
    <2>2. text # << >> => 1 \in 1 .. Len(text) /\ Len(text) \in 1 .. Len(text)
        BY <2>1
    <2> QED
        BY <2>1, <2>2, TrimmedWhole
<1>3. [i \in DOMAIN text |-> Kind(text[i])] = text
    <2>1. \A i \in DOMAIN text : Kind(text[i]) = text[i]
        <3>1. \A i \in DOMAIN text : text[i] \in Chars
            OBVIOUS
        <3> QED
            BY <3>1
    <2>2. [i \in DOMAIN text |-> Kind(text[i])] = [i \in DOMAIN text |-> text[i]]
        BY <2>1
    <2>3. text = [i \in DOMAIN text |-> text[i]]
        OBVIOUS
    <2> QED
        BY <2>2, <2>3
<1> HIDE DEF trimmed
<1> QED
    BY <1>1, <1>2, <1>3

\* What an import calls the types that have a name.
LEMMA TypeNames ==
    /\ N!ObjectTypeName(<<"2">>) = <<"a">> /\ N!ObjectTypeName(<<"3">>) = <<"a", Bar, "a">>
    /\ \A type : type \notin DOMAIN MCNameOf => N!ObjectTypeName(type) = type
<1>1. \A type \in DOMAIN MCNameOf :
        N!ObjectTypeName(type) = [i \in DOMAIN MCNameOf[type] |-> MCLower(MCNameOf[type][i])]
    BY Zenon DEF N!ObjectTypeName, N!Mapped
<1>2. N!ObjectTypeName(<<"2">>) = <<"a">>
    <2>1. N!ObjectTypeName(<<"2">>) = [i \in DOMAIN <<"A">> |-> MCLower(<<"A">>[i])]
        BY <1>1, NamedTypes, Zenon
    <2> QED
        BY <2>1 DEF MCLower
<1>3. N!ObjectTypeName(<<"3">>) = <<"a", Bar, "a">>
    <2> DEFINE name == <<"A", Bar, "A">>
               named == <<"a", Bar, "a">>
    <2>1. N!ObjectTypeName(<<"3">>) = [i \in DOMAIN name |-> MCLower(name[i])]
        BY <1>1, NamedTypes, Zenon
    <2>2. Bar # "A"
        BY Zenon DEF Bar
    <2>3. MCLower(Bar) = Bar /\ MCLower("A") = "a"
        BY <2>2 DEF MCLower
    <2>4. /\ DOMAIN name = 1 .. 3 /\ name[1] = "A" /\ name[2] = Bar /\ name[3] = "A"
          /\ DOMAIN named = 1 .. 3 /\ named[1] = "a" /\ named[2] = Bar /\ named[3] = "a"
          /\ named = [i \in DOMAIN named |-> named[i]]
        OBVIOUS
    <2> HIDE DEF name, named
    <2>5. \A i \in 1 .. 3 : MCLower(name[i]) = named[i]
        <3>1. \A i \in 1 .. 3 : i = 1 \/ i = 2 \/ i = 3
            OBVIOUS
        <3> QED
            BY <2>3, <2>4, <3>1
    <2>6. [i \in DOMAIN name |-> MCLower(name[i])] = named
        BY <2>4, <2>5
    <2> QED
        BY <2>1, <2>6 DEF named
<1>4. \A type : type \notin DOMAIN MCNameOf => N!ObjectTypeName(type) = type
    BY Zenon DEF N!ObjectTypeName
<1> QED
    BY <1>2, <1>3, <1>4

\* A type with a name is read of that name.
LEMMA NamedReadBack ==
    ASSUME NEW type \in DOMAIN MCNameOf
    PROVE  /\ N!ObjectTypeFromText(N!ObjectTypeName(type)) = {type}
           /\ N!IdentityPart(N!ObjectTypeName(type)) = N!ObjectTypeName(type)
<1> DEFINE name == N!ObjectTypeName(type)
           Letters == {"a", Bar}
           normal == N!NormalizeIdentifier(name)
           called == { other \in DOMAIN MCNameOf : N!NormalizeIdentifier(MCNameOf[other]) = normal }
<1>1. \/ type = <<"2">> /\ MCNameOf[type] = <<"A">> /\ name = <<"a">>
      \/ type = <<"3">> /\ MCNameOf[type] = <<"A", Bar, "A">> /\ name = <<"a", Bar, "a">>
    BY NamedTypes, TypeNames, Zenon
<1>2. name \in Seq(Letters)
    <2>1. "a" \in Letters /\ Bar \in Letters
        OBVIOUS
    <2> HIDE DEF Letters
    <2>2. <<"a">> \in Seq(Letters) /\ <<"a", Bar, "a">> \in Seq(Letters)
        BY <2>1, ShortTexts, Zenon
    <2> QED
        BY <1>1, <2>2, Zenon
<1>3. /\ Bar \in Dashes /\ "a" \notin Dashes /\ "A" \notin Dashes
      /\ Bar \in Ignored /\ "a" \notin Ignored /\ "A" \notin Ignored
    BY IgnoredFacts, Zenon
<1>4. N!IdentityPart(name) = name
    <2>1. \A c \in Letters : c \notin Blanks /\ Kind(c) = c
        BY Zenon DEF Blanks, Kind, Bar, MCLower
    <2> HIDE DEF Letters, name
    <2> QED
        BY <1>2, <2>1, Settled
<1>5. N!ObjectTypeFromText(name) = IF N!Parsed(normal) # {} THEN N!Parsed(normal) ELSE called
    BY DEF N!ObjectTypeFromText
<1>6. \A x : N!NormalizeIdentifier(x) = N!WithoutLowered(x, Dashes)
    BY Zenon DEF N!NormalizeIdentifier, Dashes
<1>7. type \in called
    <2>1. /\ N!WithoutLowered(<<"A">>, Dashes) = <<"a">>
          /\ N!WithoutLowered(<<"a">>, Dashes) = <<"a">>
          /\ N!WithoutLowered(<<"A", Bar, "A">>, Dashes) = <<"a", "a">>
          /\ N!WithoutLowered(<<"a", Bar, "a">>, Dashes) = <<"a", "a">>
        BY <1>3, NamesRead
    <2>2. N!NormalizeIdentifier(MCNameOf[type]) = normal
        BY <1>1, <1>6, <2>1, Zenon
    <2> QED
        BY <2>2
<1>8. Spelled(type, Plain(name))
    <2>1. Plain(<<"a">>) = <<"a">> /\ Plain(<<"a", Bar, "a">>) = <<"a", "a">>
        BY <1>3, NamesRead DEF Plain
    <2> QED
        BY <1>1, <2>1, Zenon DEF Spelled
<1>9. \A other \in N!ObjectTypeFromText(name) : other = type
    <2> HIDE DEF name, Letters
    <2> TAKE other \in N!ObjectTypeFromText(name)
    <2>1. Spelled(other, Plain(name))
        BY <1>2, TypeSpelled
    <2> QED
        BY <1>8, <2>1, SpellingsApart
<1>10. type \in N!ObjectTypeFromText(name)
    <2> HIDE DEF name, normal, called
    <2>1. CASE N!Parsed(normal) = {}
        BY <1>5, <1>7, <2>1
    <2>2. CASE N!Parsed(normal) # {}
        <3>1. PICK other \in N!Parsed(normal) : TRUE
            BY <2>2
        <3> QED
            BY <1>5, <1>9, <2>2, <3>1
    <2> QED
        BY <2>1, <2>2
<1> HIDE DEF name
<1> QED
    BY <1>4, <1>9, <1>10 DEF name

\* A number without zeros that lead is what is significant of it.
LEMMA SignificantSettled ==
    ASSUME NEW digits \in Numerals
    PROVE  /\ N!Significant(digits) \in Numerals
           /\ N!Significant(N!Significant(digits)) = N!Significant(digits)
<1> DEFINE zero == "0"
           Others(text) == { i \in DOMAIN text : text[i] # zero }
<1>1. \A text : N!Significant(text) = IF Others(text) = {} THEN <<zero>>
                                      ELSE SubSeq(text, Min(Others(text)), Len(text))
    BY DEF N!Significant, N!Min, Min
<1>2. zero \in MCDigits
    BY Zenon DEF MCDigits
<1> HIDE DEF zero
<1>3. /\ Len(digits) \in Nat /\ Len(digits) >= 1 /\ DOMAIN digits = 1 .. Len(digits)
      /\ \A i \in 1 .. Len(digits) : digits[i] \in MCDigits
    BY DEF Numerals
<1>4. CASE Others(digits) = {}
    <2>1. <<zero>> \in Numerals
        BY <1>2 DEF Numerals
    <2>2. Others(<<zero>>) = {}
        OBVIOUS
    <2> HIDE DEF Others
    <2> QED
        BY <1>1, <1>4, <2>1, <2>2
<1>5. CASE Others(digits) # {}
    <2> DEFINE first == Min(Others(digits))
               rest == SubSeq(digits, first, Len(digits))
    <2>1. first \in Others(digits)
        <3>1. Others(digits) \in SUBSET Nat
            BY <1>3
        <3> HIDE DEF Others
        <3> QED
            BY <1>5, <3>1, MinIsLeast
    <2>2. first \in 1 .. Len(digits) /\ digits[first] # zero
        BY <1>3, <2>1
    <2>3. N!Significant(digits) = rest
        BY <1>1, <1>5
    <2> HIDE DEF first
    <2>4. /\ rest \in Seq(MCDigits) /\ Len(rest) = Len(digits) - first + 1 /\ rest[1] # zero
        <3>1. \A i \in first .. Len(digits) : digits[i] \in MCDigits
            BY <1>3, <2>2
        <3>2. /\ rest \in Seq(MCDigits) /\ Len(rest) = Len(digits) - first + 1
              /\ \A j \in 1 .. Len(digits) - first + 1 : rest[j] = digits[first + j - 1]
            BY <1>3, <2>2, <3>1, SubSeqProperties
        <3>3. 1 \in 1 .. Len(digits) - first + 1 /\ first + 1 - 1 = first
            BY <1>3, <2>2
        <3> HIDE DEF rest
        <3> QED
            BY <2>2, <3>2, <3>3
    <2> HIDE DEF rest
    <2>5. Len(rest) \in Nat /\ Len(rest) >= 1 /\ rest \in Numerals /\ DOMAIN rest = 1 .. Len(rest)
        BY <1>3, <2>2, <2>4 DEF Numerals
    <2>6. 1 \in Others(rest) /\ Others(rest) \in SUBSET Nat /\ Others(rest) # {}
        BY <2>4, <2>5
    <2>7. Min(Others(rest)) = 1
        <3>1. \A i \in Others(rest) : i >= 1
            BY <2>5
        <3> HIDE DEF Others
        <3>2. Min(Others(rest)) \in Others(rest) /\ \A i \in Others(rest) : Min(Others(rest)) <= i
            BY <2>6, MinIsLeast
        <3>3. Min(Others(rest)) \in Nat
            BY <2>6, <3>2
        <3> QED
            BY <2>6, <3>1, <3>2, <3>3
    <2>8. SubSeq(rest, 1, Len(rest)) = rest
        BY <2>5 DEF Numerals
    <2>9. N!Significant(rest) = rest
        <3> HIDE DEF Others
        <3> QED
            BY <1>1, <2>6, <2>7, <2>8
    <2> QED
        BY <2>3, <2>5, <2>9
<1> QED
    BY <1>4, <1>5

\* What an import calls a type that a text is read as is read back as that type, and is its
\* own identity.
LEMMA TypeNameReadBack ==
    ASSUME NEW Chars, NEW text \in Seq(Chars), NEW type \in N!ObjectTypeFromText(text)
    PROVE  /\ N!ObjectTypeFromText(N!ObjectTypeName(type)) = {type}
           /\ N!IdentityPart(N!ObjectTypeName(type)) = N!ObjectTypeName(type)
<1>1. CASE type \in DOMAIN MCNameOf
    BY <1>1, NamedReadBack
<1>2. CASE type \notin DOMAIN MCNameOf
    <2>1. \A x : N!NormalizeIdentifier(x) = N!WithoutLowered(x, Dashes)
        BY Zenon DEF N!NormalizeIdentifier, Dashes
    <2>2. type \in N!Parsed(N!NormalizeIdentifier(text))
        BY <1>2, Zenon DEF N!ObjectTypeFromText
    <2>3. \E Letters : N!NormalizeIdentifier(text) \in Seq(Letters)
        BY <2>1, ReadStays
    <2>4. type \in Numerals /\ N!Significant(type) = type /\ Len(type) <= 2
        BY <2>2, <2>3, ParsedSpelled, SignificantSettled
    <2>5. /\ type \in Seq(MCDigits) /\ type # << >> /\ Head(type) \in MCDigits
          /\ \A i \in DOMAIN type : type[i] \in MCDigits
        BY <2>4 DEF Numerals
    <2>6. N!ObjectTypeName(type) = type
        BY <1>2, TypeNames, Zenon
    <2>7. N!NormalizeIdentifier(type) = type
        BY <2>1, <2>5, IgnoredFacts, ReadWhole
    <2>8. N!Parsed(type) = {type}
        <3>1. Head(type) # "+"
            BY <2>5, IgnoredFacts
        <3> QED
            BY <2>4, <2>5, <3>1 DEF N!Parsed
    <2>9. N!ObjectTypeFromText(type) = {type}
        BY <2>7, <2>8, Zenon DEF N!ObjectTypeFromText
    <2>10. N!IdentityPart(type) = type
        <3>1. \A c \in MCDigits : c \notin Blanks /\ Kind(c) = c
            BY Zenon DEF Blanks, Kind, MCDigits, MCLower
        <3> QED
            BY <2>5, <3>1, Settled
    <2> QED
        BY <2>6, <2>9, <2>10
<1> QED
    BY <1>1, <1>2

-----------------------------------------------------------------------------
(* Default topics *)

LEMMA ConcatLonger ==
    ASSUME NEW C, NEW base \in Seq(C), NEW text \in Seq(C), NEW c \in C
    PROVE  base \o Append(text, c) = Append(base \o text, c)
<1> DEFINE u == base \o Append(text, c)
           v == Append(base \o text, c)
<1>1. /\ Append(text, c) \in Seq(C) /\ Len(Append(text, c)) = Len(text) + 1
      /\ Append(text, c)[Len(text) + 1] = c
      /\ \A j \in 1 .. Len(text) : Append(text, c)[j] = text[j]
    BY OneMore
<1>2. /\ base \o text \in Seq(C) /\ Len(base \o text) = Len(base) + Len(text)
      /\ \A j \in 1 .. Len(base) + Len(text) :
           (base \o text)[j] = IF j <= Len(base) THEN base[j] ELSE text[j - Len(base)]
    BY ConcatProperties
<1>3. /\ u \in Seq(C) /\ Len(u) = Len(base) + Len(Append(text, c))
      /\ \A j \in 1 .. Len(base) + Len(Append(text, c)) :
           u[j] = IF j <= Len(base) THEN base[j] ELSE Append(text, c)[j - Len(base)]
    BY <1>1, ConcatProperties
<1>4. /\ v \in Seq(C) /\ Len(v) = Len(base \o text) + 1 /\ v[Len(base \o text) + 1] = c
      /\ \A j \in 1 .. Len(base \o text) : v[j] = (base \o text)[j]
    BY <1>2, OneMore
<1>5. Len(base) \in Nat /\ Len(text) \in Nat
    OBVIOUS
<1> HIDE DEF u, v
<1>6. ASSUME NEW j \in 1 .. Len(v)
      PROVE  u[j] = v[j]
    <2>0. j \in 1 .. Len(base) + Len(text) + 1 /\ j \in Int
          /\ j \in 1 .. Len(base) + Len(Append(text, c))
        BY <1>1, <1>2, <1>4, <1>5
    <2>1. CASE j <= Len(base)
        <3>1. j \in 1 .. Len(base) + Len(text)
            BY <1>5, <2>0, <2>1
        <3>2. v[j] = base[j]
            BY <1>2, <1>4, <2>1, <3>1
        <3>3. u[j] = base[j]
            BY <1>3, <2>0, <2>1
        <3> QED
            BY <3>2, <3>3
    <2>2. CASE j > Len(base) /\ j <= Len(base) + Len(text)
        <3>1. j - Len(base) \in 1 .. Len(text)
            BY <1>5, <2>0, <2>2
        <3>2. u[j] = Append(text, c)[j - Len(base)] /\ v[j] = text[j - Len(base)]
            BY <1>1, <1>2, <1>3, <1>4, <1>5, <2>0, <2>2
        <3> QED
            BY <1>1, <3>1, <3>2
    <2>3. CASE j > Len(base) + Len(text)
        <3>1. j = Len(base) + Len(text) + 1 /\ j - Len(base) = Len(text) + 1
            BY <1>5, <2>0, <2>3
        <3> QED
            BY <1>1, <1>2, <1>3, <1>4, <1>5, <2>0, <3>1
    <2> QED
        BY <1>5, <2>0, <2>1, <2>2, <2>3
<1>7. Len(u) = Len(v)
    BY <1>1, <1>2, <1>3, <1>4, <1>5
<1> QED
    BY <1>3, <1>4, <1>6, <1>7, SameText DEF u, v

LEMMA FirstOnes ==
    ASSUME NEW C, NEW text \in Seq(C), NEW k \in 1 .. Len(text)
    PROVE  /\ SubSeq(text, 1, k - 1) \in Seq(C)
           /\ SubSeq(text, 1, k) = Append(SubSeq(text, 1, k - 1), text[k])
<1> DEFINE before == SubSeq(text, 1, k - 1)
           first == SubSeq(text, 1, k)
           more == Append(before, text[k])
<1>1. Len(text) \in Nat /\ k \in Nat /\ \A j \in 1 .. Len(text) : text[j] \in C
    OBVIOUS
<1>2. ASSUME NEW m \in 0 .. Len(text)
      PROVE  /\ SubSeq(text, 1, m) \in Seq(C) /\ Len(SubSeq(text, 1, m)) = m
             /\ \A j \in 1 .. m : SubSeq(text, 1, m)[j] = text[j]
    <2>1. \A j \in 1 .. m : text[j] \in C
        BY <1>1
    <2>2. /\ SubSeq(text, 1, m) \in Seq(C)
          /\ Len(SubSeq(text, 1, m)) = IF 1 <= m THEN m - 1 + 1 ELSE 0
          /\ \A j \in 1 .. m - 1 + 1 : SubSeq(text, 1, m)[j] = text[1 + j - 1]
        BY <1>1, <2>1, SubSeqProperties
    <2>3. \A j \in 1 .. m : j \in 1 .. m - 1 + 1 /\ 1 + j - 1 = j
        OBVIOUS
    <2> QED
        BY <2>2, <2>3
<1>3. k \in 0 .. Len(text) /\ k - 1 \in 0 .. Len(text) /\ text[k] \in C
    BY <1>1
<1>4. /\ before \in Seq(C) /\ Len(before) = k - 1
      /\ \A j \in 1 .. k - 1 : before[j] = text[j]
    BY <1>2, <1>3
<1>5. first \in Seq(C) /\ Len(first) = k /\ \A j \in 1 .. k : first[j] = text[j]
    BY <1>2, <1>3
<1> HIDE DEF before, first
<1>6. more \in Seq(C) /\ Len(more) = k /\ more[k] = text[k]
      /\ \A j \in 1 .. k - 1 : more[j] = text[j]
    <2>1. /\ more \in Seq(C) /\ Len(more) = Len(before) + 1 /\ more[Len(before) + 1] = text[k]
          /\ \A j \in 1 .. Len(before) : more[j] = before[j]
        BY <1>3, <1>4, OneMore
    <2> HIDE DEF more
    <2> QED
        BY <1>1, <1>4, <2>1
<1> HIDE DEF more
<1>7. \A j \in 1 .. Len(more) : first[j] = more[j]
    BY <1>1, <1>5, <1>6
<1> QED
    BY <1>4, <1>5, <1>6, <1>7, SameText DEF before, first, more

\* No "/" in it.
Unsplit(text) == \A j \in 1 .. Len(text) : text[j] # "/"

\* A text without "/" becomes the last level.
LEMMA LevelRead ==
    ASSUME NEW C, NEW base \in Seq(C), NEW levels \in Seq(Seq(C)),
           N!Levels(base) = Append(levels, << >>), NEW text \in Seq(C), Unsplit(text)
    PROVE  N!Levels(base \o text) = Append(levels, text)
<1> DEFINE first(k) == SubSeq(text, 1, k)
           holds == { k \in 0 .. Len(text) : N!Levels(base \o first(k)) = Append(levels, first(k)) }
<1>1. Len(text) \in Nat /\ \A k \in 1 .. Len(text) : text[k] \in C
    OBVIOUS
<1>2. 0 \in holds
    <2>1. first(0) = << >> /\ base \o << >> = base /\ 0 \in 0 .. Len(text)
        BY <1>1
    <2> HIDE DEF first
    <2>2. N!Levels(base \o first(0)) = Append(levels, first(0))
        BY <2>1, Zenon
    <2> QED
        BY <2>1, <2>2
<1>3. ASSUME NEW k \in 1 .. Len(text), k - 1 \in holds
      PROVE  k \in holds
    <2> DEFINE before == first(k - 1)
               c == text[k]
               open == Append(levels, before)
    <2>1. /\ before \in Seq(C) /\ first(k) = Append(before, c) /\ c \in C /\ c # "/"
          /\ N!Levels(base \o before) = open /\ k \in 0 .. Len(text)
        BY <1>1, <1>3, FirstOnes DEF Unsplit
    <2> HIDE DEF first, before, c
    <2>2. base \o before \in Seq(C) /\ base \o first(k) = Append(base \o before, c)
        <3>1. base \o before \in Seq(C)
            BY <2>1, ConcatProperties
        <3>2. base \o Append(before, c) = Append(base \o before, c)
            BY <2>1, ConcatLonger
        <3> QED
            BY <2>1, <3>1, <3>2
    <2>3. N!Levels(base \o first(k)) = NextLevel(open, c)
        BY <2>1, <2>2, LevelsAppended
    <2>4. NextLevel(open, c) = [open EXCEPT ![Len(open)] = Append(@, c)]
        BY <2>1, Zenon DEF NextLevel
    <2>5. [open EXCEPT ![Len(open)] = Append(@, c)] = Append(levels, Append(before, c))
        <3> DEFINE changed == [open EXCEPT ![Len(open)] = Append(@, c)]
                   longer == Append(before, c)
                   closed == Append(levels, longer)
        <3>1. longer \in Seq(C) /\ Len(levels) \in Nat
            BY <2>1
        <3>2. /\ open \in Seq(Seq(C)) /\ Len(open) = Len(levels) + 1 /\ open[Len(levels) + 1] = before
              /\ \A j \in 1 .. Len(levels) : open[j] = levels[j]
            BY <2>1, OneMore
        <3>3. longer = Append(open[Len(open)], c)
            BY <3>2
        <3> HIDE DEF open
        <3>4. /\ changed \in Seq(Seq(C)) /\ Len(changed) = Len(open) /\ changed[Len(open)] = longer
              /\ \A j \in 1 .. Len(levels) : changed[j] = open[j]
            BY <3>1, <3>2, <3>3
        <3> HIDE DEF longer
        <3>5. /\ closed \in Seq(Seq(C)) /\ Len(closed) = Len(levels) + 1
              /\ closed[Len(levels) + 1] = longer
              /\ \A j \in 1 .. Len(levels) : closed[j] = levels[j]
            BY <3>1, OneMore
        <3> HIDE DEF changed, closed
        <3>6. ASSUME NEW j \in 1 .. Len(closed)
              PROVE  changed[j] = closed[j]
            <4>1. j \in 1 .. Len(levels) \/ j = Len(levels) + 1
                BY <3>1, <3>5
            <4> QED
                BY <3>2, <3>4, <3>5, <4>1
        <3>7. Len(changed) = Len(closed)
            BY <3>2, <3>4, <3>5
        <3>8. changed = closed
            BY <3>4, <3>5, <3>6, <3>7, SameText
        <3> QED
            BY <3>8 DEF changed, closed, longer
    <2> QED
        BY <2>1, <2>3, <2>4, <2>5
<1>4. \A k \in 0 .. Len(text) : k \in holds
    <2> HIDE DEF holds
    <2> QED
        BY <1>1, <1>2, <1>3, InductionTo
<1>5. N!Levels(base \o first(Len(text))) = Append(levels, first(Len(text)))
    <2>1. Len(text) \in holds
        BY <1>1, <1>4
    <2> QED
        BY <2>1
<1>6. first(Len(text)) = text
    OBVIOUS
<1> QED
    BY <1>5, <1>6

LEMMA ThreeLevels ==
    ASSUME NEW C, "/" \in C, NEW a \in Seq(C), NEW b \in Seq(C), NEW c \in Seq(C),
           Unsplit(a), Unsplit(b), Unsplit(c)
    PROVE  N!Levels(a \o <<"/">> \o b \o <<"/">> \o c) = Append(Append(Append(<< >>, a), b), c)
<1> DEFINE none == << >>
           slash == <<"/">>
           one == Append(none, a)
           two == Append(one, b)
<1>1. /\ none \in Seq(C) /\ none \in Seq(Seq(C)) /\ slash \in Seq(C)
      /\ \A x \in Seq(C), y \in Seq(C) : x \o y \in Seq(C)
      /\ \A x \in Seq(C) : none \o x = x
    BY ConcatProperties
<1>2. one \in Seq(Seq(C)) /\ two \in Seq(Seq(C))
    BY <1>1, OneMore
<1>3. \A x \in Seq(C) : N!Levels(x \o slash) = Append(N!Levels(x), none)
    <2> TAKE x \in Seq(C)
    <2>1. x \o slash = Append(x, "/")
        OBVIOUS
    <2>2. N!Levels(Append(x, "/")) = NextLevel(N!Levels(x), "/")
        BY LevelsAppended
    <2> QED
        BY <2>1, <2>2 DEF NextLevel
<1>4. N!Levels(none) = Append(none, none)
    <2>1. N!Levels(none) = LevelsBy(none)[1 .. Len(none)]
          /\ LevelsBy(none)[1 .. 0] = << << >> >>
        BY <1>1, LevelsUnrolled DEF Unrolled
    <2>2. Len(none) = 0 /\ Append(none, none) = << << >> >>
        OBVIOUS
    <2> QED
        BY <2>1, <2>2
<1> HIDE DEF none, slash, one, two
<1>5. N!Levels(a) = one
    <2>1. N!Levels(none) = Append(none, << >>)
        BY <1>4 DEF none
    <2>2. N!Levels(none \o a) = Append(none, a)
        BY <1>1, <2>1, LevelRead
    <2> QED
        BY <1>1, <2>2 DEF one
<1>6. N!Levels(a \o slash \o b) = two
    <2>1. N!Levels(a \o slash) = Append(one, << >>) /\ a \o slash \in Seq(C)
        BY <1>1, <1>3, <1>5 DEF none
    <2> QED
        BY <1>2, <2>1, LevelRead DEF two
<1>7. N!Levels(a \o slash \o b \o slash \o c) = Append(two, c)
    <2>1. a \o slash \o b \in Seq(C)
        BY <1>1
    <2>2. N!Levels(a \o slash \o b \o slash) = Append(two, << >>) /\ a \o slash \o b \o slash \in Seq(C)
        BY <1>1, <1>3, <1>6, <2>1 DEF none
    <2> QED
        BY <1>2, <2>2, LevelRead
<1> QED
    BY <1>7 DEF none, slash, one, two


\* Where the characters of a text with one in the middle are.
Spliced(text, x, c, y) ==
    /\ Len(text) = Len(x) + 1 + Len(y)
    /\ \A j \in 1 .. Len(x) : text[j] = x[j]
    /\ text[Len(x) + 1] = c
    /\ \A j \in 1 .. Len(y) : text[Len(x) + 1 + j] = y[j]

LEMMA Splices ==
    ASSUME NEW C, NEW x \in Seq(C), NEW c \in C, NEW y \in Seq(C)
    PROVE  x \o <<c>> \o y \in Seq(C) /\ Spliced(x \o <<c>> \o y, x, c, y)
<1> DEFINE begun == x \o <<c>>
           text == begun \o y
<1>1. Len(x) \in Nat /\ Len(y) \in Nat
    OBVIOUS
<1>2. /\ begun \in Seq(C) /\ Len(begun) = Len(x) + 1 /\ begun[Len(x) + 1] = c
      /\ \A j \in 1 .. Len(x) : begun[j] = x[j]
    <2>1. begun = Append(x, c)
        OBVIOUS
    <2> HIDE DEF begun
    <2> QED
        BY <2>1, OneMore
<1> HIDE DEF begun
<1>3. /\ text \in Seq(C) /\ Len(text) = Len(begun) + Len(y)
      /\ \A j \in 1 .. Len(begun) + Len(y) :
           text[j] = IF j <= Len(begun) THEN begun[j] ELSE y[j - Len(begun)]
    BY <1>2, ConcatProperties
<1> HIDE DEF text
<1>4. \A j \in 1 .. Len(x) : text[j] = x[j]
    <2> TAKE j \in 1 .. Len(x)
    <2>1. j \in 1 .. Len(begun) + Len(y) /\ j <= Len(begun)
        BY <1>1, <1>2
    <2> QED
        BY <1>2, <1>3, <2>1
<1>5. text[Len(x) + 1] = c
    <2>1. Len(x) + 1 \in 1 .. Len(begun) + Len(y) /\ Len(x) + 1 <= Len(begun)
        BY <1>1, <1>2
    <2> QED
        BY <1>2, <1>3, <2>1
<1>6. \A j \in 1 .. Len(y) : text[Len(x) + 1 + j] = y[j]
    <2> TAKE j \in 1 .. Len(y)
    <2>1. /\ Len(x) + 1 + j \in 1 .. Len(begun) + Len(y) /\ ~(Len(x) + 1 + j <= Len(begun))
          /\ (Len(x) + 1 + j) - Len(begun) = j
        BY <1>1, <1>2
    <2> QED
        BY <1>3, <2>1
<1>7. Len(text) = Len(x) + 1 + Len(y)
    BY <1>1, <1>2, <1>3
<1> QED
    BY <1>3, <1>4, <1>5, <1>6, <1>7 DEF Spliced, text, begun

\* A text is split in one way at the last place where it has a character.
LEMMA LastSplit ==
    ASSUME NEW C, NEW x \in Seq(C), NEW y \in Seq(C), NEW u \in Seq(C), NEW v \in Seq(C), NEW c \in C,
           \A j \in 1 .. Len(y) : y[j] # c, \A j \in 1 .. Len(v) : v[j] # c,
           NEW text, Spliced(text, x, c, y), Spliced(text, u, c, v)
    PROVE  x = u /\ y = v
<1>1. Spliced(text, x, c, y) /\ Spliced(text, u, c, v)
    OBVIOUS
<1>2. Len(x) \in Nat /\ Len(y) \in Nat /\ Len(u) \in Nat /\ Len(v) \in Nat
    OBVIOUS
<1>3. ~(Len(x) < Len(u))
    <2> SUFFICES ASSUME Len(x) < Len(u) PROVE FALSE
        OBVIOUS
    <2>1. /\ Len(u) - Len(x) \in 1 .. Len(y)
          /\ Len(x) + 1 + (Len(u) - Len(x)) = Len(u) + 1
        BY <1>1, <1>2 DEF Spliced
    <2>2. text[Len(u) + 1] = y[Len(u) - Len(x)] /\ text[Len(u) + 1] = c
        BY <1>1, <2>1 DEF Spliced
    <2> QED
        BY <2>1, <2>2
<1>4. ~(Len(u) < Len(x))
    <2> SUFFICES ASSUME Len(u) < Len(x) PROVE FALSE
        OBVIOUS
    <2>1. /\ Len(x) - Len(u) \in 1 .. Len(v)
          /\ Len(u) + 1 + (Len(x) - Len(u)) = Len(x) + 1
        BY <1>1, <1>2 DEF Spliced
    <2>2. text[Len(x) + 1] = v[Len(x) - Len(u)] /\ text[Len(x) + 1] = c
        BY <1>1, <2>1 DEF Spliced
    <2> QED
        BY <2>1, <2>2
<1>5. Len(x) = Len(u) /\ Len(y) = Len(v)
    BY <1>1, <1>2, <1>3, <1>4 DEF Spliced
<1>6. \A j \in 1 .. Len(u) : x[j] = u[j]
    BY <1>1, <1>5 DEF Spliced
<1>7. \A j \in 1 .. Len(v) : y[j] = v[j]
    <2> TAKE j \in 1 .. Len(v)
    <2>1. text[Len(x) + 1 + j] = y[j] /\ text[Len(x) + 1 + j] = v[j]
        BY <1>1, <1>5 DEF Spliced
    <2> QED
        BY <2>1
<1> QED
    BY <1>5, <1>6, <1>7, SameText

\* A text that is read leaves something of a level.
LEMMA ReadLeaves ==
    ASSUME NEW Chars, NEW text \in Seq(Chars), N!ObjectTypeFromText(text) # {}
    PROVE  N!SanitizeSegment(text) # << >>
<1>1. PICK type \in N!ObjectTypeFromText(text) : TRUE
    OBVIOUS
<1>2. Spelled(type, Plain(text))
    BY TypeSpelled
<1>3. Plain(text) # << >>
    <2>1. << >> \notin Numerals /\ <<"a">> # << >> /\ <<"a", "a">> # << >>
        BY DEF Numerals
    <2> QED
        BY <1>2, <2>1 DEF Spelled
<1>4. Plain(N!SanitizeSegment(text)) = Plain(text)
    <2>1. Bar \in Ignored /\ Soft \subseteq Ignored
        BY IgnoredFacts, Zenon
    <2> QED
        BY <2>1, SegmentReadAlike DEF Plain
<1>5. Plain(<< >>) = << >>
    BY NothingRead DEF Plain
<1> QED
    BY <1>3, <1>4, <1>5

\* The points that can be read, by texts of some characters.
ReadOf(Chars) ==
    { point \in PointsOf(Chars) :
        /\ N!ObjectTypeFromText(point.object_type) # {}
        /\ N!ObjectTypeFromText(point.property) # {}
        /\ point.object_instance \in Numerals }

\* A level that is not changed by being sanitized again.
SettledLevels(C) == { text \in Seq(Kept(C)) : Clean(text) }

LEMMA LevelSettled ==
    ASSUME NEW C, NEW text \in SettledLevels(C)
    PROVE  /\ text \in Seq(Kept(C)) /\ Unsplit(text)
           /\ N!SanitizeSegment(text) = text /\ (N!IsBlank(text) <=> text = << >>)
<1>1. text \in Seq(Kept(C)) /\ Clean(text)
    BY DEF SettledLevels
<1>2. "/" \in Soft
    BY Zenon DEF Soft
<1>3. \A j \in 1 .. Len(text) : text[j] \notin Soft
    <2>1. \A j \in 1 .. Len(text) : text[j] \in Kept(C)
        BY <1>1
    <2> QED
        BY <2>1, KeptHarmless
<1>4. Unsplit(text)
    BY <1>2, <1>3 DEF Unsplit
<1> QED
    BY <1>1, <1>4, CleanStays, KeptHarmless

\* The number of an object has nothing that a level does not keep.
LEMMA NumberKept ==
    ASSUME NEW C, NEW number \in Numerals, number \in Seq(C)
    PROVE  /\ number \in Seq(Kept(C)) /\ number # << >>
           /\ \A j \in 1 .. Len(number) : number[j] # Bar
<1>1. \A c \in MCDigits : c \notin Soft /\ c # Bar
    BY IgnoredFacts
<1>2. \A j \in 1 .. Len(number) : number[j] \in C /\ number[j] \in MCDigits
    BY DEF Numerals
<1>3. \A j \in 1 .. Len(number) : number[j] \in Kept(C) /\ number[j] # Bar
    BY <1>1, <1>2 DEF Kept
<1> QED
    BY <1>3 DEF Numerals

LEMMA ObjectSettled ==
    ASSUME NEW C, NEW point \in ReadOf(C)
    PROVE  /\ N!ObjectLevel(point) \in SettledLevels(C) /\ N!ObjectLevel(point) # << >>
           /\ N!ObjectLevel(point)
                = N!SanitizeSegment(point.object_type) \o <<Bar>> \o point.object_instance
<1> DEFINE type == N!SanitizeSegment(point.object_type)
           number == point.object_instance
           level == type \o <<Bar>> \o number
<1>1. /\ point.object_type \in Seq(C) /\ number \in Seq(C) /\ number \in Numerals
      /\ N!ObjectTypeFromText(point.object_type) # {}
    BY DEF ReadOf, PointsOf
<1>2. type \in Seq(Kept(C)) /\ Clean(type) /\ type # << >>
    BY <1>1, SegmentClean, ReadLeaves
<1>3. /\ number \in Seq(Kept(C)) /\ number # << >>
      /\ \A j \in 1 .. Len(number) : number[j] # Bar
    BY <1>1, NumberKept
<1>4. N!ObjectLevel(point) = level
    BY Zenon DEF N!ObjectLevel, Bar
<1> HIDE DEF type, number
<1>5. Bar \in Kept(C)
    BY KeptHarmless
<1>6. level \in Seq(Kept(C)) /\ Spliced(level, type, Bar, number)
    BY <1>2, <1>3, <1>5, Splices
<1> HIDE DEF level
<1>7. /\ Len(type) \in Nat /\ Len(type) >= 1 /\ Len(number) \in Nat /\ Len(number) >= 1
      /\ Len(level) = Len(type) + 1 + Len(number)
    BY <1>2, <1>3, <1>6 DEF Spliced
<1>8. SingleBars(level)
    <2> SUFFICES ASSUME NEW j \in 1 .. Len(level) - 1
                 PROVE  ~(level[j] = Bar /\ level[j + 1] = Bar)
        BY DEF SingleBars
    <2>1. CASE j < Len(type)
        <3>1. /\ j \in 1 .. Len(type) - 1 /\ j \in 1 .. Len(type) /\ j + 1 \in 1 .. Len(type)
            BY <1>7, <2>1
        <3>2. level[j] = type[j] /\ level[j + 1] = type[j + 1]
            BY <1>6, <3>1 DEF Spliced
        <3> QED
            BY <1>2, <3>1, <3>2 DEF Clean, SingleBars
    <2>2. CASE j = Len(type)
        <3>1. Len(type) \in 1 .. Len(type)
            BY <1>7
        <3>2. level[j] = type[Len(type)]
            BY <1>6, <2>2, <3>1 DEF Spliced
        <3> QED
            BY <1>2, <3>2 DEF Clean
    <2>3. CASE j > Len(type)
        <3>1. j - Len(type) \in 1 .. Len(number) /\ j + 1 = Len(type) + 1 + (j - Len(type))
            BY <1>7, <2>3
        <3>2. level[j + 1] = number[j - Len(type)]
            BY <1>6, <3>1 DEF Spliced
        <3> QED
            BY <1>3, <3>1, <3>2
    <2> QED
        BY <1>7, <2>1, <2>2, <2>3
<1>9. level[1] # Bar /\ level[Len(level)] # Bar
    <2>1. 1 \in 1 .. Len(type) /\ Len(number) \in 1 .. Len(number)
        BY <1>7
    <2>2. level[1] = type[1] /\ level[Len(level)] = number[Len(number)]
        BY <1>6, <1>7, <2>1 DEF Spliced
    <2> QED
        BY <1>2, <1>3, <2>1, <2>2 DEF Clean
<1>10. level # << >>
    BY <1>7
<1> QED
    BY <1>4, <1>6, <1>8, <1>9, <1>10 DEF SettledLevels, Clean, level, type, number

\* The levels of a default topic, below those of the prefix.
LEMMA DefaultLevels ==
    ASSUME NEW C, Bar \in C, "d" \in C, NEW point \in ReadOf(C)
    PROVE  /\ N!DeviceLevel(point) \in SettledLevels(C)
           /\ N!SanitizeSegment(point.property) \in SettledLevels(C)
           /\ N!SanitizeSegment(point.property) # << >>
<1>1. /\ point.device_label \in Seq(C) /\ point.device_instance \in Seq(C)
      /\ point.property \in Seq(C) /\ N!ObjectTypeFromText(point.property) # {}
    BY DEF ReadOf, PointsOf
<1>2. \A text \in Seq(C) : N!SanitizeSegment(text) \in SettledLevels(C)
    BY SegmentClean DEF SettledLevels
<1>3. <<"d", Bar>> \in Seq(C)
    BY ShortTexts, Zenon
<1>4. <<"d", Bar>> \o point.device_instance \in Seq(C)
    BY <1>1, <1>3, ConcatProperties, Zenon
<1>5. N!DeviceLevel(point) \in SettledLevels(C)
    BY <1>1, <1>2, <1>4, Zenon DEF N!DeviceLevel, Bar
<1> QED
    BY <1>1, <1>2, <1>5, ReadLeaves

\* What is above the level of a device, and with that level unless nothing is left of it.
Above(prefix) == N!Sanitized(N!Levels(N!NormalizePrefix(prefix)))
ToDevice(prefix, device) == IF device = << >> THEN Above(prefix) ELSE Append(Above(prefix), device)

LEMMA AboveStays ==
    ASSUME NEW C, "/" \in C, Bar \in C, NEW prefix \in Seq(C), NEW device \in Seq(C)
    PROVE  /\ N!NormalizePrefix(prefix) \in Seq(C) /\ N!Levels(N!NormalizePrefix(prefix)) \in Seq(Seq(C))
           /\ Above(prefix) \in Seq(Seq(C)) /\ ToDevice(prefix, device) \in Seq(Seq(C))
<1>1. Harmless(C) \subseteq C
    BY Zenon DEF Harmless, Bar
<1>2. Seq(Harmless(C)) \subseteq Seq(C)
    BY <1>1, SeqMonotonic
<1>3. Seq(Seq(Harmless(C))) \subseteq Seq(Seq(C))
    BY <1>2, SeqMonotonic
<1>4. N!NormalizePrefix(prefix) \in Seq(C)
    BY <1>2, PrefixHarmless
<1>5. N!Levels(N!NormalizePrefix(prefix)) \in Seq(Seq(C))
    BY <1>4, LevelsStay DEF LevelLists
<1>6. Above(prefix) \in Seq(Seq(C))
    BY <1>3, <1>5, SanitizedHarmless DEF Above
<1>7. Append(Above(prefix), device) \in Seq(Seq(C))
    BY <1>6, OneMore
<1> QED
    BY <1>4, <1>5, <1>6, <1>7 DEF ToDevice

\* A default topic has the levels that are settled, in their order.
LEMMA DefaultTopic ==
    ASSUME NEW C, "/" \in C, Bar \in C, "d" \in C, NEW prefix \in Seq(C), NEW point \in ReadOf(C),
           N!IsBlank(point.tag_path)
    PROVE  N!TelemetryTopic(prefix, point)
             = N!Joined(Append(Append(ToDevice(prefix, N!DeviceLevel(point)), N!ObjectLevel(point)),
                               N!SanitizeSegment(point.property)))
<1> DEFINE a == N!DeviceLevel(point)
           b == N!ObjectLevel(point)
           c == N!SanitizeSegment(point.property)
           prior == N!Levels(N!NormalizePrefix(prefix))
           none == << >>
           three == Append(Append(Append(none, a), b), c)
           one == Append(prior, a)
           two == Append(one, b)
<1>1. a \in SettledLevels(C) /\ b \in SettledLevels(C) /\ c \in SettledLevels(C)
      /\ b # << >> /\ c # << >>
    BY DefaultLevels, ObjectSettled
<1>2. N!TelemetryTopic(prefix, point)
        = N!Joined(N!Sanitized(prior \o N!Levels(a \o <<"/">> \o b \o <<"/">> \o c)))
    BY Zenon DEF N!TelemetryTopic, N!JoinTopic, N!DefaultTagPath
<1> HIDE DEF a, b, c
<1>3. Kept(C) \subseteq C
    BY DEF Kept
<1>4. Seq(Kept(C)) \subseteq Seq(C)
    BY <1>3, SeqMonotonic
<1>5. /\ a \in Seq(C) /\ b \in Seq(C) /\ c \in Seq(C)
      /\ Unsplit(a) /\ Unsplit(b) /\ Unsplit(c)
      /\ N!SanitizeSegment(a) = a /\ N!SanitizeSegment(b) = b /\ N!SanitizeSegment(c) = c
      /\ (N!IsBlank(a) <=> a = << >>) /\ ~N!IsBlank(b) /\ ~N!IsBlank(c)
    BY <1>1, <1>4, LevelSettled
<1>6. prior \in Seq(Seq(C))
    BY AboveStays
<1>7. N!Levels(a \o <<"/">> \o b \o <<"/">> \o c) = three
    <2>1. \A x \in Seq(C), y \in Seq(C), z \in Seq(C) : Unsplit(x) /\ Unsplit(y) /\ Unsplit(z) =>
            N!Levels(x \o <<"/">> \o y \o <<"/">> \o z) = Append(Append(Append(<< >>, x), y), z)
        BY ThreeLevels
    <2> QED
        BY <1>5, <2>1, Zenon
<1> HIDE DEF prior
<1>8. prior \o three = Append(two, c)
    <2> DEFINE first == Append(none, a)
               second == Append(first, b)
               S == Seq(C)
    <2>0. a \in S /\ b \in S /\ c \in S /\ prior \in Seq(S)
        BY <1>5, <1>6
    <2> HIDE DEF S
    <2>1. none \in Seq(S) /\ prior \o none = prior
        BY <2>0
    <2> HIDE DEF none
    <2>2. first \in Seq(S) /\ second \in Seq(S)
        BY <2>0, <2>1, OneMore
    <2>3. prior \o first = Append(prior \o none, a)
        BY <2>0, <2>1, ConcatLonger
    <2> HIDE DEF first
    <2>4. prior \o second = Append(prior \o first, b)
        BY <2>0, <2>2, ConcatLonger
    <2> HIDE DEF second
    <2>5. prior \o Append(second, c) = Append(prior \o second, c)
        BY <2>0, <2>2, ConcatLonger
    <2> QED
        BY <2>1, <2>3, <2>4, <2>5 DEF first, second
<1> HIDE DEF three
<1>9. one \in Seq(Seq(C)) /\ two \in Seq(Seq(C))
    BY <1>5, <1>6, OneMore
<1>10. N!Sanitized(one) = ToDevice(prefix, a)
    <2>1. N!Sanitized(one) = NextKept(N!Sanitized(prior), a)
        BY <1>5, <1>6, SanitizedAppended
    <2> QED
        BY <1>5, <2>1 DEF NextKept, ToDevice, Above, prior
<1> HIDE DEF one
<1>11. N!Sanitized(two) = Append(ToDevice(prefix, a), b)
    <2>1. N!Sanitized(two) = NextKept(N!Sanitized(one), b)
        BY <1>5, <1>9, SanitizedAppended
    <2> QED
        BY <1>5, <1>10, <2>1 DEF NextKept
<1> HIDE DEF two
<1>12. N!Sanitized(Append(two, c)) = Append(Append(ToDevice(prefix, a), b), c)
    <2>1. N!Sanitized(Append(two, c)) = NextKept(N!Sanitized(two), c)
        BY <1>5, <1>9, SanitizedAppended
    <2> QED
        BY <1>5, <1>11, <2>1 DEF NextKept
<1> QED
    BY <1>2, <1>7, <1>8, <1>12 DEF a, b, c

\* One level more, and the rest, are told apart in what is joined.
LEMMA JoinedApart ==
    ASSUME NEW C, "/" \in C, NEW above \in Seq(Seq(C)), NEW others \in Seq(Seq(C)),
           NEW level \in Seq(C), NEW other \in Seq(C), Unsplit(level), Unsplit(other),
           N!Joined(Append(above, level)) = N!Joined(Append(others, other))
    PROVE  /\ level = other /\ (above = << >> <=> others = << >>)
           /\ N!Joined(above) = N!Joined(others)
<1>1. /\ N!Joined(Append(above, level)) = IF above = << >> THEN level ELSE NextText(N!Joined(above), level)
      /\ N!Joined(Append(others, other)) = IF others = << >> THEN other ELSE NextText(N!Joined(others), other)
    BY JoinedAppended
<1>2. N!Joined(above) \in Seq(C) /\ N!Joined(others) \in Seq(C)
    BY JoinedStays
<1>3. \A text \in Seq(C), x \in Seq(C), y \in Seq(C) : Unsplit(text) => text # NextText(x, y)
    <2> TAKE text \in Seq(C), x \in Seq(C), y \in Seq(C)
    <2> DEFINE joined == NextText(x, y)
    <2>1. Spliced(joined, x, "/", y)
        BY Splices DEF NextText
    <2> HIDE DEF joined
    <2>2. Len(x) \in Nat /\ Len(y) \in Nat
        OBVIOUS
    <2>3. Len(x) + 1 \in 1 .. Len(joined) /\ joined[Len(x) + 1] = "/"
        BY <2>1, <2>2 DEF Spliced
    <2> QED
        BY <2>3 DEF Unsplit, joined
<1>4. CASE above = << >> /\ others = << >>
    BY <1>1, <1>4
<1>5. CASE above # << >> /\ others # << >>
    <2> DEFINE x == N!Joined(above)
               u == N!Joined(others)
               slash == "/"
               text == x \o <<slash>> \o level
    <2>1. text = u \o <<slash>> \o other
        BY <1>1, <1>5, Zenon DEF NextText
    <2>2. /\ x \in Seq(C) /\ u \in Seq(C) /\ slash \in C
          /\ \A j \in 1 .. Len(level) : level[j] # slash
          /\ \A j \in 1 .. Len(other) : other[j] # slash
        BY <1>2 DEF Unsplit
    <2> HIDE DEF x, u, slash
    <2>3. Spliced(text, x, slash, level) /\ Spliced(text, u, slash, other)
        BY <2>1, <2>2, Splices
    <2> HIDE DEF text
    <2>4. x = u /\ level = other
        BY <2>2, <2>3, LastSplit
    <2> QED
        BY <1>5, <2>4 DEF x, u
<1>6. ~(above = << >> /\ others # << >>)
    <2> SUFFICES ASSUME above = << >>, others # << >> PROVE FALSE
        OBVIOUS
    <2>1. level = NextText(N!Joined(others), other)
        BY <1>1
    <2> QED
        BY <1>2, <1>3, <2>1
<1>7. ~(above # << >> /\ others = << >>)
    <2> SUFFICES ASSUME above # << >>, others = << >> PROVE FALSE
        OBVIOUS
    <2>1. other = NextText(N!Joined(above), level)
        BY <1>1
    <2> QED
        BY <1>2, <1>3, <2>1
<1> QED
    BY <1>4, <1>5, <1>6, <1>7

\* A longer text is not the shorter one.
LEMMA JoinedLonger ==
    ASSUME NEW C, "/" \in C, NEW above \in Seq(Seq(C)), NEW level \in Seq(C), above # << >>
    PROVE  N!Joined(Append(above, level)) # N!Joined(above)
<1> DEFINE x == N!Joined(above)
           joined == NextText(x, level)
<1>1. N!Joined(Append(above, level)) = joined
    BY JoinedAppended
<1>2. x \in Seq(C)
    BY JoinedStays
<1> HIDE DEF x
<1>3. Spliced(joined, x, "/", level)
    BY <1>2, Splices DEF NextText
<1> HIDE DEF joined
<1>4. Len(x) \in Nat /\ Len(level) \in Nat
    BY <1>2
<1>5. Len(joined) # Len(x)
    BY <1>3, <1>4 DEF Spliced
<1> QED
    BY <1>1, <1>5 DEF x

LEMMA OneLevelMore ==
    ASSUME NEW S, NEW levels \in Seq(S), NEW level
    PROVE  Append(levels, level) # << >>
<1> DEFINE more == Append(levels, level)
<1>1. Len(more) = Len(levels) + 1 /\ Len(levels) \in Nat /\ Len(<< >>) = 0
    OBVIOUS
<1> HIDE DEF more
<1>2. more # << >>
    BY <1>1
<1> QED
    BY <1>2 DEF more

\* The device of a joined text is told by it, below one prefix.
LEMMA DevicesApart ==
    ASSUME NEW C, "/" \in C, Bar \in C, NEW prefix \in Seq(C), NEW a \in Seq(C), NEW other \in Seq(C),
           Unsplit(a), Unsplit(other),
           ToDevice(prefix, a) = << >> <=> ToDevice(prefix, other) = << >>,
           N!Joined(ToDevice(prefix, a)) = N!Joined(ToDevice(prefix, other))
    PROVE  a = other
<1> DEFINE above == Above(prefix)
<1>1. above \in Seq(Seq(C))
    BY AboveStays
<1>2. /\ ToDevice(prefix, a) = IF a = << >> THEN above ELSE Append(above, a)
      /\ ToDevice(prefix, other) = IF other = << >> THEN above ELSE Append(above, other)
    BY DEF ToDevice
<1> HIDE DEF above
<1>3. Append(above, a) # << >> /\ Append(above, other) # << >>
    <2>1. \A x \in Seq(C) : Append(above, x) # << >>
        BY <1>1, OneLevelMore
    <2> QED
        BY <2>1
<1>4. CASE a # << >> /\ other # << >>
    <2>1. N!Joined(Append(above, a)) = N!Joined(Append(above, other))
        BY <1>2, <1>4
    <2>2. \A x \in Seq(C), y \in Seq(C) : Unsplit(x) /\ Unsplit(y)
            /\ N!Joined(Append(above, x)) = N!Joined(Append(above, y)) => x = y
        BY <1>1, JoinedApart
    <2> QED
        BY <2>1, <2>2
<1>5. CASE a = << >> /\ other # << >>
    <2>1. above # << >> /\ N!Joined(Append(above, other)) = N!Joined(above)
        BY <1>2, <1>3, <1>5
    <2> QED
        BY <1>1, <2>1, JoinedLonger
<1>6. CASE a # << >> /\ other = << >>
    <2>1. above # << >> /\ N!Joined(Append(above, a)) = N!Joined(above)
        BY <1>2, <1>3, <1>6
    <2> QED
        BY <1>1, <2>1, JoinedLonger
<1> QED
    BY <1>4, <1>5, <1>6

\* A text whose last character is not a blank is not blank.
LEMMA NotBlank ==
    ASSUME NEW C, NEW text \in Seq(C), text # << >>, text[Len(text)] \notin Blanks
    PROVE  ~N!IsBlank(text)
<1>1. N!IsBlank(text) <=> N!Trimmed(text, Blanks) = << >>
    BY Zenon DEF N!IsBlank, Blanks
<1>2. PICK a \in Nat, n \in Nat :
              /\ a + n <= Len(text)
              /\ Len(N!Trimmed(text, Blanks)) = n
              /\ \A j \in 1 .. a : text[j] \in Blanks
              /\ \A j \in a + n + 1 .. Len(text) : text[j] \in Blanks
    BY TrimmedShape
<1>3. Len(text) \in Nat /\ Len(text) >= 1
    OBVIOUS
<1>4. n # 0
    <2> SUFFICES ASSUME n = 0 PROVE FALSE
        OBVIOUS
    <2>1. Len(text) \in 1 .. a \/ Len(text) \in a + n + 1 .. Len(text)
        BY <1>2, <1>3
    <2> QED
        BY <1>2, <2>1
<1> QED
    BY <1>1, <1>2, <1>4

\* Default topics are told apart by all but the device behind a label: points of one topic,
\* below one prefix, have labels that give one level, the same type, number of the object
\* and property.  A default topic can be published to.  So it is for texts of any
\* characters and any length that can be read.
THEOREM DefaultTopicsApart ==
    ASSUME NEW C, "/" \in C, Bar \in C, "d" \in C, NEW prefix \in Seq(C),
           NEW p \in ReadOf(C), N!IsBlank(p.tag_path)
    PROVE  /\ N!ValidatePublishTopic(N!TelemetryTopic(prefix, p)) = "Ok"
           /\ \A q \in ReadOf(C) :
                N!IsBlank(q.tag_path) /\ N!TelemetryTopic(prefix, q) = N!TelemetryTopic(prefix, p) =>
                  /\ N!DeviceLevel(q) = N!DeviceLevel(p)
                  /\ N!ObjectTypeFromText(q.object_type) = N!ObjectTypeFromText(p.object_type)
                  /\ q.object_instance = p.object_instance
                  /\ N!ObjectTypeFromText(q.property) = N!ObjectTypeFromText(p.property)
<1> DEFINE last(point) == N!SanitizeSegment(point.property)
           device(point) == ToDevice(prefix, N!DeviceLevel(point))
           object(point) == Append(device(point), N!ObjectLevel(point))
<1>1. Seq(Kept(C)) \subseteq Seq(C)
    <2>1. Kept(C) \subseteq C
        BY DEF Kept
    <2> QED
        BY <2>1, SeqMonotonic
<1>2. ASSUME NEW point \in ReadOf(C)
      PROVE  /\ N!DeviceLevel(point) \in Seq(C) /\ Unsplit(N!DeviceLevel(point))
             /\ N!ObjectLevel(point) \in Seq(C) /\ Unsplit(N!ObjectLevel(point))
             /\ last(point) \in Seq(C) /\ Unsplit(last(point))
             /\ last(point) \in Seq(Kept(C)) /\ last(point) # << >>
             /\ device(point) \in Seq(Seq(C)) /\ object(point) \in Seq(Seq(C))
    <2>1. /\ N!DeviceLevel(point) \in SettledLevels(C) /\ N!ObjectLevel(point) \in SettledLevels(C)
          /\ last(point) \in SettledLevels(C) /\ last(point) # << >>
        BY DefaultLevels, ObjectSettled
    <2> HIDE DEF last
    <2>2. /\ N!DeviceLevel(point) \in Seq(C) /\ Unsplit(N!DeviceLevel(point))
          /\ N!ObjectLevel(point) \in Seq(C) /\ Unsplit(N!ObjectLevel(point))
          /\ last(point) \in Seq(C) /\ Unsplit(last(point)) /\ last(point) \in Seq(Kept(C))
        BY <1>1, <2>1, LevelSettled
    <2>3. device(point) \in Seq(Seq(C))
        BY <2>2, AboveStays
    <2> HIDE DEF device
    <2>4. object(point) \in Seq(Seq(C))
        BY <2>2, <2>3, OneMore
    <2> QED
        BY <2>1, <2>2, <2>3, <2>4
<1>3. ASSUME NEW point \in ReadOf(C), N!IsBlank(point.tag_path)
      PROVE  N!TelemetryTopic(prefix, point) = N!Joined(Append(object(point), last(point)))
    BY <1>3, DefaultTopic
<1> HIDE DEF last, device, object
<1>4. N!ValidatePublishTopic(N!TelemetryTopic(prefix, p)) = "Ok"
    <2> DEFINE topic == N!TelemetryTopic(prefix, p)
               before == N!Joined(object(p))
    <2>1. p \in PointsOf(C)
        BY DEF ReadOf
    <2>2. N!ValidatePublishTopic(topic) # "Wildcard"
        BY <2>1, TopicHasNoWildcard
    <2>3. topic = NextText(before, last(p)) /\ before \in Seq(C)
        <3>1. object(p) # << >>
            <4>1. device(p) \in Seq(Seq(C))
                BY <1>2
            <4> QED
                BY <4>1, OneLevelMore DEF object
        <3>2. N!Joined(Append(object(p), last(p))) = NextText(N!Joined(object(p)), last(p))
            BY <1>2, <3>1, JoinedAppended
        <3> QED
            BY <1>2, <1>3, <3>2, JoinedStays
    <2> HIDE DEF topic, before
    <2>4. topic \in Seq(C) /\ Spliced(topic, before, "/", last(p))
        BY <1>2, <2>3, Splices DEF NextText
    <2> DEFINE end == last(p)
    <2>5. /\ end \in Seq(Kept(C)) /\ end # << >> /\ before \in Seq(C)
          /\ topic \in Seq(C) /\ Spliced(topic, before, "/", end)
        BY <1>2, <2>3, <2>4
    <2> HIDE DEF end
    <2>51. Len(before) \in Nat /\ Len(end) \in 1 .. Len(end) /\ Len(end) \in Nat
        BY <2>5
    <2>6. topic[Len(topic)] = end[Len(end)] /\ topic # << >>
        <3>1. Len(topic) = Len(before) + 1 + Len(end) /\ topic[Len(before) + 1 + Len(end)] = end[Len(end)]
            BY <2>5, <2>51 DEF Spliced
        <3>2. Len(topic) # 0
            BY <2>51, <3>1
        <3> QED
            BY <3>1, <3>2
    <2>7. end[Len(end)] \notin Blanks
        <3>1. \A c : c \in Blanks => c \in Soft
            BY Zenon DEF Blanks, Soft
        <3>2. end[Len(end)] \in Kept(C)
            BY <2>5, <2>51
        <3> QED
            BY <3>1, <3>2, KeptHarmless
    <2>8. ~N!IsBlank(topic)
        BY <2>4, <2>6, <2>7, NotBlank
    <2>9. N!ValidatePublishTopic(topic) = "Ok"
        BY <2>2, <2>8, Zenon DEF N!ValidatePublishTopic
    <2> QED
        BY <2>9 DEF topic
<1>5. ASSUME NEW q \in ReadOf(C), N!IsBlank(q.tag_path),
             N!TelemetryTopic(prefix, q) = N!TelemetryTopic(prefix, p)
      PROVE  /\ N!DeviceLevel(q) = N!DeviceLevel(p)
             /\ N!ObjectTypeFromText(q.object_type) = N!ObjectTypeFromText(p.object_type)
             /\ q.object_instance = p.object_instance
             /\ N!ObjectTypeFromText(q.property) = N!ObjectTypeFromText(p.property)
    <2>1. N!Joined(Append(object(q), last(q))) = N!Joined(Append(object(p), last(p)))
        BY <1>3, <1>5
    <2>2. last(q) = last(p) /\ N!Joined(object(q)) = N!Joined(object(p))
        <3>1. object(q) \in Seq(Seq(C)) /\ object(p) \in Seq(Seq(C))
            BY <1>2
        <3>2. last(q) \in Seq(C) /\ last(p) \in Seq(C) /\ Unsplit(last(q)) /\ Unsplit(last(p))
            BY <1>2
        <3> QED
            BY <2>1, <3>1, <3>2, JoinedApart
    <2>3. /\ N!ObjectLevel(q) = N!ObjectLevel(p)
          /\ (device(q) = << >> <=> device(p) = << >>)
          /\ N!Joined(device(q)) = N!Joined(device(p))
        <3>1. N!Joined(Append(device(q), N!ObjectLevel(q))) = N!Joined(Append(device(p), N!ObjectLevel(p)))
            BY <2>2 DEF object
        <3>2. device(q) \in Seq(Seq(C)) /\ device(p) \in Seq(Seq(C))
            BY <1>2
        <3>3. /\ N!ObjectLevel(q) \in Seq(C) /\ N!ObjectLevel(p) \in Seq(C)
              /\ Unsplit(N!ObjectLevel(q)) /\ Unsplit(N!ObjectLevel(p))
            BY <1>2
        <3> QED
            BY <3>1, <3>2, <3>3, JoinedApart
    <2>4. N!DeviceLevel(q) = N!DeviceLevel(p)
        <3>1. /\ (ToDevice(prefix, N!DeviceLevel(q)) = << >> <=> ToDevice(prefix, N!DeviceLevel(p)) = << >>)
              /\ N!Joined(ToDevice(prefix, N!DeviceLevel(q))) = N!Joined(ToDevice(prefix, N!DeviceLevel(p)))
            BY <2>3 DEF device
        <3> QED
            BY <1>2, <3>1, DevicesApart
    <2>5. N!SanitizeSegment(q.object_type) = N!SanitizeSegment(p.object_type)
          /\ q.object_instance = p.object_instance
        <3> DEFINE type(point) == N!SanitizeSegment(point.object_type)
        <3>1. \A point \in ReadOf(C) :
                /\ N!ObjectLevel(point) = type(point) \o <<Bar>> \o point.object_instance
                /\ type(point) \in Seq(Kept(C)) /\ point.object_instance \in Seq(Kept(C))
                /\ \A j \in 1 .. Len(point.object_instance) : point.object_instance[j] # Bar
            <4> TAKE point \in ReadOf(C)
            <4>1. /\ point.object_type \in Seq(C) /\ point.object_instance \in Seq(C)
                  /\ point.object_instance \in Numerals
                BY DEF ReadOf, PointsOf
            <4> QED
                BY <4>1, ObjectSettled, NumberKept, SegmentClean
        <3> HIDE DEF type
        <3>2. type(q) \o <<Bar>> \o q.object_instance = type(p) \o <<Bar>> \o p.object_instance
            BY <2>3, <3>1
        <3>3. type(q) = type(p) /\ q.object_instance = p.object_instance
            <4> DEFINE x == type(q)
                       y == q.object_instance
                       u == type(p)
                       v == p.object_instance
                       K == Kept(C)
                       text == x \o <<Bar>> \o y
            <4>1. /\ x \in Seq(K) /\ u \in Seq(K) /\ y \in Seq(K) /\ v \in Seq(K) /\ Bar \in K
                  /\ \A j \in 1 .. Len(y) : y[j] # Bar
                  /\ \A j \in 1 .. Len(v) : v[j] # Bar
                BY <3>1, KeptHarmless
            <4>2. text = u \o <<Bar>> \o v
                BY <3>2
            <4> HIDE DEF x, y, u, v, K
            <4>3. Spliced(text, x, Bar, y) /\ Spliced(text, u, Bar, v)
                BY <4>1, <4>2, Splices
            <4> HIDE DEF text
            <4>4. x = u /\ y = v
                BY <4>1, <4>3, LastSplit
            <4> QED
                BY <4>4 DEF x, y, u, v
        <3> QED
            BY <3>3 DEF type
    <2>6. \A point \in ReadOf(C) :
            /\ point.object_type \in Seq(C) /\ N!ObjectTypeFromText(point.object_type) # {}
            /\ point.property \in Seq(C) /\ N!ObjectTypeFromText(point.property) # {}
        BY DEF ReadOf, PointsOf
    <2>7. N!ObjectTypeFromText(q.object_type) = N!ObjectTypeFromText(p.object_type)
        BY <2>5, <2>6, SameLevelReadAlike
    <2>8. N!ObjectTypeFromText(q.property) = N!ObjectTypeFromText(p.property)
        BY <2>2, <2>6, SameLevelReadAlike DEF last
    <2> QED
        BY <2>4, <2>5, <2>7, <2>8
<1> QED
    BY <1>4, <1>5

\* The characters of the names that are computed.
Letters11 == Characters9 \cup {"#", "d"}

LEMMA NamesAreTexts ==
    ASSUME NEW C, C = Letters11
    PROVE  /\ Texts \subseteq Seq(C) /\ SomePrefixes \subseteq Seq(C)
           /\ << >> \in Seq(C) /\ <<"1">> \in Seq(C) /\ <<"1", "0">> \in Seq(C)
           /\ <<"#">> \in Seq(C) /\ <<"a">> \in Seq(C)
           /\ "/" \in C /\ Bar \in C /\ "d" \in C
<1>1. {"a", "A", Bar, "/", "+", "0", "1", "#", "d"} \subseteq C /\ Characters9 \subseteq C
    BY Zenon DEF Letters11, Characters9, Bar
<1>2. ASSUME NEW text \in Texts
      PROVE  text \in Seq(C)
    <2>1. PICK m \in 0 .. MaxText : text \in [1 .. m -> Characters9]
        BY Zenon DEF Texts, BoundedSeq, SeqOf
    <2>2. text \in [1 .. m -> C]
        BY <1>1, <2>1
    <2> QED
        BY <2>2
<1>3. "a" \in C /\ "/" \in C /\ "+" \in C /\ "#" \in C /\ "1" \in C /\ "0" \in C /\ "d" \in C /\ Bar \in C
    BY <1>1, Zenon
<1>4. /\ << >> \in Seq(C) /\ <<"a">> \in Seq(C) /\ <<"+">> \in Seq(C) /\ <<"1">> \in Seq(C)
      /\ <<"#">> \in Seq(C) /\ <<"1", "0">> \in Seq(C)
    BY <1>3, ShortTexts, Zenon
<1>5. <<"/", "a", "/", "+">> \in Seq(C)
    BY <1>3, ShortTexts, Zenon
<1>6. <<"a", "/", "#">> \in Seq(C)
    BY <1>3, ShortTexts, Zenon
<1>7. SomePrefixes \subseteq Seq(C)
    BY <1>4, <1>5, <1>6, Zenon DEF SomePrefixes
<1> QED
    BY <1>2, <1>3, <1>4, <1>7

\* The points whose default topics are compared can be read.
LEMMA PointsAreRead ==
    ASSUME NEW C, C = Letters11, NEW point \in ReadPoints
    PROVE  /\ point \in ReadOf(C) /\ N!IsBlank(point.tag_path)
           /\ point.object_type \in Texts /\ point.property \in Texts
<1>1. /\ point.tag_path = << >> /\ point.device_label \in {<< >>, <<"#">>, <<"a">>}
      /\ point.device_instance = <<"1">> /\ point.object_type \in Read
      /\ point.object_instance \in {<<"1">>, <<"1", "0">>} /\ point.property \in Read
      /\ DOMAIN point = {"tag_path", "device_label", "device_instance", "object_type",
                         "object_instance", "property"}
      /\ point = [tag_path |-> point.tag_path, device_label |-> point.device_label,
                  device_instance |-> point.device_instance, object_type |-> point.object_type,
                  object_instance |-> point.object_instance, property |-> point.property]
    BY DEF ReadPoints
<1>2. \A text \in Read : text \in Texts /\ N!ObjectTypeFromText(text) # {}
    BY DEF Read, Types
<1>3. point \in PointsOf(C)
    <2>1. /\ point.tag_path \in Seq(C) /\ point.device_label \in Seq(C)
          /\ point.device_instance \in Seq(C) /\ point.object_instance \in Seq(C)
        BY <1>1, NamesAreTexts, Zenon
    <2>2. point.object_type \in Seq(C) /\ point.property \in Seq(C)
        BY <1>1, <1>2, NamesAreTexts, Zenon
    <2> QED
        BY <1>1, <2>1, <2>2 DEF PointsOf
<1>4. point.object_instance \in Numerals
    <2>1. "1" \in MCDigits /\ "0" \in MCDigits
        BY Zenon DEF MCDigits
    <2>2. <<"1">> \in Seq(MCDigits) /\ <<"1", "0">> \in Seq(MCDigits)
        BY <2>1, ShortTexts, Zenon
    <2>3. <<"1">> # << >> /\ <<"1", "0">> # << >>
        OBVIOUS
    <2> QED
        BY <1>1, <2>2, <2>3, Zenon DEF Numerals
<1>5. N!IsBlank(point.tag_path)
    <2>1. N!Trimmed(<< >>, Blanks) = << >>
        <3> DEFINE none == << >>
        <3>1. none \in Seq({}) /\ ~(none # << >>)
            OBVIOUS
        <3> HIDE DEF none
        <3>2. N!Trimmed(none, Blanks) = none
            BY <3>1, TrimmedWhole
        <3> QED
            BY <3>2 DEF none
    <2> QED
        BY <1>1, <2>1, Zenon DEF N!IsBlank, Blanks
<1> QED
    BY <1>1, <1>2, <1>3, <1>4, <1>5 DEF ReadOf

\* The names that are computed are those of texts, and what is made of them.
NameInv ==
    /\ input.of = "name" => input.text \in Texts
    /\ Computed("name") => /\ result.identity = N!IdentityPart(input.text)
                           /\ result.level = N!SanitizeSegment(input.text)
                           /\ result.types = N!ObjectTypeFromText(input.text)

LEMMA NamesComputed == AlgorithmSpec => []NameInv
<1>1. AlgorithmInit => NameInv
    BY DEF AlgorithmInit, NameInv, Computed, NotYet, MergeInputs, NameInputs, ScalarInputs
<1>2. NameInv /\ [AlgorithmNext]_algorithm => NameInv'
    <2> SUFFICES ASSUME NameInv, [AlgorithmNext]_algorithm
                 PROVE  NameInv'
        OBVIOUS
    <2>1. CASE ReadName /\ UNCHANGED input
        BY <2>1 DEF ReadName, NameInv, Computed, result
    <2>2. CASE (MergePoints \/ Decode) /\ UNCHANGED input
        BY <2>2 DEF MergePoints, Decode, NameInv, Computed
    <2>3. CASE UNCHANGED algorithm
        BY <2>3 DEF algorithm, NameInv, Computed, result
    <2> QED
        BY <2>1, <2>2, <2>3 DEF AlgorithmNext
<1> QED
    BY <1>1, <1>2, PTL DEF AlgorithmSpec

\* PointIdentity makes one of two spellings of a type only if object_type_from_text does,
\* however long the texts are.
THEOREM IdentitiesSound == AlgorithmSpec => []IdentitiesReadAlike
<1>1. NameInv => IdentitiesReadAlike
    <2> SUFFICES ASSUME NameInv, Computed("name"), NEW t \in Texts, Identity[t] = result.identity
                 PROVE  Types[t] = result.types
        BY DEF IdentitiesReadAlike
    <2>1. input.text \in Texts
        BY DEF NameInv, Computed
    <2>2. N!IdentityPart(t) = N!IdentityPart(input.text)
        BY DEF NameInv, Identity
    <2> DEFINE C == Letters11
    <2>3. Texts \subseteq Seq(C)
        BY NamesAreTexts
    <2> HIDE DEF C
    <2>4. N!ObjectTypeFromText(t) = N!ObjectTypeFromText(input.text)
        BY <2>1, <2>2, <2>3, SameIdentityReadAlike
    <2> QED
        BY <2>4 DEF NameInv, Types
<1> QED
    BY <1>1, NamesComputed, PTL

\* No topic of a point contains a wildcard, however long the texts of the point are.
THEOREM TopicsPlain == AlgorithmSpec => []NoTopicHasWildcard
<1>1. NameInv => NoTopicHasWildcard
    <2> DEFINE own == [tag_path |-> input.text, device_label |-> input.text,
                       device_instance |-> <<"1">>, object_type |-> input.text,
                       object_instance |-> <<"1">>, property |-> input.text]
    <2> SUFFICES ASSUME NameInv, Computed("name"), NEW prefix \in SomePrefixes
                 PROVE  N!ValidatePublishTopic(N!TelemetryTopic(prefix, own)) # "Wildcard"
        BY DEF NoTopicHasWildcard
    <2>1. input.text \in Texts
        BY DEF NameInv, Computed
    <2> DEFINE C == Letters11
    <2>2. prefix \in Seq(C) /\ input.text \in Seq(C) /\ <<"1">> \in Seq(C)
        BY <2>1, NamesAreTexts
    <2> HIDE DEF C
    <2>3. own \in PointsOf(C)
        BY <2>2 DEF PointsOf
    <2> HIDE DEF own
    <2> QED
        BY <2>2, <2>3, TopicHasNoWildcard
<1> QED
    BY <1>1, NamesComputed, PTL

\* No text is read as two types, however long it is, and the names an import gives to the
\* types are read back and are their own identity.
LEMMA TypesSound == NameInv => TypesToldApart
<1> SUFFICES ASSUME NameInv, Computed("name")
             PROVE  TypesToldApart
    BY DEF TypesToldApart
<1> DEFINE C == Letters11
           types == N!ObjectTypeFromText(input.text)
<1>1. input.text \in Seq(C) /\ result.types = types
    <2>1. input.text \in Texts /\ result.types = types
        BY DEF NameInv, Computed
    <2> QED
        BY <2>1, NamesAreTexts
<1> HIDE DEF C
<1>2. Cardinality(types) <= 1
    <2>1. CASE types = {}
        BY <2>1, FS_EmptySet
    <2>2. CASE types # {}
        <3>1. PICK type : types = {type}
            BY <1>1, <2>2, OneType
        <3> HIDE DEF types
        <3>2. Cardinality(types) = 1
            BY <3>1, FS_Singleton, Zenon
        <3> QED
            BY <3>2
    <2> QED
        BY <2>1, <2>2
<1>3. ASSUME NEW type \in types
      PROVE  /\ N!ObjectTypeFromText(N!ObjectTypeName(type)) = {type}
             /\ N!IdentityPart(N!ObjectTypeName(type)) = N!ObjectTypeName(type)
    BY <1>1, <1>3, TypeNameReadBack
<1> HIDE DEF types
<1> QED
    BY <1>1, <1>2, <1>3 DEF TypesToldApart

LEMMA TopicsSound == NameInv => TopicsToldApart
<1> SUFFICES ASSUME NameInv, Computed("name"), NEW prefix \in SomePrefixes,
                    NEW p \in Published[prefix], p.point.object_type = input.text
             PROVE  /\ N!ValidatePublishTopic(p.topic) = "Ok"
                    /\ \A q \in Published[prefix] : q.topic = p.topic =>
                          /\ N!DeviceLevel(q.point) = N!DeviceLevel(p.point)
                          /\ Types[q.point.object_type] = result.types
                          /\ q.point.object_instance = p.point.object_instance
                          /\ Types[q.point.property] = Types[p.point.property]
    BY DEF TopicsToldApart
<1> DEFINE C == Letters11
<1>1. prefix \in Seq(C) /\ "/" \in C /\ Bar \in C /\ "d" \in C
    BY NamesAreTexts
<1>2. ASSUME NEW q \in Published[prefix]
      PROVE  /\ q.topic = N!TelemetryTopic(prefix, q.point)
             /\ q.point \in ReadOf(C) /\ N!IsBlank(q.point.tag_path)
             /\ Types[q.point.object_type] = N!ObjectTypeFromText(q.point.object_type)
             /\ Types[q.point.property] = N!ObjectTypeFromText(q.point.property)
    <2>1. q.point \in ReadPoints /\ q.topic = N!TelemetryTopic(prefix, q.point)
        BY DEF Published
    <2>2. /\ q.point \in ReadOf(C) /\ N!IsBlank(q.point.tag_path)
          /\ q.point.object_type \in Texts /\ q.point.property \in Texts
        BY <2>1, PointsAreRead
    <2> QED
        BY <2>1, <2>2 DEF Types
<1> HIDE DEF C
<1>3. result.types = N!ObjectTypeFromText(p.point.object_type)
    BY DEF NameInv
<1>4. /\ N!ValidatePublishTopic(N!TelemetryTopic(prefix, p.point)) = "Ok"
      /\ \A point \in ReadOf(C) :
           N!IsBlank(point.tag_path)
             /\ N!TelemetryTopic(prefix, point) = N!TelemetryTopic(prefix, p.point) =>
               /\ N!DeviceLevel(point) = N!DeviceLevel(p.point)
               /\ N!ObjectTypeFromText(point.object_type) = N!ObjectTypeFromText(p.point.object_type)
               /\ point.object_instance = p.point.object_instance
               /\ N!ObjectTypeFromText(point.property) = N!ObjectTypeFromText(p.point.property)
    <2>1. p.point \in ReadOf(C) /\ N!IsBlank(p.point.tag_path)
        BY <1>2
    <2> QED
        BY <1>1, <2>1, DefaultTopicsApart
<1> QED
    BY <1>2, <1>3, <1>4

\* Texts name what is read of a device, however long they are: the two theorems above, with
\* types that are told apart and read back, and default topics told apart by all but the
\* device behind a label.  This is all that the runs check of names.
THEOREM NamesToldApart == AlgorithmSpec => []NamesSound
<1>1. NameInv => TypesToldApart /\ TopicsToldApart
    BY TypesSound, TopicsSound
<1>2. AlgorithmSpec => [](TypesToldApart /\ TopicsToldApart)
    BY <1>1, NamesComputed, PTL
<1> QED
    BY <1>2, IdentitiesSound, TopicsPlain, PTL DEF NamesSound

-----------------------------------------------------------------------------
(* Numbers *)

\* The values of a byte.
Byte == 0 .. Base - 1

LEMMA HalfTheBytes ==
    /\ Base \in Nat \ {0} /\ Word \in Nat \ {0}
    /\ Base \div 2 \in Nat \ {0} /\ Base = 2 * (Base \div 2)
BY ScalarsAssumption

\* The powers of the base, from the n-th down.
IsPower(power, n) ==
    /\ power \in [0 .. n -> Nat \ {0}]
    /\ power[0] = 1
    /\ \A k \in 1 .. n : power[k] = Base * power[k - 1]

LEMMA Powers == IsPower(Power, Word)
<1> DEFINE holds == { n \in 0 .. Word : \E power : IsPower(power, n) }
           Over(power) == power = [n \in 0 .. Word |-> IF n = 0 THEN 1 ELSE Base * power[n - 1]]
<1>1. Word \in Nat /\ Base \in Nat \ {0}
    BY HalfTheBytes
<1>2. 0 \in holds
    <2> DEFINE power == [k \in 0 .. 0 |-> 1]
    <2>1. IsPower(power, 0)
        BY DEF IsPower
    <2> QED
        BY <1>1, <2>1
<1>3. ASSUME NEW n \in 1 .. Word, n - 1 \in holds
      PROVE  n \in holds
    <2>1. PICK power : IsPower(power, n - 1)
        BY <1>3
    <2>2. n \in 0 .. Word /\ n \in Nat /\ n - 1 \in 0 .. n - 1
        BY <1>1
    <2> DEFINE more == [k \in 0 .. n |-> IF k = n THEN Base * power[n - 1] ELSE power[k]]
    <2>3. Base * power[n - 1] \in Nat \ {0}
        <3>1. power[n - 1] \in Nat \ {0}
            BY <2>1, <2>2 DEF IsPower
        <3> QED
            BY <1>1, <3>1
    <2>4. \A k \in 0 .. n : more[k] \in Nat \ {0}
        BY <2>1, <2>2, <2>3 DEF IsPower
    <2>5. more[0] = 1
        BY <2>1, <2>2 DEF IsPower
    <2>6. \A k \in 1 .. n : more[k] = Base * more[k - 1]
        <3> TAKE k \in 1 .. n
        <3>1. k \in 0 .. n /\ k - 1 \in 0 .. n - 1 /\ k - 1 \in 0 .. n /\ k - 1 # n
            BY <2>2
        <3>2. more[k - 1] = power[k - 1]
            BY <3>1
        <3>3. CASE k = n
            BY <3>1, <3>2, <3>3
        <3>4. CASE k # n
            <4>1. k \in 1 .. n - 1
                BY <2>2, <3>4
            <4> QED
                BY <2>1, <3>1, <3>2, <3>4, <4>1 DEF IsPower
        <3> QED
            BY <3>3, <3>4
    <2>7. IsPower(more, n)
        <3>1. more \in [0 .. n -> Nat \ {0}]
            BY <2>4
        <3> HIDE DEF more
        <3> QED
            BY <2>5, <2>6, <3>1 DEF IsPower
    <2> HIDE DEF more
    <2> QED
        BY <2>2, <2>7
<1>4. \A n \in 0 .. Word : n \in holds
    <2> HIDE DEF holds
    <2> QED
        BY <1>1, <1>2, <1>3, InductionTo
<1>5. PICK power : IsPower(power, Word)
    <2>1. Word \in 0 .. Word
        BY <1>1
    <2> QED
        BY <1>4, <2>1
<1>6. Over(power)
    <2>1. power = [n \in 0 .. Word |-> power[n]]
        BY <1>5 DEF IsPower
    <2>2. \A n \in 0 .. Word : n # 0 => n \in 1 .. Word
        BY <1>1
    <2> QED
        BY <1>5, <2>1, <2>2 DEF IsPower
<1>7. Over(Power)
    <2>1. Power = CHOOSE p : Over(p)
        BY DEF Power
    <2> HIDE DEF Over
    <2> QED
        BY <1>6, <2>1
<1>8. /\ DOMAIN Power = 0 .. Word /\ Power[0] = 1
      /\ \A n \in 1 .. Word : Power[n] = Base * Power[n - 1]
    <2>1. \A n \in 0 .. Word : Power[n] = IF n = 0 THEN 1 ELSE Base * Power[n - 1]
        BY <1>7
    <2>2. 0 \in 0 .. Word /\ \A n \in 1 .. Word : n \in 0 .. Word /\ n # 0
        BY <1>1
    <2> QED
        BY <1>7, <2>1, <2>2
<1> DEFINE positive == { n \in 0 .. Word : Power[n] \in Nat \ {0} }
<1>9. \A n \in 0 .. Word : n \in positive
    <2>1. 0 \in positive
        BY <1>1, <1>8
    <2>2. ASSUME NEW n \in 1 .. Word, n - 1 \in positive
          PROVE  n \in positive
        <3>1. n \in 0 .. Word /\ Power[n - 1] \in Nat \ {0} /\ Power[n] = Base * Power[n - 1]
            BY <1>1, <1>8, <2>2
        <3> QED
            BY <1>1, <3>1
    <2> HIDE DEF positive
    <2> QED
        BY <1>1, <2>1, <2>2, InductionTo
<1>10. Power \in [0 .. Word -> Nat \ {0}]
    BY <1>7, <1>8, <1>9
<1> QED
    BY <1>8, <1>10 DEF IsPower

LEMMA ProductsOrdered ==
    ASSUME NEW a \in Int, NEW b \in Int, NEW c \in Nat, a <= b
    PROVE  a * c <= b * c
<1>1. (b - a) * c >= 0
    OBVIOUS
<1>2. (b - a) * c = b * c - a * c
    OBVIOUS
<1> QED
    BY <1>1, <1>2

LEMMA PowersGrow ==
    ASSUME NEW n \in 0 .. Word, NEW m \in 0 .. n
    PROVE  Power[m] <= Power[n]
<1> DEFINE holds == { k \in 0 .. Word : m <= k => Power[m] <= Power[k] }
<1>1. Word \in Nat /\ Base \in Nat \ {0} /\ \A k \in 0 .. Word : Power[k] \in Nat \ {0}
    BY HalfTheBytes, Powers DEF IsPower
<1>2. 0 \in holds
    <2>1. m <= 0 => m = 0
        OBVIOUS
    <2> QED
        BY <1>1, <2>1
<1>3. ASSUME NEW k \in 1 .. Word, k - 1 \in holds
      PROVE  k \in holds
    <2>1. k \in 0 .. Word /\ k - 1 \in 0 .. Word
        BY <1>1
    <2>2. Power[k] = Base * Power[k - 1]
        BY Powers DEF IsPower
    <2>3. Power[k - 1] <= Power[k]
        <3>1. \A a \in Nat \ {0}, b \in Nat \ {0} : b <= a * b
            <4> TAKE a \in Nat \ {0}, b \in Nat \ {0}
            <4>1. 1 * b <= a * b
                BY ProductsOrdered
            <4> QED
                BY <4>1
        <3> QED
            BY <1>1, <2>1, <2>2, <3>1
    <2>4. m <= k => m = k \/ m <= k - 1
        BY <2>1
    <2>5. m \in 0 .. Word /\ Power[m] \in Nat
        BY <1>1
    <2>6. Power[k] \in Nat /\ Power[k - 1] \in Nat
        BY <1>1, <2>1
    <2> QED
        BY <1>3, <2>1, <2>3, <2>4, <2>5, <2>6
<1>4. \A k \in 0 .. Word : k \in holds
    <2> HIDE DEF holds
    <2> QED
        BY <1>1, <1>2, <1>3, InductionTo
<1> QED
    BY <1>4

\* What fits into the word stays as it is.
LEMMA FitsTheWord ==
    /\ Span \in Nat \ {0}
    /\ \A n \in Int, low \in Int : Wrapped(n, low) \in Int
    /\ \A n \in Int, low \in Int : low <= n /\ n < low + Span => Wrapped(n, low) = n
<1>1. Span \in Nat \ {0}
    BY HalfTheBytes, Powers DEF Span, IsPower
<1> HIDE DEF Span
<1>2. ASSUME NEW n \in Int, NEW low \in Int
      PROVE  Wrapped(n, low) \in Int
    <2>1. (n - low) % Span \in Int
        BY <1>1
    <2> QED
        BY <2>1 DEF Wrapped
<1>3. ASSUME NEW n \in Int, NEW low \in Int, low <= n, n < low + Span
      PROVE  Wrapped(n, low) = n
    <2>1. n - low \in 0 .. Span - 1
        BY <1>1, <1>3
    <2>2. \A d \in 0 .. Span - 1 : d % Span = d
        BY <1>1
    <2> QED
        BY <1>3, <2>1, <2>2 DEF Wrapped
<1> QED
    BY <1>1, <1>2, <1>3

\* Decoded, of the first k bytes.
DecodesOver(iter, start, low, bytes) ==
    iter = [s \in SUBSET DOMAIN bytes |->
              IF s = {} THEN start ELSE Wrapped(iter[s \ {Max(s)}] * Base + bytes[Max(s)], low)]

DecodedTo(start, low, bytes, k) == (CHOOSE iter : DecodesOver(iter, start, low, bytes))[1 .. k]

LEMMA DecodedUnrolled ==
    ASSUME NEW start \in Int, NEW low \in Int, NEW bytes \in Seq(Byte)
    PROVE  /\ Decoded(start, low, bytes) = DecodedTo(start, low, bytes, Len(bytes))
           /\ DecodedTo(start, low, bytes, 0) = start
           /\ \A k \in 1 .. Len(bytes) :
                /\ DecodedTo(start, low, bytes, k - 1) \in Int
                /\ DecodedTo(start, low, bytes, k)
                     = Wrapped(DecodedTo(start, low, bytes, k - 1) * Base + bytes[k], low)
           /\ \A k \in 0 .. Len(bytes) : DecodedTo(start, low, bytes, k) \in Int
<1> DEFINE step == [at \in Int \X Byte |-> Wrapped(at[1] * Base + at[2], low)]
           chosen == CHOOSE iter : DecodesOver(iter, start, low, bytes)
<1>1. Len(bytes) \in Nat /\ DOMAIN bytes = 1 .. Len(bytes)
    OBVIOUS
<1>2. Decoded(start, low, bytes) = chosen[DOMAIN bytes]
    BY DEF Decoded, FoldLeft, MapThenFoldSet, Max, DecodesOver
<1>3. step \in [Int \X Byte -> Int]
    <2>1. \A value \in Int, byte \in Byte : value * Base + byte \in Int
        BY HalfTheBytes DEF Byte
    <2> QED
        BY <2>1, FitsTheWord
<1>4. \A value \in Int, byte \in Byte : step[<<value, byte>>] = Wrapped(value * Base + byte, low)
    OBVIOUS
<1> HIDE DEF step
<1>5. PICK iter : TakesSteps(iter, Int, Byte, start, step, bytes)
    BY <1>3, FoldOver
<1>6. DecodesOver(iter, start, low, bytes)
    <2>1. \A s \in SUBSET DOMAIN bytes : s # {} =>
            iter[s] = Wrapped(iter[s \ {Max(s)}] * Base + bytes[Max(s)], low)
        BY <1>4, <1>5 DEF TakesSteps
    <2> QED
        BY <1>5, <2>1 DEF TakesSteps, DecodesOver
<1>7. DecodesOver(chosen, start, low, bytes)
    BY <1>6
<1> HIDE DEF chosen
<1>8. \A s \in SUBSET DOMAIN bytes :
        chosen[s] = IF s = {} THEN start
                    ELSE Wrapped(chosen[s \ {Max(s)}] * Base + bytes[Max(s)], low)
    BY <1>7 DEF DecodesOver
<1>9. StepsOver(chosen, Int, start, step, bytes)
    <2>1. \A s \in SUBSET DOMAIN bytes :
            s # {} /\ chosen[s \ {Max(s)}] \in Int =>
               chosen[s] = step[<<chosen[s \ {Max(s)}], bytes[Max(s)]>>]
        <3> TAKE s \in SUBSET DOMAIN bytes
        <3>1. s # {} => bytes[Max(s)] \in Byte
            BY <1>5 DEF TakesSteps
        <3> QED
            BY <1>4, <1>8, <3>1
    <2> QED
        BY <1>8, <2>1 DEF StepsOver
<1>10. Unrolled(chosen, Int, start, step, bytes)
    BY <1>3, <1>9, FoldUnrolled
<1>11. \A k \in 1 .. Len(bytes) : bytes[k] \in Byte
    OBVIOUS
<1> QED
    BY <1>1, <1>2, <1>4, <1>10, <1>11 DEF DecodedTo, chosen, Unrolled

\* Total, of the first k bytes.
Positions(bytes) == [i \in DOMAIN bytes |-> i]

TotalsOver(iter, bytes) ==
    iter = [s \in SUBSET DOMAIN Positions(bytes) |->
              IF s = {} THEN 0 ELSE iter[s \ {Max(s)}] + Weight(bytes, Positions(bytes)[Max(s)])]

TotalTo(bytes, k) == (CHOOSE iter : TotalsOver(iter, bytes))[1 .. k]

LEMMA TotalUnrolled ==
    ASSUME NEW bytes \in Seq(Byte), Len(bytes) <= Word
    PROVE  /\ Total(bytes) = TotalTo(bytes, Len(bytes))
           /\ TotalTo(bytes, 0) = 0
           /\ \A k \in 1 .. Len(bytes) :
                TotalTo(bytes, k) = TotalTo(bytes, k - 1) + bytes[k] * Power[Len(bytes) - k]
           /\ \A k \in 0 .. Len(bytes) : TotalTo(bytes, k) \in Int
<1> DEFINE places == 1 .. Len(bytes)
           step == [at \in Int \X places |-> at[1] + Weight(bytes, at[2])]
           chosen == CHOOSE iter : TotalsOver(iter, bytes)
           list == Positions(bytes)
<1>1. Len(bytes) \in Nat /\ DOMAIN bytes = places /\ \A i \in places : bytes[i] \in Byte
    OBVIOUS
<1>2. Total(bytes) = chosen[DOMAIN list]
    BY DEF Total, FoldLeft, MapThenFoldSet, Max, TotalsOver, Positions
<1>3. \A i \in places : Weight(bytes, i) \in Int
    <2> TAKE i \in places
    <2>1. Len(bytes) - i \in 0 .. Word
        BY <1>1, HalfTheBytes
    <2>2. Power[Len(bytes) - i] \in Nat
        BY <2>1, Powers DEF IsPower
    <2>3. bytes[i] \in Nat
        BY <1>1, HalfTheBytes DEF Byte
    <2> QED
        BY <2>2, <2>3 DEF Weight
<1>4. step \in [Int \X places -> Int]
    <2>1. \A sum \in Int, i \in places : sum + Weight(bytes, i) \in Int
        BY <1>3
    <2> HIDE DEF places
    <2> QED
        BY <2>1
<1>5. \A sum \in Int, i \in places : step[<<sum, i>>] = sum + Weight(bytes, i)
    OBVIOUS
<1>6. /\ list \in Seq(places) /\ DOMAIN list = places /\ Len(list) = Len(bytes)
      /\ \A i \in places : list[i] = i
    BY <1>1 DEF Positions
<1> HIDE DEF step, list, places
<1>0. 0 \in Int
    OBVIOUS
<1>7. PICK iter : TakesSteps(iter, Int, places, 0, step, list)
    BY <1>0, <1>4, <1>6, FoldOver
<1>8. TotalsOver(iter, bytes)
    <2>1. \A s \in SUBSET DOMAIN list : s # {} =>
            iter[s] = iter[s \ {Max(s)}] + Weight(bytes, list[Max(s)])
        BY <1>5, <1>7 DEF TakesSteps
    <2> QED
        BY <1>7, <2>1 DEF TakesSteps, TotalsOver, list
<1>9. TotalsOver(chosen, bytes)
    BY <1>8
<1> HIDE DEF chosen
<1>10. \A s \in SUBSET DOMAIN list :
        chosen[s] = IF s = {} THEN 0
                    ELSE chosen[s \ {Max(s)}] + Weight(bytes, list[Max(s)])
    BY <1>9 DEF TotalsOver, list
<1>11. StepsOver(chosen, Int, 0, step, list)
    <2>1. \A s \in SUBSET DOMAIN list :
            s # {} /\ chosen[s \ {Max(s)}] \in Int =>
               chosen[s] = step[<<chosen[s \ {Max(s)}], list[Max(s)]>>]
        <3> TAKE s \in SUBSET DOMAIN list
        <3>1. s # {} => list[Max(s)] \in places
            BY <1>7 DEF TakesSteps
        <3> QED
            BY <1>5, <1>10, <3>1
    <2> QED
        BY <1>10, <2>1 DEF StepsOver
<1>12. Unrolled(chosen, Int, 0, step, list)
    BY <1>0, <1>4, <1>6, <1>11, FoldUnrolled
<1>13. \A k \in 1 .. Len(bytes) :
         chosen[1 .. k] = chosen[1 .. k - 1] + bytes[k] * Power[Len(bytes) - k]
    <2> TAKE k \in 1 .. Len(bytes)
    <2>1. k \in places /\ list[k] = k /\ chosen[1 .. k - 1] \in Int
        BY <1>6, <1>12 DEF places, Unrolled
    <2>2. chosen[1 .. k] = step[<<chosen[1 .. k - 1], list[k]>>]
        BY <1>6, <1>12 DEF Unrolled
    <2> QED
        BY <1>5, <2>1, <2>2 DEF Weight
<1> QED
    BY <1>1, <1>2, <1>6, <1>12, <1>13 DEF TotalTo, chosen, places, Unrolled

\* While no step leaves the word, what is decoded is the sum of the bytes' weights and
\* of what it starts from, shifted by as many bytes.
Exact(start, low, bytes) ==
    \A k \in 1 .. Len(bytes) :
       DecodedTo(start, low, bytes, k) = DecodedTo(start, low, bytes, k - 1) * Base + bytes[k]

LEMMA DecodedSum ==
    ASSUME NEW start \in Int, NEW low \in Int, NEW bytes \in Seq(Byte), Len(bytes) <= Word,
           Exact(start, low, bytes)
    PROVE  Decoded(start, low, bytes) = start * Power[Len(bytes)] + Total(bytes)
<1> DEFINE n == Len(bytes)
           D(k) == DecodedTo(start, low, bytes, k)
           S(k) == TotalTo(bytes, k)
           holds == { k \in 0 .. n : D(k) * Power[n - k] = start * Power[n] + S(k) }
<1>1. n \in 0 .. Word /\ n \in Nat /\ Word \in Nat /\ Base \in Nat
    BY HalfTheBytes
<1>2. /\ Decoded(start, low, bytes) = D(n) /\ D(0) = start
      /\ \A k \in 0 .. n : D(k) \in Int
    BY DecodedUnrolled
<1>3. /\ Total(bytes) = S(n) /\ S(0) = 0
      /\ \A k \in 1 .. n : S(k) = S(k - 1) + bytes[k] * Power[n - k]
      /\ \A k \in 0 .. n : S(k) \in Int
    BY TotalUnrolled
<1>4. \A k \in 1 .. n : D(k) = D(k - 1) * Base + bytes[k]
    BY DEF Exact
<1>5. \A k \in 0 .. n : Power[n - k] \in Int
    <2> TAKE k \in 0 .. n
    <2>1. n - k \in 0 .. Word
        BY <1>1
    <2> QED
        BY <2>1, Powers DEF IsPower
<1>6. \A k \in 1 .. n : bytes[k] \in Int
    BY HalfTheBytes DEF Byte
<1> HIDE DEF D, S, n
<1>7. 0 \in holds
    <2>1. n - 0 = n /\ 0 \in 0 .. n
        BY <1>1
    <2> QED
        BY <1>2, <1>3, <1>5, <2>1
<1>8. ASSUME NEW k \in 1 .. n, k - 1 \in holds
      PROVE  k \in holds
    <2>1. k \in 0 .. n /\ k - 1 \in 0 .. n /\ n - (k - 1) \in 1 .. Word /\ (n - (k - 1)) - 1 = n - k
        BY <1>1
    <2>2. Power[n - (k - 1)] = Base * Power[n - k]
        BY <2>1, Powers DEF IsPower
    <2>3. D(k - 1) * (Base * Power[n - k]) = start * Power[n] + S(k - 1)
        BY <1>8, <2>2
    <2> DEFINE d == D(k - 1)
               p == Power[n - k]
               b == bytes[k]
               shifted == start * Power[n]
               sum == S(k - 1)
    <2>4. D(k) = d * Base + b /\ S(k) = sum + b * p /\ d * (Base * p) = shifted + sum
        BY <1>3, <1>4, <2>3
    <2>5. d \in Int /\ b \in Int /\ p \in Int /\ sum \in Int /\ shifted \in Int /\ Base \in Int
        <3>1. n - 0 = n /\ 0 \in 0 .. n
            BY <1>1
        <3>2. Power[n] \in Int
            BY <1>5, <3>1
        <3>3. shifted \in Int
            BY <3>2
        <3> HIDE DEF shifted
        <3> QED
            BY <1>1, <1>2, <1>3, <1>5, <1>6, <2>1, <3>3
    <2> HIDE DEF d, p, b, shifted, sum
    <2>6. (d * Base + b) * p = d * (Base * p) + b * p
        <3>1. (d * Base) * p = d * (Base * p)
            BY <2>5
        <3>2. (d * Base + b) * p = (d * Base) * p + b * p
            BY <2>5
        <3> QED
            BY <3>1, <3>2
    <2>7. (shifted + sum) + b * p = shifted + (sum + b * p)
        <3>1. b * p \in Int
            BY <2>5
        <3> QED
            BY <2>5, <3>1
    <2>8. D(k) * p = shifted + S(k)
        BY <2>4, <2>6, <2>7
    <2> QED
        BY <2>1, <2>8 DEF p, shifted
<1>9. \A k \in 0 .. n : k \in holds
    <2> HIDE DEF holds
    <2> QED
        BY <1>1, <1>7, <1>8, InductionTo
<1>10. D(n) * Power[n - n] = start * Power[n] + S(n)
    <2>1. n \in 0 .. n
        BY <1>1
    <2> QED
        BY <1>9, <2>1
<1>11. n - n = 0 /\ Power[0] = 1 /\ D(n) \in Int
    <2>1. n \in 0 .. n
        BY <1>1
    <2> QED
        BY <1>1, <1>2, <2>1, Powers DEF IsPower
<1> QED
    BY <1>2, <1>3, <1>10, <1>11 DEF n

\* Unsigned numbers: k bytes are less than the k-th power, so that a word holds them.
LEMMA UnsignedRange ==
    ASSUME NEW bytes \in Seq(Byte), Len(bytes) <= Word
    PROVE  Exact(0, 0, bytes)
<1> DEFINE n == Len(bytes)
           D(k) == DecodedTo(0, 0, bytes, k)
           small == { k \in 0 .. n : 0 <= D(k) /\ D(k) < Power[k] }
<1>1. n \in 0 .. Word /\ n \in Nat /\ Word \in Nat /\ Base \in Nat \ {0}
    BY HalfTheBytes
<1>2. /\ D(0) = 0
      /\ \A k \in 1 .. n : D(k) = Wrapped(D(k - 1) * Base + bytes[k], 0)
      /\ \A k \in 0 .. n : D(k) \in Int
    <2>1. 0 \in Int
        OBVIOUS
    <2> QED
        BY <2>1, DecodedUnrolled
<1>3. \A k \in 1 .. n : bytes[k] \in 0 .. Base - 1
    <2>1. \A k \in 1 .. n : bytes[k] \in Byte
        OBVIOUS
    <2> QED
        BY <2>1 DEF Byte
<1> HIDE DEF D, n
<1>4. ASSUME NEW k \in 1 .. n, k - 1 \in small
      PROVE  /\ D(k) = D(k - 1) * Base + bytes[k]
             /\ k \in small
    <2>1. k \in 0 .. n /\ k - 1 \in 0 .. n /\ k \in 1 .. Word /\ k \in 0 .. Word /\ k - 1 \in 0 .. Word
        BY <1>1
    <2>2. /\ Power[k] = Base * Power[k - 1] /\ Power[k] \in Nat /\ Power[k - 1] \in Nat
          /\ Power[k] <= Span
        <3>1. Word \in 0 .. Word /\ k \in 0 .. Word
            BY <1>1, <2>1
        <3>2. Power[k] <= Power[Word]
            BY <3>1, PowersGrow
        <3> QED
            BY <2>1, <3>2, Powers DEF IsPower, Span
    <2>3. D(k - 1) \in Int /\ 0 <= D(k - 1) /\ D(k - 1) + 1 <= Power[k - 1] /\ bytes[k] \in 0 .. Base - 1
        BY <1>2, <1>3, <1>4, <2>1, <2>2
    <2> DEFINE more == D(k - 1) * Base + bytes[k]
    <2>4. more \in Int /\ 0 <= more /\ more < Power[k]
        <3>1. (D(k - 1) + 1) * Base <= Power[k - 1] * Base
            BY <1>1, <2>2, <2>3, ProductsOrdered
        <3>2. (D(k - 1) + 1) * Base = D(k - 1) * Base + Base
            BY <1>1, <2>3
        <3>3. Power[k - 1] * Base = Power[k]
            BY <1>1, <2>2
        <3>4. 0 <= D(k - 1) * Base /\ D(k - 1) * Base \in Int
            BY <1>1, <2>3
        <3>5. \A a \in Int, b \in Int, c \in Int, d \in Int :
                0 <= a /\ a + c <= d /\ b \in 0 .. c - 1 =>
                   a + b \in Int /\ 0 <= a + b /\ a + b < d
            OBVIOUS
        <3>6. D(k - 1) * Base + Base <= Power[k]
            BY <3>1, <3>2, <3>3
        <3>7. bytes[k] \in Int /\ Power[k] \in Int /\ Base \in Int
            BY <1>1, <2>2, <2>3
        <3> QED
            BY <2>3, <3>4, <3>5, <3>6, <3>7
    <2>5. Wrapped(more, 0) = more
        <3> HIDE DEF more
        <3>1. Span \in Nat
            BY FitsTheWord
        <3>2. more < 0 + Span /\ 0 \in Int
            BY <2>2, <2>4, <3>1
        <3> QED
            BY <2>4, <3>2, FitsTheWord
    <2> QED
        BY <1>2, <2>1, <2>4, <2>5
<1>5. 0 \in small
    BY <1>1, <1>2, Powers DEF IsPower
<1>6. \A k \in 0 .. n : k \in small
    <2> HIDE DEF small
    <2> QED
        BY <1>1, <1>4, <1>5, InductionTo
<1>7. \A k \in 1 .. n : D(k) = D(k - 1) * Base + bytes[k]
    <2> TAKE k \in 1 .. n
    <2>1. k - 1 \in 0 .. n
        BY <1>1
    <2> QED
        BY <1>4, <1>6, <2>1
<1> QED
    BY <1>7 DEF Exact, D, n

\* Signed numbers: half the span lies on each side of zero.
Half == Base \div 2

LEMMA HalfTheSpan ==
    /\ Half \in Nat \ {0} /\ Base = 2 * Half
    /\ Half * Power[Word - 1] \in Nat
    /\ Lowest = -(Half * Power[Word - 1])
    /\ Lowest + Span = Half * Power[Word - 1]
<1>1. /\ Half \in Nat \ {0} /\ Base = 2 * Half /\ Base \in Nat
      /\ Word \in 1 .. Word /\ Word - 1 \in 0 .. Word
    BY HalfTheBytes DEF Half
<1>2. Span = Base * Power[Word - 1] /\ Power[Word - 1] \in Nat
    BY <1>1, Powers DEF Span, IsPower
<1>3. PICK h \in Nat : h = Half * Power[Word - 1]
    BY <1>1, <1>2
<1>4. Span = 2 * h
    <2>1. \A a \in Nat, b \in Nat : (2 * a) * b = 2 * (a * b)
        OBVIOUS
    <2> QED
        BY <1>1, <1>2, <1>3, <2>1
<1>5. Lowest = -h
    BY <1>3, <1>4 DEF Lowest
<1> QED
    BY <1>1, <1>3, <1>4, <1>5

SignOf(bytes) == IF bytes # << >> /\ bytes[1] >= Base \div 2 THEN -1 ELSE 0

LEMMA SignedRange ==
    ASSUME NEW bytes \in Seq(Byte), Len(bytes) <= Word
    PROVE  Exact(SignOf(bytes), Lowest, bytes)
<1> DEFINE n == Len(bytes)
           sign == SignOf(bytes)
           D(k) == DecodedTo(sign, Lowest, bytes, k)
           Within(k) == -(Half * Power[k - 1]) <= D(k) /\ D(k) + 1 <= Half * Power[k - 1]
           within == { k \in 0 .. n : k # 0 => Within(k) }
<1>1. n \in 0 .. Word /\ n \in Nat /\ Word \in Nat /\ Base \in Nat
    BY HalfTheBytes
<1>2. sign \in {-1, 0} /\ sign \in Int /\ Lowest \in Int
    <2>1. Lowest \in Int
        BY HalfTheSpan
    <2> QED
        BY <2>1 DEF SignOf
<1>3. /\ D(0) = sign
      /\ \A k \in 1 .. n : D(k) = Wrapped(D(k - 1) * Base + bytes[k], Lowest)
      /\ \A k \in 0 .. n : D(k) \in Int
    BY <1>2, DecodedUnrolled
<1>4. \A k \in 1 .. n : bytes[k] \in 0 .. Base - 1
    <2>1. \A k \in 1 .. n : bytes[k] \in Byte
        OBVIOUS
    <2> QED
        BY <2>1 DEF Byte
<1>5. n # 0 => sign = IF bytes[1] >= Half THEN -1 ELSE 0
    BY DEF SignOf, Half
<1>6. \A k \in 1 .. Word : Half * Power[k - 1] \in Nat /\ Half * Power[k - 1] <= Half * Power[Word - 1]
    <2> TAKE k \in 1 .. Word
    <2>1. Word - 1 \in 0 .. Word /\ k - 1 \in 0 .. Word - 1 /\ k - 1 \in 0 .. Word
        BY <1>1
    <2>2. Power[k - 1] \in Nat /\ Power[Word - 1] \in Nat /\ Half \in Nat
        BY <2>1, Powers, HalfTheSpan DEF IsPower
    <2>3. Power[k - 1] <= Power[Word - 1]
        BY <2>1, PowersGrow
    <2>4. Power[k - 1] * Half <= Power[Word - 1] * Half
        BY <2>2, <2>3, ProductsOrdered
    <2> QED
        BY <2>2, <2>4
<1> HIDE DEF D, n, sign
<1>7. ASSUME NEW k \in 1 .. n,
             D(k - 1) * Base + bytes[k] \in Int,
             -(Half * Power[k - 1]) <= D(k - 1) * Base + bytes[k],
             D(k - 1) * Base + bytes[k] + 1 <= Half * Power[k - 1]
      PROVE  D(k) = D(k - 1) * Base + bytes[k] /\ Within(k)
    <2> DEFINE more == D(k - 1) * Base + bytes[k]
               limit == Half * Power[k - 1]
               top == Half * Power[Word - 1]
    <2>1. limit \in Nat /\ top \in Nat /\ limit <= top
        BY <1>1, <1>6, HalfTheSpan
    <2>2. Lowest = -top /\ Lowest + Span = top
        BY HalfTheSpan
    <2>3. more \in Int /\ -limit <= more /\ more + 1 <= limit
        BY <1>7
    <2> HIDE DEF more, limit, top
    <2>4. Lowest <= more /\ more < Lowest + Span
        BY <2>1, <2>2, <2>3
    <2>5. Wrapped(more, Lowest) = more
        BY <1>2, <2>3, <2>4, FitsTheWord
    <2> QED
        BY <1>3, <2>3, <2>5 DEF more, limit
<1>8. ASSUME NEW k \in 1 .. n, k - 1 \in within
      PROVE  D(k) = D(k - 1) * Base + bytes[k] /\ k \in within
    <2>1. k \in 0 .. n /\ k - 1 \in 0 .. n /\ bytes[k] \in 0 .. Base - 1 /\ D(k - 1) \in Int
        BY <1>1, <1>3, <1>4
    <2> DEFINE before == D(k - 1)
               byte == bytes[k]
               limit == Half * Power[k - 1]
    <2>2. byte \in Int /\ 0 <= byte /\ byte + 1 <= Base /\ before \in Int /\ Base \in Int
        BY <1>1, <2>1
    <2>3. CASE k = 1
        <3>1. Power[k - 1] = 1 /\ before = sign /\ n # 0 /\ byte = bytes[1]
            BY <1>1, <1>3, <2>3, Powers DEF IsPower
        <3>2. Half \in Nat /\ Base = 2 * Half /\ limit = Half
            BY <3>1, HalfTheSpan
        <3> HIDE DEF before, byte, limit
        <3>3. CASE byte >= Half
            <4>1. before * Base = -Base
                BY <1>5, <2>2, <3>1, <3>3
            <4>2. /\ before * Base + byte \in Int
                  /\ -limit <= before * Base + byte /\ before * Base + byte + 1 <= limit
                BY <2>2, <3>2, <3>3, <4>1
            <4> QED
                BY <1>7, <2>1, <4>2 DEF before, byte, limit
        <3>4. CASE ~(byte >= Half)
            <4>1. before * Base = 0
                BY <1>5, <2>2, <3>1, <3>4
            <4>2. /\ before * Base + byte \in Int
                  /\ -limit <= before * Base + byte /\ before * Base + byte + 1 <= limit
                BY <2>2, <3>2, <3>4, <4>1
            <4> QED
                BY <1>7, <2>1, <4>2 DEF before, byte, limit
        <3> QED
            BY <3>3, <3>4
    <2>4. CASE k # 1
        <3> DEFINE less == Half * Power[(k - 1) - 1]
                   shifted == before * Base
        <3>1. k - 1 \in 1 .. n /\ k - 1 \in 1 .. Word /\ k - 1 # 0 /\ (k - 1) - 1 \in 0 .. Word
            BY <1>1, <2>4
        <3>2. less \in Nat /\ -less <= before /\ before + 1 <= less
            BY <1>6, <1>8, <3>1
        <3>3. limit = less * Base
            <4> DEFINE half == Half
                       p == Power[(k - 1) - 1]
            <4>1. Power[k - 1] = Base * p
                BY <3>1, Powers DEF IsPower
            <4>2. half \in Nat /\ p \in Nat /\ Base \in Nat
                BY <1>1, <3>1, Powers, HalfTheSpan DEF IsPower
            <4>3. limit = half * (Base * p) /\ less = half * p
                BY <4>1
            <4> HIDE DEF half, p, limit, less
            <4>4. half * (Base * p) = (half * p) * Base
                BY <4>2
            <4> QED
                BY <4>3, <4>4
        <3> HIDE DEF before, byte, less, limit
        <3>4. (-less) * Base <= before * Base /\ (before + 1) * Base <= less * Base
            <4>1. -less \in Int /\ before + 1 \in Int /\ less \in Int
                BY <2>2, <3>2
            <4> QED
                BY <1>1, <2>2, <3>2, <4>1, ProductsOrdered
        <3>5. /\ (-less) * Base = -(less * Base) /\ (before + 1) * Base = before * Base + Base
              /\ less * Base \in Int /\ before * Base \in Int
            BY <2>2, <3>2
        <3>6. /\ limit \in Int /\ shifted \in Int
              /\ -limit <= shifted /\ shifted + Base <= limit
            BY <3>3, <3>4, <3>5
        <3>7. shifted = before * Base
            OBVIOUS
        <3> HIDE DEF shifted
        <3>8. /\ shifted + byte \in Int
              /\ -limit <= shifted + byte /\ shifted + byte + 1 <= limit
            BY <2>2, <3>6
        <3> QED
            BY <1>7, <2>1, <3>7, <3>8 DEF before, byte, limit
    <2> QED
        BY <2>3, <2>4
<1>9. 0 \in within
    BY <1>1
<1>10. \A k \in 0 .. n : k \in within
    <2> HIDE DEF within
    <2> QED
        BY <1>1, <1>8, <1>9, InductionTo
<1>11. \A k \in 1 .. n : D(k) = D(k - 1) * Base + bytes[k]
    <2> TAKE k \in 1 .. n
    <2>1. k - 1 \in 0 .. n
        BY <1>1
    <2> QED
        BY <1>8, <1>10, <2>1
<1> QED
    BY <1>11 DEF Exact, D, n, sign

\* decode_unsigned and decode_signed give the number that the bytes stand for, whatever
\* the size of a byte and of a word, as long as there are no more bytes than in a word.
THEOREM NumbersDecoded ==
    ASSUME NEW bytes \in Seq(0 .. Base - 1), Len(bytes) <= Word
    PROVE  Unsigned(bytes) = Total(bytes) /\ Signed(bytes) = TwosComplement(bytes)
<1>1. bytes \in Seq(Byte) /\ Len(bytes) \in 0 .. Word
    BY HalfTheBytes DEF Byte
<1>2. Power[Len(bytes)] \in Int /\ Total(bytes) \in Int
    BY <1>1, Powers, TotalUnrolled DEF IsPower
<1>3. Unsigned(bytes) = Total(bytes)
    <2>1. Decoded(0, 0, bytes) = 0 * Power[Len(bytes)] + Total(bytes)
        BY <1>1, UnsignedRange, DecodedSum
    <2> QED
        BY <1>2, <2>1 DEF Unsigned
<1>4. Signed(bytes) = TwosComplement(bytes)
    <2>1. SignOf(bytes) \in {-1, 0} /\ Lowest \in Int
        BY HalfTheSpan DEF SignOf
    <2>2. Decoded(SignOf(bytes), Lowest, bytes) = SignOf(bytes) * Power[Len(bytes)] + Total(bytes)
        BY <1>1, <2>1, SignedRange, DecodedSum
    <2>3. Signed(bytes) = Decoded(SignOf(bytes), Lowest, bytes)
        BY DEF Signed, SignOf
    <2>4. TwosComplement(bytes) = Total(bytes) - IF SignOf(bytes) = -1 THEN Power[Len(bytes)] ELSE 0
        BY DEF TwosComplement, SignOf
    <2>5. CASE SignOf(bytes) = -1
        BY <1>2, <2>2, <2>3, <2>4, <2>5
    <2>6. CASE SignOf(bytes) = 0
        BY <1>2, <2>2, <2>3, <2>4, <2>6
    <2> QED
        BY <2>1, <2>5, <2>6
<1> QED
    BY <1>3, <1>4

-----------------------------------------------------------------------------
(* "as f64" *)

LEMMA Division ==
    ASSUME NEW n \in Int, NEW d \in Int, d > 0
    PROVE  n = d * (n \div d) + (n % d)
OBVIOUS

LEMMA UnitIsLeast ==
    ASSUME NEW size \in 0 .. Span
    PROVE  /\ Unit(size) \in Units /\ size <= Mantissa * Unit(size)
           /\ \A unit \in Units : size <= Mantissa * unit => Unit(size) <= unit
<1> DEFINE wide == { unit \in Units : size <= Mantissa * unit }
<1>1. PICK unit \in Units : Span <= Mantissa * unit
    BY FloatsAssumption
<1>2. Mantissa * unit \in Nat /\ Span \in Nat
    BY <1>1, FloatsAssumption, FitsTheWord
<1>3. unit \in wide
    BY <1>1, <1>2
<1>4. wide \in SUBSET Nat /\ wide # {}
    BY <1>3, FloatsAssumption
<1>5. Unit(size) = Min(wide)
    BY DEF Unit
<1> HIDE DEF wide
<1>6. Unit(size) \in wide /\ \A other \in wide : Unit(size) <= other
    BY <1>4, <1>5, MinIsLeast
<1> QED
    BY <1>6 DEF wide

LEMMA MultipleDivides ==
    ASSUME NEW q \in Nat, NEW unit \in Nat, unit > 0
    PROVE  (q * unit) % unit = 0
<1> DEFINE n == q * unit
           times == n \div unit
           rest == n % unit
<1>1. n \in Nat
    OBVIOUS
<1> HIDE DEF n
<1>2. times \in Int /\ rest \in 0 .. unit - 1
    BY <1>1
<1>3. n = unit * times + rest
    BY <1>1, Division
<1> HIDE DEF times, rest
<1>4. rest = (q - times) * unit
    BY <1>2, <1>3 DEF n
<1>5. ~(1 <= q - times)
    <2>1. SUFFICES ASSUME 1 <= q - times PROVE FALSE
        OBVIOUS
    <2>2. 1 * unit <= (q - times) * unit
        BY <1>2, <2>1, ProductsOrdered
    <2> QED
        BY <1>2, <1>4, <2>2
<1>6. ~(q - times <= -1)
    <2>1. SUFFICES ASSUME q - times <= -1 PROVE FALSE
        OBVIOUS
    <2>2. (q - times) * unit <= (-1) * unit
        BY <1>2, <2>1, ProductsOrdered
    <2> QED
        BY <1>2, <1>4, <2>2
<1>7. q - times = 0
    BY <1>2, <1>5, <1>6
<1>8. rest = 0
    BY <1>4, <1>7
<1> QED
    BY <1>8 DEF rest, n

LEMMA NearestIsNear ==
    ASSUME NEW size \in 0 .. Span
    PROVE  /\ Nearest(size) \in Nat
           /\ \E unit \in Units : Nearest(size) <= Mantissa * unit /\ Nearest(size) % unit = 0
           /\ \A unit \in Units :
                 size <= Mantissa * unit => 2 * Size(Nearest(size) - size) <= unit
<1> DEFINE unit == Unit(size)
           below == size \div unit
           rest == size % unit
           up == 2 * rest > unit \/ (2 * rest = unit /\ below % 2 = 1)
           q == IF up THEN below + 1 ELSE below
<1>1. /\ unit \in Units /\ size <= Mantissa * unit
      /\ \A other \in Units : size <= Mantissa * other => unit <= other
    BY UnitIsLeast
<1>2. Nearest(size) = q * unit
    BY DEF Nearest
<1> HIDE DEF unit
<1>3. unit \in Nat /\ unit > 0 /\ size \in Nat /\ Mantissa \in Nat
    BY <1>1, FloatsAssumption, FitsTheWord
<1>4. below \in Nat /\ rest \in 0 .. unit - 1
    BY <1>3
<1>5. size = unit * below + rest
    BY <1>3, Division
<1>6. up => 2 * rest >= unit
    BY <1>3, <1>4
<1>7. ~up => 2 * rest <= unit
    BY <1>3, <1>4
<1> HIDE DEF below, rest, up
<1>8. unit * below \in Nat /\ unit * below <= Mantissa * unit
    <2>1. unit * below \in Nat /\ Mantissa * unit \in Nat
        BY <1>3, <1>4
    <2> QED
        BY <1>1, <1>3, <1>4, <1>5, <2>1
<1>9. CASE up
    <2>1. q = below + 1 /\ rest > 0
        BY <1>3, <1>4, <1>6, <1>9
    <2>2. below < Mantissa
        <3>1. SUFFICES ASSUME Mantissa <= below PROVE FALSE
            BY <1>3, <1>4
        <3>2. Mantissa * unit <= below * unit
            BY <1>3, <1>4, <3>1, ProductsOrdered
        <3>3. below * unit = unit * below /\ Mantissa * unit \in Nat
            BY <1>3, <1>4
        <3> QED
            BY <1>1, <1>3, <1>4, <1>5, <1>8, <2>1, <3>2, <3>3
    <2>3. q \in Nat /\ q <= Mantissa
        BY <1>3, <1>4, <2>1, <2>2
    <2>4. q * unit = unit * below + unit
        BY <1>3, <1>4, <2>1
    <2>5. q * unit - size = unit - rest
        BY <1>3, <1>4, <1>5, <1>8, <2>4
    <2>6. Size(q * unit - size) = unit - rest
        BY <1>3, <1>4, <2>5 DEF Size
    <2>7. 2 * (unit - rest) <= unit
        BY <1>3, <1>4, <1>6, <1>9
    <2> HIDE DEF q
    <2>8. q * unit <= Mantissa * unit /\ (q * unit) % unit = 0 /\ q * unit \in Nat
        BY <1>3, <2>3, ProductsOrdered, MultipleDivides
    <2> QED
        BY <1>1, <1>2, <1>3, <1>4, <2>6, <2>7, <2>8, FloatsAssumption
<1>10. CASE ~up
    <2>1. q = below
        BY <1>10
    <2>2. q * unit = unit * below
        BY <1>3, <1>4, <2>1
    <2>3. q * unit - size = -rest
        BY <1>3, <1>4, <1>5, <1>8, <2>2
    <2>4. Size(q * unit - size) = rest
        BY <1>4, <2>3 DEF Size
    <2> HIDE DEF q
    <2>5. q * unit <= Mantissa * unit /\ (q * unit) % unit = 0 /\ q * unit \in Nat
        BY <1>3, <1>4, <1>8, <2>1, <2>2, MultipleDivides
    <2> QED
        BY <1>1, <1>2, <1>3, <1>4, <1>7, <1>10, <2>4, <2>5, FloatsAssumption
<1> QED
    BY <1>9, <1>10

\* What is published of a number that a word holds is as near to it as a float comes:
\* off by half a unit of the last place at most, and not at all up to 2^53.
THEOREM FloatIsClose ==
    ASSUME NEW number \in -Span .. Span
    PROVE  Close(AsFloat(number), number)
<1>1. Span \in Nat /\ number \in Int
    BY FitsTheWord
<1>2. ASSUME NEW size \in 0 .. Span, size = Size(number),
             Size(AsFloat(number)) = Nearest(size),
             Size(AsFloat(number) - number) = Size(Nearest(size) - size)
      PROVE  Close(AsFloat(number), number)
    BY <1>2, NearestIsNear DEF Close
<1>3. CASE number < 0
    <2> DEFINE size == -number
    <2>1. size \in 0 .. Span /\ size = Size(number)
        BY <1>1, <1>3 DEF Size
    <2>2. AsFloat(number) = -Nearest(size)
        BY <1>3 DEF AsFloat
    <2>3. Nearest(size) \in Nat
        BY <2>1, NearestIsNear
    <2>4. AsFloat(number) - number = -(Nearest(size) - size)
        BY <1>1, <2>2, <2>3
    <2>5. size \in Int /\ \A n \in Int : Size(-n) = Size(n)
        BY <1>1 DEF Size
    <2>6. Size(AsFloat(number)) = Nearest(size)
        BY <2>2, <2>3, <2>5 DEF Size
    <2> HIDE DEF size
    <2>7. Size(AsFloat(number) - number) = Size(Nearest(size) - size)
        <3>1. Nearest(size) - size \in Int
            BY <2>3, <2>5
        <3> QED
            BY <2>4, <2>5, <3>1
    <2> QED
        BY <1>2, <2>1, <2>6, <2>7
<1>4. CASE ~(number < 0)
    <2>1. number \in 0 .. Span /\ number = Size(number) /\ AsFloat(number) = Nearest(number)
        BY <1>1, <1>4 DEF Size, AsFloat
    <2>2. Nearest(number) \in Nat
        BY <2>1, NearestIsNear
    <2>3. Size(AsFloat(number)) = Nearest(number)
        BY <2>1, <2>2 DEF Size
    <2> QED
        BY <1>2, <2>1, <2>3
<1> QED
    BY <1>3, <1>4

\* Whatever is decoded fits into the word.
LEMMA DecodedFits ==
    ASSUME NEW bytes \in Seq(Byte)
    PROVE  Unsigned(bytes) \in -Span .. Span /\ Signed(bytes) \in -Span .. Span
<1>1. Span \in Nat /\ 1 <= Span
    BY FitsTheWord
<1>2. \A n \in Int, low \in Int : Wrapped(n, low) \in low .. low + Span - 1
    <2> TAKE n \in Int, low \in Int
    <2>1. n - low \in Int /\ Span > 0
        BY <1>1
    <2>2. (n - low) % Span \in 0 .. Span - 1
        BY <1>1, <2>1
    <2> QED
        BY <1>1, <2>2 DEF Wrapped
<1>3. ASSUME NEW start \in {-1, 0}, NEW low \in -Span .. 0
      PROVE  Decoded(start, low, bytes) \in -Span .. Span
    <2> DEFINE n == Len(bytes)
               D(k) == DecodedTo(start, low, bytes, k)
    <2>1. start \in Int /\ low \in Int /\ n \in Nat
        BY <1>1, <1>3
    <2>2. Decoded(start, low, bytes) = D(n)
        BY <2>1, DecodedUnrolled
    <2>3. CASE n = 0
        <3>1. D(n) = start
            BY <2>1, <2>3, DecodedUnrolled
        <3> QED
            BY <1>1, <2>2, <3>1
    <2>4. CASE n # 0
        <3>1. n \in 1 .. n
            BY <2>1, <2>4
        <3>2. /\ D(n - 1) \in Int
              /\ D(n) = Wrapped(D(n - 1) * Base + bytes[n], low)
            BY <2>1, <3>1, DecodedUnrolled
        <3>3. bytes[n] \in Byte
            BY <3>1
        <3>4. D(n - 1) * Base + bytes[n] \in Int
            BY <3>2, <3>3, HalfTheBytes DEF Byte
        <3> HIDE DEF D, n
        <3>5. D(n) \in low .. low + Span - 1
            BY <1>2, <2>1, <3>2, <3>4
        <3> QED
            BY <1>1, <2>2, <3>5
    <2> QED
        BY <2>3, <2>4
<1>4. 0 \in -Span .. 0 /\ Lowest \in -Span .. 0
    <2>1. PICK half \in Nat : Lowest = -half /\ Lowest + Span = half
        BY HalfTheSpan
    <2> QED
        BY <1>1, <2>1
<1>5. SignOf(bytes) \in {-1, 0} /\ Signed(bytes) = Decoded(SignOf(bytes), Lowest, bytes)
    BY DEF SignOf, Signed
<1> QED
    BY <1>3, <1>4, <1>5 DEF Unsigned

-----------------------------------------------------------------------------
(* Encoded values *)

LEMMA BytesAreNumbers == Byte \subseteq Nat /\ Seq(Byte) \subseteq Seq(Nat)
<1>1. Byte \subseteq Nat
    BY HalfTheBytes DEF Byte
<1>2. ASSUME NEW bytes \in Seq(Byte)
      PROVE  bytes \in Seq(Nat)
    <2>1. Len(bytes) \in Nat /\ bytes \in [1 .. Len(bytes) -> Byte]
        OBVIOUS
    <2>2. bytes \in [1 .. Len(bytes) -> Nat]
        BY <1>1, <2>1
    <2> QED
        BY <2>1, <2>2
<1> QED
    BY <1>1, <1>2

\* Carried, of any bytes.
CarriedIn(rest) == { SubSeq(rest, i, j) : i \in {1, 2}, j \in 0 .. Len(rest) }

\* ShowsNumber, of any result.
Shown(value, number) ==
    value.ok /\ value.value.kind = "number" /\ Close(value.value.value, number)

\* What ScalarsDecoded says of one encoded value.
DecodedAs(tag, code, rest, value, carried) ==
    /\ \A bytes \in carried :
          Encodes(code, rest, bytes) /\ Len(bytes) <= Word =>
              /\ tag = 2 => Shown(value, Total(bytes))
              /\ tag = 3 => Shown(value, TwosComplement(bytes))
              /\ tag = 9 => value = Ok(Text(Total(bytes)))
    /\ \A bytes \in carried :
          Encodes(code, rest, bytes) /\ tag = 12 /\ value.ok =>
              value.value.value[1] * Instances + value.value.value[2] = Total(bytes)
    /\ tag \notin {0, 1} /\ (\A bytes \in carried : ~Encodes(code, rest, bytes)) => ~value.ok

LEMMA IdentifierApart ==
    ASSUME NEW bytes \in Seq(Byte), ObjectId(bytes).ok
    PROVE  ObjectId(bytes).value.value[1] * Instances + ObjectId(bytes).value.value[2] = Total(bytes)
<1>1. Len(bytes) = Single
    BY DEF ObjectId, Exactly, Error
<1>2. ObjectId(bytes).value.value = << Unsigned(bytes) \div Instances, Unsigned(bytes) % Instances >>
    BY <1>1 DEF ObjectId, Exactly, Ok, Text
<1>3. Len(bytes) <= Word /\ Instances \in Nat \ {0}
    BY <1>1, ScalarsAssumption
<1>4. Unsigned(bytes) = Total(bytes) /\ Total(bytes) \in Int
    BY <1>3, NumbersDecoded, TotalUnrolled DEF Byte
<1>5. PICK n \in Int : n = Total(bytes)
    BY <1>4
<1>6. PICK type \in Int, instance \in Int : type = n \div Instances /\ instance = n % Instances
    <2>1. n \div Instances \in Int /\ n % Instances \in Int
        BY <1>3
    <2> QED
        BY <2>1
<1>7. n = Instances * type + instance
    <2>1. Instances \in Int /\ Instances > 0
        BY <1>3
    <2> QED
        BY <1>6, <2>1, Division
<1>8. ObjectId(bytes).value.value = << type, instance >>
    BY <1>2, <1>4, <1>5, <1>6
<1>9. Instances * type = type * Instances
    BY <1>3
<1> QED
    BY <1>5, <1>7, <1>8, <1>9

LEMMA ScalarDecoded ==
    ASSUME NEW tag \in Nat, NEW code \in Nat, NEW rest \in Seq(Byte)
    PROVE  DecodedAs(tag, code, rest, DecodeScalar(tag, code, rest), CarriedIn(rest))
<1> DEFINE value == DecodeScalar(tag, code, rest)
           carried == { SubSeq(rest, i, j) : i \in {1, 2}, j \in 0 .. Len(rest) }
<1>0. carried = { SubSeq(rest, i, j) : i \in {1, 2}, j \in 0 .. Len(rest) }
    OBVIOUS
<1> HIDE DEF carried
<1>1. rest \in Seq(Nat) /\ Len(rest) \in Nat /\ \A i \in 1 .. Len(rest) : rest[i] \in Byte
    BY BytesAreNumbers
<1>2. carried \subseteq Seq(Byte)
    <2>1. ASSUME NEW i \in {1, 2}, NEW j \in 0 .. Len(rest)
          PROVE  SubSeq(rest, i, j) \in Seq(Byte)
        <3>1. i \in Nat /\ j \in Nat /\ \A n \in i .. j : rest[n] \in Byte
            BY <1>1
        <3> QED
            BY <3>1, SubSeqProperties
    <2>2. ASSUME NEW bytes \in carried
          PROVE  \E i \in {1, 2} : \E j \in 0 .. Len(rest) : bytes = SubSeq(rest, i, j)
        BY <1>0, <2>2
    <2> QED
        BY <2>1, <2>2
<1>3. ASSUME NEW bytes \in Seq(Nat), Encodes(code, rest, bytes)
      PROVE  bytes \in carried
    <2>1. Len(bytes) \in Nat
        OBVIOUS
    <2>2. CASE Len(rest) >= Len(bytes) /\ SubSeq(rest, 1, Len(bytes)) = bytes
        <3>1. Len(bytes) \in 0 .. Len(rest)
            BY <1>1, <2>1, <2>2
        <3>2. SubSeq(rest, 1, Len(bytes)) \in carried
            BY <1>0, <3>1
        <3> QED
            BY <2>2, <3>2
    <2>3. CASE Len(rest) > Len(bytes) /\ SubSeq(rest, 2, Len(bytes) + 1) = bytes
        <3>1. Len(bytes) + 1 \in 0 .. Len(rest)
            BY <1>1, <2>1, <2>3
        <3>2. SubSeq(rest, 2, Len(bytes) + 1) \in carried
            BY <1>0, <3>1
        <3> QED
            BY <2>3, <3>2
    <2> QED
        BY <1>3, <2>2, <2>3 DEF Encodes
<1>4. ASSUME NEW bytes \in carried, Encodes(code, rest, bytes)
      PROVE  bytes \in Seq(Byte) /\ Payload(code, rest) = Ok(bytes)
    BY <1>1, <1>2, <1>4, BytesAreNumbers, PayloadIsEncoded
<1>5. ASSUME NEW bytes \in carried, Encodes(code, rest, bytes), tag \in {2, 3, 9, 12}
      PROVE  value = OfBytes(tag, bytes)
    <2>1. Payload(code, rest).ok /\ Payload(code, rest).value = bytes
        BY <1>4, <1>5 DEF Ok
    <2> QED
        BY <1>5, <2>1 DEF DecodeScalar
<1>6. ASSUME NEW bytes \in carried, Encodes(code, rest, bytes), Len(bytes) <= Word
      PROVE  /\ tag = 2 => Shown(value, Total(bytes))
             /\ tag = 3 => Shown(value, TwosComplement(bytes))
             /\ tag = 9 => value = Ok(Text(Total(bytes)))
    <2>1. Unsigned(bytes) = Total(bytes) /\ Signed(bytes) = TwosComplement(bytes)
        BY <1>4, <1>6, NumbersDecoded DEF Byte
    <2>2. \A number \in -Span .. Span : Shown(Ok(Number(AsFloat(number))), number)
        BY FloatIsClose DEF Shown, Ok, Number
    <2>3. Unsigned(bytes) \in -Span .. Span /\ Signed(bytes) \in -Span .. Span
        BY <1>4, <1>6, DecodedFits
    <2>4. tag = 2 => value = Ok(Number(AsFloat(Unsigned(bytes))))
        BY <1>5, <1>6 DEF OfBytes
    <2>5. tag = 3 => value = Ok(Number(AsFloat(Signed(bytes))))
        BY <1>5, <1>6 DEF OfBytes
    <2>6. tag = 9 => value = Ok(Text(Unsigned(bytes)))
        BY <1>5, <1>6 DEF OfBytes
    <2> HIDE DEF value
    <2> QED
        BY <2>1, <2>2, <2>3, <2>4, <2>5, <2>6
<1>7. ASSUME NEW bytes \in carried, Encodes(code, rest, bytes), tag = 12, value.ok
      PROVE  value.value.value[1] * Instances + value.value.value[2] = Total(bytes)
    <2>1. value = ObjectId(bytes)
        BY <1>5, <1>7 DEF OfBytes
    <2> HIDE DEF value
    <2> QED
        BY <1>4, <1>7, <2>1, IdentifierApart
<1>8. ASSUME tag \notin {0, 1}, \A bytes \in carried : ~Encodes(code, rest, bytes)
      PROVE  ~value.ok
    BY <1>1, <1>3, <1>8, IncompleteRefused
<1> HIDE DEF value
<1>9. DecodedAs(tag, code, rest, value, carried)
    BY <1>6, <1>7, <1>8 DEF DecodedAs
<1> QED
    BY <1>0, <1>9 DEF value, CarriedIn

LEMMA ScalarsAreBytes ==
    ASSUME NEW scalar \in ScalarInputs
    PROVE  scalar.tag \in Nat /\ scalar.code \in Nat /\ scalar.rest \in Seq(Byte)
<1>1. Bytes \subseteq Byte
    BY BytesAssumption DEF Byte
<1>2. scalar.tag \in Nat /\ scalar.code \in Nat
    BY DEF ScalarInputs, Tags
<1>3. PICK m \in 0 .. MaxBytes : scalar.rest \in [1 .. m -> Bytes]
    BY DEF ScalarInputs, BoundedSeq, SeqOf
<1>4. scalar.rest \in [1 .. m -> Byte] /\ m \in Nat
    BY <1>1, <1>3
<1> QED
    BY <1>2, <1>4

ScalarInv ==
    input.of = "scalar" =>
        /\ input \in ScalarInputs
        /\ output # NotYet => result = DecodeScalar(input.tag, input.code, input.rest)

LEMMA ScalarsComputed == AlgorithmSpec => []ScalarInv
<1>1. AlgorithmInit => ScalarInv
    BY DEF AlgorithmInit, ScalarInv, MergeInputs, NameInputs, ScalarInputs
<1>2. ScalarInv /\ [AlgorithmNext]_algorithm => ScalarInv'
    <2> SUFFICES ASSUME ScalarInv, [AlgorithmNext]_algorithm, input'.of = "scalar"
                 PROVE  ScalarInv'
        BY DEF ScalarInv
    <2>1. CASE AlgorithmNext
        <3>1. input' = input
            BY <2>1 DEF AlgorithmNext
        <3>2. output' = << DecodeScalar(input.tag, input.code, input.rest) >>
            BY <2>1, <3>1 DEF AlgorithmNext, MergePoints, ReadName, Decode
        <3> QED
            BY <3>1, <3>2 DEF ScalarInv, result
    <2>2. CASE UNCHANGED algorithm
        BY <2>2 DEF ScalarInv, result, algorithm
    <2> QED
        BY <2>1, <2>2
<1> QED
    BY <1>1, <1>2, PTL DEF AlgorithmSpec

\* decode_scalar_value makes of unsigned and signed numbers of up to a word the DOUBLE
\* next to them, keeps every digit of enumerated ones, and takes object identifiers apart
\* as they were put together, whatever the sizes of a byte, of a word, of an identifier
\* and of a DOUBLE; what is not a complete value is refused.
THEOREM ValuesDecoded == AlgorithmSpec => []ScalarsDecoded
<1>1. ScalarInv => ScalarsDecoded
    <2> SUFFICES ASSUME ScalarInv, output # NotYet, input.of = "scalar"
                 PROVE  DecodedAs(input.tag, input.code, input.rest, result, Carried)
        BY DEF DecodedAs, ScalarsDecoded, Computed, ShowsNumber, Shown
    <2>1. /\ input \in ScalarInputs
          /\ result = DecodeScalar(input.tag, input.code, input.rest)
        BY DEF ScalarInv
    <2>2. Carried = CarriedIn(input.rest)
        BY DEF Carried, CarriedIn
    <2>3. input.tag \in Nat /\ input.code \in Nat /\ input.rest \in Seq(Byte)
        BY <2>1, ScalarsAreBytes
    <2>4. DecodedAs(input.tag, input.code, input.rest,
                    DecodeScalar(input.tag, input.code, input.rest), Carried)
        BY <2>2, <2>3, ScalarDecoded
    <2> QED
        BY <2>1, <2>4
<1> QED
    BY <1>1, ScalarsComputed, PTL
=============================================================================
