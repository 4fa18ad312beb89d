------------------------- MODULE RpcDispatch_proofs -------------------------
(***************************************************************************)
(* Proofs about RpcDispatch, for any conversations, projects, trees, menus *)
(* of requests and sizes of the lanes.                                     *)
(*                                                                         *)
(* RInv joins the types with how a task waits (for earlier requests only), *)
(* how answers are counted, and the state of the lanes.  A lane is Settled *)
(* when no grant is possible; the lemmas on GrantOne show that after one   *)
(* new waiter or one released worker a single grant settles it again.      *)
(***************************************************************************)
EXTENDS RpcDispatch, FiniteSetTheorems, SequenceTheorems, WellFoundedInduction, TLAPS

(***************************************************************************)
(* Numbers and sequences                                                   *)
(***************************************************************************)

\* A nonempty set of numbers has a least element, which Min names.
LEMMA LeastNumber ==
  ASSUME NEW S \in SUBSET Nat, S # {}
  PROVE  Min(S) \in S /\ \A y \in S : Min(S) <= y
<1> DEFINE Less == {ss \in Nat \X Nat : ss[1] < ss[2]}
<1>1. IsWellFoundedOn(Less, Nat)
  BY NatLessThanWellFounded, Zenon DEF OpToRel
<1>2. PICK x \in S : \A y \in S : ~(<<y, x>> \in Less)
  <2> HIDE DEF Less
  <2> QED BY <1>1, WFMin
<1>3. ASSUME NEW y \in S PROVE x <= y
  <2>1. x \in Nat /\ y \in Nat OBVIOUS
  <2>2. <<y, x>> \notin Less BY <1>2
  <2>3. ~(y < x) BY <2>1, <2>2
  <2> QED BY <2>1, <2>3
<1> QED
  BY <1>3 DEF Min

\* No two positions of the sequence hold the same element.
Distinct(s) == \A m, n \in DOMAIN s : s[m] = s[n] => m = n

\* A segment of a sequence without repetitions.
LEMMA Segment ==
  ASSUME NEW S, NEW s \in Seq(S), Distinct(s),
         NEW a \in Nat \ {0}, NEW b \in Nat, a <= b + 1, b <= Len(s)
  PROVE  /\ SubSeq(s, a, b) \in Seq(S) /\ Distinct(SubSeq(s, a, b))
         /\ Range(SubSeq(s, a, b)) = {s[n] : n \in a..b}
<1> DEFINE t == SubSeq(s, a, b)
<1>0. Len(s) \in Nat /\ DOMAIN s = 1..Len(s) /\ \A n \in 1..Len(s) : s[n] \in S
  BY LenProperties, ElementOfSeq
<1>1. t \in Seq(S) /\ Len(t) = b - a + 1
  BY <1>0, SubSeqProperties
<1>2. DOMAIN t = 1..(b - a + 1)
  BY <1>1, LenProperties
<1>3. \A n \in 1..(b - a + 1) : t[n] = s[a + n - 1]
  BY <1>0, SubSeqProperties
<1> HIDE DEF t
<1>4. ASSUME NEW m \in DOMAIN t, NEW n \in DOMAIN t, t[m] = t[n] PROVE m = n
  <2>1. m \in Int /\ n \in Int /\ a + m - 1 \in 1..Len(s) /\ a + n - 1 \in 1..Len(s)
    BY <1>0, <1>2
  <2>2. s[a + m - 1] = s[a + n - 1]
    BY <1>2, <1>3, <1>4
  <2>3. a + m - 1 = a + n - 1
    BY <2>1, <2>2, <1>0 DEF Distinct
  <2> QED BY <2>1, <2>3
<1>5. ASSUME NEW x \in Range(t) PROVE x \in {s[n] : n \in a..b}
  <2>1. PICK m \in 1..(b - a + 1) : x = t[m]
    BY <1>2 DEF Range
  <2>2. a + m - 1 \in a..b /\ x = s[a + m - 1]
    BY <2>1, <1>3
  <2> QED BY <2>2
<1>6. ASSUME NEW n \in a..b PROVE s[n] \in Range(t)
  <2>1. n - a + 1 \in 1..(b - a + 1) /\ a + (n - a + 1) - 1 = n
    OBVIOUS
  <2>2. t[n - a + 1] = s[n]
    BY <2>1, <1>3
  <2> QED BY <2>1, <2>2, <1>2 DEF Range
<1>7. Distinct(t)
  BY <1>4 DEF Distinct
<1> QED
  BY <1>1, <1>5, <1>6, <1>7 DEF t

\* Two sequences without repetitions that share no element.
LEMMA Joined ==
  ASSUME NEW S, NEW s \in Seq(S), NEW t \in Seq(S), Distinct(s), Distinct(t),
         Range(s) \cap Range(t) = {}
  PROVE  s \o t \in Seq(S) /\ Distinct(s \o t) /\ Range(s \o t) = Range(s) \cup Range(t)
<1> DEFINE u == s \o t
<1>0. Len(s) \in Nat /\ Len(t) \in Nat /\ DOMAIN s = 1..Len(s) /\ DOMAIN t = 1..Len(t)
  BY LenProperties
<1>1. u \in Seq(S) /\ Len(u) = Len(s) + Len(t)
  BY ConcatProperties
<1>2. \A n \in 1..(Len(s) + Len(t)) : u[n] = IF n <= Len(s) THEN s[n] ELSE t[n - Len(s)]
  BY ConcatProperties
<1>3. DOMAIN u = 1..(Len(s) + Len(t))
  BY <1>1, LenProperties
<1>4. Range(u) = Range(s) \cup Range(t)
  BY RangeConcatenation
<1> HIDE DEF u
<1>5. ASSUME NEW m \in DOMAIN u, NEW n \in DOMAIN u, u[m] = u[n] PROVE m = n
  <2>1. m \in Nat /\ n \in Nat
    BY <1>3
  <2>2. CASE m <= Len(s) /\ n <= Len(s)
    BY <1>0, <1>2, <1>3, <1>5, <2>1, <2>2 DEF Distinct
  <2>3. CASE m > Len(s) /\ n > Len(s)
    <3>1. m - Len(s) \in DOMAIN t /\ n - Len(s) \in DOMAIN t
      BY <1>0, <1>3, <2>1, <2>3
    <3>2. t[m - Len(s)] = t[n - Len(s)]
      BY <1>0, <1>2, <1>3, <1>5, <2>1, <2>3
    <3>3. m - Len(s) = n - Len(s)
      BY <3>1, <3>2 DEF Distinct
    <3> QED BY <3>3, <2>1, <1>0
  <2>4. CASE m <= Len(s) /\ n > Len(s)
    <3>1. u[m] \in Range(s)
      BY <1>0, <1>2, <1>3, <2>1, <2>4 DEF Range
    <3>2. u[n] \in Range(t)
      <4>1. n - Len(s) \in DOMAIN t /\ u[n] = t[n - Len(s)]
        BY <1>0, <1>2, <1>3, <2>1, <2>4
      <4> QED BY <4>1 DEF Range
    <3> QED BY <3>1, <3>2, <1>5
  <2>5. CASE m > Len(s) /\ n <= Len(s)
    <3>1. u[n] \in Range(s)
      BY <1>0, <1>2, <1>3, <2>1, <2>5 DEF Range
    <3>2. u[m] \in Range(t)
      <4>1. m - Len(s) \in DOMAIN t /\ u[m] = t[m - Len(s)]
        BY <1>0, <1>2, <1>3, <2>1, <2>5
      <4> QED BY <4>1 DEF Range
    <3> QED BY <3>1, <3>2, <1>5
  <2> QED BY <2>1, <2>2, <2>3, <2>4, <2>5, <1>0
<1> QED
  BY <1>1, <1>4, <1>5 DEF u, Distinct

\* What surrounds an element of a sequence without repetitions: the segments
\* before and after it, joined in either order.
LEMMA Around ==
  ASSUME NEW S, NEW s \in Seq(S), Distinct(s), NEW k \in DOMAIN s
  PROVE  /\ RemoveAt(s, k) \in Seq(S) /\ Distinct(RemoveAt(s, k))
         /\ Range(RemoveAt(s, k)) = Range(s) \ {s[k]}
         /\ LET t == SubSeq(s, k + 1, Len(s)) \o SubSeq(s, 1, k - 1)
            IN  t \in Seq(S) /\ Distinct(t) /\ Range(t) = Range(s) \ {s[k]}
<1> DEFINE a == SubSeq(s, 1, k - 1)
           b == SubSeq(s, k + 1, Len(s))
<1>0. Len(s) \in Nat /\ DOMAIN s = 1..Len(s) /\ k \in 1..Len(s)
  BY LenProperties
<1>1. a \in Seq(S) /\ Distinct(a) /\ Range(a) = {s[n] : n \in 1..(k - 1)}
  BY <1>0, Segment
<1>2. b \in Seq(S) /\ Distinct(b) /\ Range(b) = {s[n] : n \in (k + 1)..Len(s)}
  <2>1. k + 1 \in Nat \ {0} /\ k + 1 <= Len(s) + 1 /\ Len(s) <= Len(s)
    BY <1>0
  <2> QED BY <2>1, <1>0, Segment
<1>3. ASSUME NEW m \in 1..(k - 1), NEW n \in (k + 1)..Len(s) PROVE s[m] # s[n]
  BY <1>0 DEF Distinct
<1>4. Range(a) \cap Range(b) = {}
  BY <1>1, <1>2, <1>3
<1>5. Range(s) = {s[n] : n \in 1..Len(s)}
  BY <1>0 DEF Range
<1>6. \A n \in 1..Len(s) : n # k => s[n] # s[k]
  BY <1>0 DEF Distinct
<1>7. \A n \in 1..Len(s) : n # k => n \in 1..(k - 1) \/ n \in (k + 1)..Len(s)
  BY <1>0
<1>8. 1..(k - 1) \subseteq (1..Len(s)) \ {k} /\ (k + 1)..Len(s) \subseteq (1..Len(s)) \ {k}
  BY <1>0
<1>9. Range(a) \cup Range(b) = Range(s) \ {s[k]}
  <2>1. ASSUME NEW x \in Range(s) \ {s[k]} PROVE x \in Range(a) \cup Range(b)
    <3>1. PICK n \in 1..Len(s) : x = s[n]
      BY <1>5
    <3> QED BY <3>1, <1>1, <1>2, <1>7
  <2>2. ASSUME NEW x \in Range(a) \cup Range(b) PROVE x \in Range(s) \ {s[k]}
    <3>1. PICK n \in (1..Len(s)) \ {k} : x = s[n]
      BY <1>1, <1>2, <1>8
    <3> QED BY <3>1, <1>5, <1>6
  <2> QED BY <2>1, <2>2
<1>10. RemoveAt(s, k) = a \o b
  BY DEF RemoveAt
<1> HIDE DEF a, b
<1>11. a \o b \in Seq(S) /\ Distinct(a \o b) /\ Range(a \o b) = Range(s) \ {s[k]}
  BY <1>1, <1>2, <1>4, <1>9, Joined, ZenonT(40)
<1>12. b \o a \in Seq(S) /\ Distinct(b \o a) /\ Range(b \o a) = Range(s) \ {s[k]}
  <2>1. Range(b) \cap Range(a) = {} /\ Range(b) \cup Range(a) = Range(s) \ {s[k]}
    BY <1>4, <1>9
  <2>2. b \o a \in Seq(S) /\ Distinct(b \o a) /\ Range(b \o a) = Range(b) \cup Range(a)
    BY <1>1, <1>2, <2>1, Joined, ZenonT(40)
  <2> QED BY <2>1, <2>2
<1> QED
  BY <1>10, <1>11, <1>12 DEF a, b

\* A new element at the end of a sequence without repetitions.
LEMMA AppendedTo ==
  ASSUME NEW S, NEW s \in Seq(S), Distinct(s), NEW e \in S, e \notin Range(s)
  PROVE  /\ Append(s, e) \in Seq(S) /\ Distinct(Append(s, e))
         /\ Range(Append(s, e)) = Range(s) \cup {e}
<1> DEFINE t == Append(s, e)
<1>0. Len(s) \in Nat /\ DOMAIN s = 1..Len(s)
  BY LenProperties
<1>1. /\ t \in Seq(S) /\ DOMAIN t = 1..(Len(s) + 1)
      /\ \A n \in 1..Len(s) : t[n] = s[n]
      /\ t[Len(s) + 1] = e
  BY <1>0, AppendProperties, LenProperties
<1> HIDE DEF t
<1>2. \A n \in 1..Len(s) : s[n] # e
  BY <1>0 DEF Range
<1>3. Distinct(t)
  BY <1>0, <1>1, <1>2 DEF Distinct
<1>4. Range(t) = Range(s) \cup {e}
  <2>1. ASSUME NEW x \in Range(t) PROVE x \in Range(s) \cup {e}
    <3>1. PICK n \in 1..(Len(s) + 1) : x = t[n]
      BY <1>1 DEF Range
    <3> QED BY <3>1, <1>0, <1>1 DEF Range
  <2>2. ASSUME NEW x \in Range(s) PROVE x \in Range(t)
    <3>1. PICK n \in 1..Len(s) : x = s[n]
      BY <1>0 DEF Range
    <3>2. n \in DOMAIN t /\ t[n] = x
      BY <3>1, <1>0, <1>1
    <3> QED BY <3>2 DEF Range
  <2>3. e \in Range(t)
    <3>1. Len(s) + 1 \in DOMAIN t /\ t[Len(s) + 1] = e
      BY <1>0, <1>1
    <3> QED BY <3>1 DEF Range
  <2> QED BY <2>1, <2>2, <2>3
<1> QED
  BY <1>1, <1>3, <1>4 DEF t

(***************************************************************************)
(* The fair execution of a lane                                            *)
(***************************************************************************)

\* Requests wait once and in no order but their own, every root with a waiter
\* is queued once, no other root is, and a root holds one worker at most.
LaneShape(js, f) ==
  /\ Distinct(f.waiting) /\ Distinct(f.roots)
  /\ Range(f.waiting) \cap f.holders = {}
  /\ Range(f.roots) = {RootOf(js, w) : w \in Range(f.waiting)}
  /\ \A h, k \in f.holders :
       RootOf(js, h) = RootOf(js, k) /\ RootOf(js, h)[1] = "root" => h = k

\* Nothing is left that could be granted.
Settled(js, f, limit) ==
  Cardinality(f.holders) < limit =>
    \A w \in Range(f.waiting) : ~RootIsFree(js, f, RootOf(js, w))

\* One grant settles the lane: it fills the last worker, or all waiters that
\* could be granted share a root that holds one worker at a time.
OneGrantSettles(js, f, limit) ==
  \/ Cardinality(f.holders) >= limit - 1
  \/ \A v, w \in Range(f.waiting) :
       /\ v # w
       /\ RootIsFree(js, f, RootOf(js, v)) /\ RootIsFree(js, f, RootOf(js, w))
       => RootOf(js, v) = RootOf(js, w) /\ RootOf(js, w)[1] = "root"

LEMMA HoldersAreFinite ==
  ASSUME NEW f \in FairStates, MaxRequests \in Nat
  PROVE  IsFiniteSet(f.holders) /\ Cardinality(f.holders) \in Nat
<1>1. f.holders \subseteq 1..MaxRequests
  BY DEF FairStates
<1>2. IsFiniteSet(1..MaxRequests)
  BY FS_Interval
<1>3. IsFiniteSet(f.holders)
  BY <1>1, <1>2, FS_Subset
<1> QED
  BY <1>3, FS_CardinalityType

\* A grant takes one waiter of a free root out of the queues.
LEMMA Granted ==
  ASSUME NEW js, NEW limit, NEW f \in FairStates, LaneShape(js, f),
         ~(Cardinality(f.holders) >= limit),
         \E w \in Range(f.waiting) : RootIsFree(js, f, RootOf(js, w))
  PROVE  LET g == GrantOne(js, f, limit)
         IN  /\ g \in FairStates /\ LaneShape(js, g)
             /\ \E w \in Range(f.waiting) :
                  /\ RootIsFree(js, f, RootOf(js, w))
                  /\ g.holders = f.holders \cup {w}
                  /\ Range(g.waiting) = Range(f.waiting) \ {w}
<1> DEFINE free == {k \in DOMAIN f.roots : RootIsFree(js, f, f.roots[k])}
           k == Min(free)
           r == f.roots[k]
           mine == {n \in DOMAIN f.waiting : RootOf(js, f.waiting[n]) = r}
           at == Min(mine)
           rest == RemoveAt(f.waiting, at)
           more == \E w \in Range(rest) : RootOf(js, w) = r
           others == SubSeq(f.roots, k + 1, Len(f.roots)) \o SubSeq(f.roots, 1, k - 1)
           roots == others \o (IF more THEN <<r>> ELSE <<>>)
           g == [waiting |-> rest, roots |-> roots,
                 holders |-> f.holders \cup {f.waiting[at]}, last |-> r]
<1>1. /\ f.waiting \in Seq(1..MaxRequests) /\ f.roots \in Seq(FairRoots)
      /\ f.holders \subseteq 1..MaxRequests
  BY DEF FairStates
<1>2. free # {} /\ free \subseteq Nat
  <2>1. PICK w \in Range(f.waiting) : RootIsFree(js, f, RootOf(js, w))
    OBVIOUS
  <2>2. RootOf(js, w) \in Range(f.roots)
    BY DEF LaneShape
  <2>3. PICK n \in DOMAIN f.roots : f.roots[n] = RootOf(js, w)
    BY <2>2 DEF Range
  <2>4. DOMAIN f.roots \subseteq Nat
    BY <1>1, LenProperties
  <2> QED BY <2>1, <2>3, <2>4
<1>3. k \in DOMAIN f.roots /\ RootIsFree(js, f, r)
  <2> HIDE DEF free
  <2>1. k \in free BY <1>2, LeastNumber
  <2> QED BY <2>1 DEF free
<1>4. GrantOne(js, f, limit) = g
  BY <1>2 DEF GrantOne
<1> HIDE DEF free, k
<1>5. mine # {} /\ mine \subseteq Nat
  <2>1. r \in Range(f.roots)
    BY <1>3 DEF Range
  <2>2. PICK w \in Range(f.waiting) : RootOf(js, w) = r
    BY <2>1 DEF LaneShape
  <2>3. PICK n \in DOMAIN f.waiting : f.waiting[n] = w
    BY DEF Range
  <2>4. DOMAIN f.waiting \subseteq Nat
    BY <1>1, LenProperties
  <2> QED BY <2>2, <2>3, <2>4
<1>6. at \in DOMAIN f.waiting /\ RootOf(js, f.waiting[at]) = r
  <2> HIDE DEF mine
  <2>1. at \in mine BY <1>5, LeastNumber
  <2> QED BY <2>1 DEF mine
<1> HIDE DEF mine, at
<1> DEFINE w == f.waiting[at]
<1>7. w \in Range(f.waiting) /\ w \in 1..MaxRequests /\ RootOf(js, w) = r
  BY <1>1, <1>6, ElementOfSeq, LenProperties DEF Range
<1>8. rest \in Seq(1..MaxRequests) /\ Distinct(rest) /\ Range(rest) = Range(f.waiting) \ {w}
  BY <1>1, <1>6, Around DEF LaneShape
<1>9. others \in Seq(FairRoots) /\ Distinct(others) /\ Range(others) = Range(f.roots) \ {r}
  BY <1>1, <1>3, Around DEF LaneShape
<1>10. r \in FairRoots
  BY <1>1, <1>3, ElementOfSeq, LenProperties
<1> HIDE DEF r, rest, others, w
<1>11. /\ roots \in Seq(FairRoots) /\ Distinct(roots)
       /\ Range(roots) = (Range(f.roots) \ {r}) \cup (IF more THEN {r} ELSE {})
  <2>1. CASE more
    <3>1. roots = Append(others, r)
      BY <2>1, <1>9, <1>10, AppendIsConcat
    <3>2. r \notin Range(others)
      BY <1>9
    <3>3. /\ Append(others, r) \in Seq(FairRoots) /\ Distinct(Append(others, r))
          /\ Range(Append(others, r)) = Range(others) \cup {r}
      BY <3>2, <1>9, <1>10, AppendedTo
    <3> HIDE DEF roots, more
    <3> QED BY <2>1, <3>1, <3>3, <1>9
  <2>2. CASE ~more
    <3>1. roots = others
      BY <2>2, <1>9, ConcatEmptySeq
    <3> QED BY <2>2, <3>1, <1>9
  <2> QED BY <2>1, <2>2
<1>12. Range(roots) = {RootOf(js, v) : v \in Range(rest)}
  <2>1. Range(f.roots) = {RootOf(js, v) : v \in Range(f.waiting)}
    BY DEF LaneShape
  <2> HIDE DEF roots
  <2> QED BY <2>1, <1>7, <1>8, <1>11
<1> HIDE DEF roots
<1>13. g \in FairStates
  BY <1>1, <1>7, <1>8, <1>10, <1>11 DEF FairStates, w
<1>14. g.holders = f.holders \cup {w} /\ g.waiting = rest /\ g.roots = roots
  BY DEF w
<1>15. ASSUME NEW h \in g.holders, NEW i \in g.holders,
              RootOf(js, h) = RootOf(js, i), RootOf(js, h)[1] = "root"
       PROVE  h = i
  <2>1. \A q \in f.holders : RootOf(js, h) = r => RootOf(js, q) # r
    BY <1>3, <1>15 DEF RootIsFree, r
  <2> QED BY <2>1, <1>7, <1>14, <1>15 DEF LaneShape
<1>16. LaneShape(js, g)
  <2> HIDE DEF g
  <2>1. Range(rest) \cap (f.holders \cup {w}) = {}
    BY <1>8 DEF LaneShape
  <2> QED BY <2>1, <1>8, <1>11, <1>12, <1>14, <1>15 DEF LaneShape
<1>17. RootIsFree(js, f, RootOf(js, w))
  BY <1>3, <1>7 DEF r
<1> HIDE DEF g
<1> QED
  BY <1>4, <1>7, <1>8, <1>13, <1>14, <1>16, <1>17

\* Moving the last root served behind the others changes only their order.
LEMMA RotatedKeeps ==
  ASSUME NEW js, NEW f \in FairStates, LaneShape(js, f)
  PROVE  /\ Rotated(f) \in FairStates /\ LaneShape(js, Rotated(f))
         /\ Rotated(f).holders = f.holders /\ Rotated(f).waiting = f.waiting
<1>1. f.roots \in Seq(FairRoots) /\ Distinct(f.roots)
  BY DEF FairStates, LaneShape
<1>2. CASE Len(f.roots) > 1 /\ Head(f.roots) = f.last
  <2> DEFINE s == f.roots
             t == Append(Tail(s), Head(s))
             g == [f EXCEPT !.roots = t]
  <2>0. Len(s) \in Nat /\ DOMAIN s = 1..Len(s) /\ Len(s) > 1
    BY <1>1, <1>2, LenProperties
  <2>1. s # <<>> /\ Head(s) = s[1] /\ s[1] \in FairRoots /\ Tail(s) = SubSeq(s, 2, Len(s))
    <3>1. s # <<>>
      BY <2>0
    <3>2. 1 \in 1..Len(s)
      BY <2>0
    <3> QED BY <3>1, <3>2, <1>1, HeadTailProperties, TailIsSubSeq, ElementOfSeq
  <2>2. Tail(s) \in Seq(FairRoots) /\ Distinct(Tail(s)) /\ Range(Tail(s)) = {s[n] : n \in 2..Len(s)}
    <3>1. 2 \in Nat \ {0} /\ 2 <= Len(s) + 1 /\ Len(s) <= Len(s)
      BY <2>0
    <3> HIDE DEF s
    <3>2. s \in Seq(FairRoots) /\ Distinct(s)
      BY <1>1 DEF s
    <3>3. /\ SubSeq(s, 2, Len(s)) \in Seq(FairRoots) /\ Distinct(SubSeq(s, 2, Len(s)))
          /\ Range(SubSeq(s, 2, Len(s))) = {s[n] : n \in 2..Len(s)}
      BY ONLY <3>1, <3>2, <2>0, Segment
    <3> QED BY <2>1, <3>3
  <2>3. s[1] \notin Range(Tail(s))
    BY <2>0, <2>2, <1>1 DEF Distinct
  <2>4. t \in Seq(FairRoots) /\ Distinct(t) /\ Range(t) = Range(Tail(s)) \cup {s[1]}
    <3>1. t = Append(Tail(s), s[1])
      BY <2>1
    <3> HIDE DEF s, t
    <3>2. \A u \in Seq(FairRoots), x \in FairRoots : Distinct(u) /\ x \notin Range(u) =>
            /\ Append(u, x) \in Seq(FairRoots) /\ Distinct(Append(u, x))
            /\ Range(Append(u, x)) = Range(u) \cup {x}
      BY AppendedTo
    <3> QED BY <2>1, <2>2, <2>3, <3>1, <3>2, Zenon
  <2>5. Range(t) = Range(s)
    <3>1. Range(s) = {s[n] : n \in 1..Len(s)}
      BY <2>0 DEF Range
    <3>2. \A n : n \in 1..Len(s) <=> n = 1 \/ n \in 2..Len(s)
      BY <2>0
    <3> QED BY <3>1, <3>2, <2>2, <2>4
  <2>6. Rotated(f) = g
    BY <1>2 DEF Rotated
  <2> HIDE DEF t, s
  <2>7. g \in FairStates /\ g.holders = f.holders /\ g.waiting = f.waiting /\ g.roots = t
    BY <2>4 DEF FairStates
  <2> HIDE DEF g
  <2>8. LaneShape(js, g)
    BY <2>4, <2>5, <2>7 DEF LaneShape, s
  <2> QED BY <2>6, <2>7, <2>8
<1>3. CASE ~(Len(f.roots) > 1 /\ Head(f.roots) = f.last)
  BY <1>3 DEF Rotated
<1> QED BY <1>2, <1>3

\* RootIsFree looks only at the workers that are held.
LEMMA FreeByHolders ==
  ASSUME NEW js, NEW f, NEW g, g.holders = f.holders, NEW r
  PROVE  RootIsFree(js, g, r) <=> RootIsFree(js, f, r)
BY DEF RootIsFree

\* drive settles a lane that one grant settles, and loses nobody.
LEMMA Driven ==
  ASSUME NEW js, NEW limit \in Nat, NEW f \in FairStates, MaxRequests \in Nat,
         LaneShape(js, f), Cardinality(f.holders) <= limit, OneGrantSettles(js, f, limit)
  PROVE  LET d == Drive(js, f, limit)
         IN  /\ d \in FairStates /\ LaneShape(js, d) /\ Settled(js, d, limit)
             /\ Cardinality(d.holders) <= limit
             /\ f.holders \subseteq d.holders
             /\ Range(d.waiting) \cup d.holders = Range(f.waiting) \cup f.holders
<1> DEFINE e == Rotated(f)
           d == GrantOne(js, e, limit)
<1>0. Drive(js, f, limit) = d
  BY DEF Drive
<1>1. e \in FairStates /\ LaneShape(js, e) /\ e.holders = f.holders /\ e.waiting = f.waiting
  BY RotatedKeeps
<1> HIDE DEF e
<1>2. \A r : RootIsFree(js, e, r) <=> RootIsFree(js, f, r)
  BY <1>1, FreeByHolders
<1>3. Cardinality(f.holders) \in Nat /\ IsFiniteSet(f.holders)
  BY HoldersAreFinite
<1>4. CASE Cardinality(f.holders) >= limit \/ \A w \in Range(f.waiting) : ~RootIsFree(js, f, RootOf(js, w))
  <2>1. \A k \in DOMAIN e.roots : \E w \in Range(e.waiting) : e.roots[k] = RootOf(js, w)
    BY <1>1 DEF LaneShape, Range
  <2>2. Cardinality(e.holders) >= limit \/ {k \in DOMAIN e.roots : RootIsFree(js, e, e.roots[k])} = {}
    BY <2>1, <1>1, <1>2, <1>4
  <2>3. d = e
    BY <2>2 DEF GrantOne
  <2>4. Settled(js, e, limit)
    BY <1>1, <1>2, <1>3, <1>4 DEF Settled
  <2> HIDE DEF d
  <2> QED BY <1>0, <1>1, <2>3, <2>4
<1>5. CASE ~(Cardinality(f.holders) >= limit) /\ \E w \in Range(f.waiting) : RootIsFree(js, f, RootOf(js, w))
  <2>1. ~(Cardinality(e.holders) >= limit) /\ \E w \in Range(e.waiting) : RootIsFree(js, e, RootOf(js, w))
    BY <1>1, <1>2, <1>5
  <2>2. /\ d \in FairStates /\ LaneShape(js, d)
        /\ \E w \in Range(e.waiting) :
             /\ RootIsFree(js, e, RootOf(js, w))
             /\ d.holders = e.holders \cup {w}
             /\ Range(d.waiting) = Range(e.waiting) \ {w}
    BY <1>1, <2>1, Granted
  <2> HIDE DEF d
  <2>3. PICK w \in Range(f.waiting) :
             /\ RootIsFree(js, f, RootOf(js, w))
             /\ d.holders = f.holders \cup {w}
             /\ Range(d.waiting) = Range(f.waiting) \ {w}
    BY <1>1, <1>2, <2>2
  <2>4. w \notin f.holders
    BY DEF LaneShape
  <2>5. Cardinality(d.holders) = Cardinality(f.holders) + 1
    BY <2>3, <2>4, <1>3, FS_AddElement
  <2>6. Settled(js, d, limit)
    <3> SUFFICES ASSUME Cardinality(d.holders) < limit, NEW v \in Range(d.waiting)
                 PROVE  ~RootIsFree(js, d, RootOf(js, v))
      BY DEF Settled
    <3>1. v \in Range(f.waiting) /\ v # w
      BY <2>3
    <3>2. ~(Cardinality(f.holders) >= limit - 1)
      BY <2>5, <1>3
    <3>3. RootIsFree(js, f, RootOf(js, v)) => RootOf(js, v) = RootOf(js, w) /\ RootOf(js, w)[1] = "root"
      BY <3>1, <3>2, <2>3 DEF OneGrantSettles
    <3> QED BY <3>3, <2>3 DEF RootIsFree
  <2> QED BY <1>0, <1>3, <1>5, <2>2, <2>3, <2>5, <2>6
<1> QED BY <1>3, <1>4, <1>5

\* acquire: one new waiter needs at most one grant.
LEMMA EnqueuedNeedsOneGrant ==
  ASSUME NEW js, NEW limit \in Nat, NEW f \in FairStates, MaxRequests \in Nat,
         LaneShape(js, f), Settled(js, f, limit),
         NEW j \in 1..MaxRequests, j \notin Range(f.waiting) \cup f.holders,
         RootOf(js, j) \in FairRoots
  PROVE  LET e == Enqueued(js, f, j)
         IN  /\ e \in FairStates /\ LaneShape(js, e) /\ OneGrantSettles(js, e, limit)
             /\ e.holders = f.holders
             /\ Range(e.waiting) = Range(f.waiting) \cup {j}
<1> DEFINE r == RootOf(js, j)
           w == Append(f.waiting, j)
           q == IF r \in Range(f.roots) THEN f.roots ELSE Append(f.roots, r)
           e == Enqueued(js, f, j)
<1>1. f.waiting \in Seq(1..MaxRequests) /\ f.roots \in Seq(FairRoots)
  BY DEF FairStates
<1>2. w \in Seq(1..MaxRequests) /\ Distinct(w) /\ Range(w) = Range(f.waiting) \cup {j}
  BY <1>1, AppendedTo DEF LaneShape
<1>3. q \in Seq(FairRoots) /\ Distinct(q) /\ Range(q) = Range(f.roots) \cup {r}
  <2>1. CASE r \in Range(f.roots)
    BY <2>1, <1>1 DEF LaneShape
  <2>2. CASE r \notin Range(f.roots)
    <3>1. /\ Append(f.roots, r) \in Seq(FairRoots) /\ Distinct(Append(f.roots, r))
          /\ Range(Append(f.roots, r)) = Range(f.roots) \cup {r}
      BY <2>2, <1>1, AppendedTo DEF LaneShape
    <3> QED BY <2>2, <3>1
  <2> QED BY <2>1, <2>2
<1>4. e = [f EXCEPT !.waiting = w, !.roots = q]
  BY DEF Enqueued, FairStates
<1> HIDE DEF w, q, e
<1>5. e \in FairStates /\ e.waiting = w /\ e.roots = q /\ e.holders = f.holders
  BY <1>2, <1>3, <1>4 DEF FairStates
<1>6. LaneShape(js, e)
  <2>1. Range(w) \cap f.holders = {}
    BY <1>2 DEF LaneShape
  <2>2. Range(f.roots) = {RootOf(js, v) : v \in Range(f.waiting)}
    BY DEF LaneShape
  <2>3. Range(q) = {RootOf(js, v) : v \in Range(w)}
    BY <2>2, <1>2, <1>3
  <2> QED BY <2>1, <2>3, <1>2, <1>3, <1>5 DEF LaneShape
<1>7. Cardinality(f.holders) \in Nat
  BY HoldersAreFinite
<1>8. OneGrantSettles(js, e, limit)
  <2>1. CASE Cardinality(f.holders) < limit
    <3>1. \A v \in Range(f.waiting) : ~RootIsFree(js, e, RootOf(js, v))
      BY <2>1, <1>5, FreeByHolders DEF Settled
    <3> QED BY <3>1, <1>2, <1>5 DEF OneGrantSettles
  <2>2. CASE ~(Cardinality(f.holders) < limit)
    BY <2>2, <1>5, <1>7 DEF OneGrantSettles
  <2> QED BY <2>1, <2>2
<1> QED
  BY <1>2, <1>5, <1>6, <1>8 DEF e

\* FairPermit::drop: one released worker needs at most one grant.
LEMMA ReleasedNeedsOneGrant ==
  ASSUME NEW js, NEW limit \in Nat, NEW f \in FairStates, MaxRequests \in Nat,
         LaneShape(js, f), Settled(js, f, limit), Cardinality(f.holders) <= limit,
         NEW h \in f.holders
  PROVE  LET e == [f EXCEPT !.holders = @ \ {h}]
         IN  /\ e \in FairStates /\ LaneShape(js, e) /\ OneGrantSettles(js, e, limit)
             /\ e.holders = f.holders \ {h} /\ e.waiting = f.waiting
             /\ Cardinality(e.holders) <= limit
<1> DEFINE e == [f EXCEPT !.holders = @ \ {h}]
<1>1. /\ e \in FairStates /\ e.holders = f.holders \ {h} /\ e.waiting = f.waiting
      /\ e.roots = f.roots
  BY DEF FairStates
<1> HIDE DEF e
<1>2. LaneShape(js, e)
  BY <1>1 DEF LaneShape
<1>3. Cardinality(f.holders) \in Nat /\ IsFiniteSet(f.holders)
  BY HoldersAreFinite
<1>4. Cardinality(e.holders) = Cardinality(f.holders) - 1
  <2>1. Cardinality(f.holders \ {h}) = Cardinality(f.holders) - 1
    BY <1>3, FS_RemoveElement
  <2> QED BY <2>1, <1>1
<1>5. OneGrantSettles(js, e, limit)
  <2>1. CASE Cardinality(f.holders) < limit
    <3>1. ASSUME NEW v \in Range(f.waiting), RootIsFree(js, e, RootOf(js, v))
          PROVE  RootOf(js, v) = RootOf(js, h) /\ RootOf(js, v)[1] = "root"
      <4>1. ~RootIsFree(js, f, RootOf(js, v))
        BY <2>1 DEF Settled
      <4> QED BY <4>1, <3>1, <1>1 DEF RootIsFree
    <3> QED BY <3>1, <1>1 DEF OneGrantSettles
  <2>2. CASE ~(Cardinality(f.holders) < limit)
    BY <2>2, <1>3, <1>4 DEF OneGrantSettles
  <2> QED BY <2>1, <2>2
<1> QED
  BY <1>1, <1>2, <1>3, <1>4, <1>5 DEF e

(***************************************************************************)
(* Types                                                                   *)
(***************************************************************************)

\* A request names the conversation or the project it is about.
WellFormed(r) ==
  /\ IF r.op \in Unscoped THEN r.conv = None ELSE r.conv \in Conversations
  /\ r.op = "delete_project" => r.project \in Projects

\* What the handlers write and the lookups read.
WorldTyped ==
  /\ project \in [Conversations -> Projects \cup {None, "missing"}]
  /\ buried \subseteq Conversations
  /\ existing \subseteq Projects
  /\ run \in [Conversations -> {"none", "preparing", "committing", "active"}]
  /\ owner \in [Conversations -> 0..MaxRequests]
  /\ frozen \in [Conversations -> Projects \cup {None}]
  /\ cancelled \subseteq Conversations

LEMMA MemberTyped ==
  ASSUME NEW p \in Projects \cup {None}
  PROVE  Member(p) \in SUBSET Keys
BY DEF Member, Keys

LEMMA ScopeTyped ==
  ASSUME NEW kind \in Kinds, NEW c \in Conversations \cup {None}, NEW keys \in SUBSET Keys,
         NEW root \in ScopeRoots, NEW policy \in {"ordered", "ownership", "turn", "cancel"}
  PROVE  Scope(kind, c, keys, root, policy) \in Scopes
BY DEF Scope, Scopes

LEMMA FixedScopesTyped ==
  /\ Global \in Scopes /\ ExecutionAccess \in Scopes /\ Overview \in Scopes
  /\ \A c \in Conversations : GlobalTurnPreparation(c) \in Scopes
<1>1. None \in ScopeRoots /\ {"global", "global_turn", "access", "overview"} \subseteq Kinds
  BY DEF ScopeRoots, Kinds
<1> QED
  BY <1>1, ScopeTyped DEF Global, ExecutionAccess, Overview, GlobalTurnPreparation

\* Whatever a lookup reads, it returns a scope.
LEMMA ScopeOfTyped ==
  ASSUME WorldTyped, NEW r \in Requests, WellFormed(r)
  PROVE  ScopeOf(r) \in Scopes
<1> USE Sizes
<1>1. CASE r.op \in {"set_access", "overview", "configure"}
  BY <1>1, FixedScopesTyped DEF ScopeOf
<1>2. CASE r.op = "delete_project"
  <2>1. r.project \in Projects
    BY <1>2 DEF WellFormed
  <2>2. {<<"marker", r.project>>} \in SUBSET Keys /\ <<"project", r.project>> \in ScopeRoots
    BY <2>1 DEF Keys, ScopeRoots
  <2>3. "resources" \in Kinds
    BY DEF Kinds
  <2>4. Resources(None, {<<"marker", r.project>>}, <<"project", r.project>>, "ownership") \in Scopes
    BY <2>2, <2>3, ScopeTyped DEF Resources
  <2> QED BY <1>2, <2>4, FixedScopesTyped DEF ScopeOf
<1>3. CASE r.op \notin {"set_access", "overview", "configure", "delete_project"}
  <2>1. r.conv \in Conversations /\ r.project \in Projects \cup {None}
    BY <1>3 DEF WellFormed, Unscoped, Requests
  <2>2. Root[r.conv] \in Conversations /\ frozen[r.conv] \in Projects \cup {None}
    BY <2>1 DEF WorldTyped
  <2>3. Policy(r) \in {"ordered", "ownership", "turn", "cancel"}
    BY DEF Policy
  <2>4. RunKeys(r) \in SUBSET Keys
    <3>1. {<<"run", r.conv>>} \in SUBSET Keys
      BY <2>1 DEF Keys
    <3> QED BY <3>1, <2>2, MemberTyped DEF RunKeys
  <2>5. {<<"conversation", r.conv>>, <<"tree", r.conv>>, <<"tree", Root[r.conv]>>} \in SUBSET Keys
    BY <2>1, <2>2 DEF Keys
  <2>6. {r.conv, Root[r.conv]} \subseteq ScopeRoots /\ "resources" \in Kinds
    BY <2>1, <2>2 DEF ScopeRoots, Kinds
  <2>7. MissingScope(r) \in Scopes
    <3>1. Resources(r.conv, RunKeys(r) \cup {<<"conversation", r.conv>>, <<"tree", r.conv>>},
                    r.conv, "cancel") \in Scopes
      BY <2>1, <2>4, <2>5, <2>6, ScopeTyped DEF Resources
    <3> QED BY <3>1, <2>1, FixedScopesTyped DEF MissingScope
  <2>8. ASSUME ~Absent(r.conv) PROVE ConversationScope(r) \in Scopes
    <3>1. \A d \in Conversations : ~Absent(d) => Member(project[d]) \in SUBSET Keys
      BY MemberTyped DEF Absent, WorldTyped
    <3>2. TreeKeys(r) \in SUBSET Keys
      BY <3>1, <2>5 DEF TreeKeys, Tree
    <3>3. Member(r.project) \in SUBSET Keys
      BY <2>1, MemberTyped
    <3> DEFINE keys == {<<"conversation", r.conv>>} \cup RunKeys(r) \cup TreeKeys(r)
                          \cup Member(project[r.conv])
                          \cup (IF r.op = "save_meta" THEN Member(r.project) ELSE {})
    <3>4. keys \in SUBSET Keys
      BY <3>1, <3>2, <3>3, <2>1, <2>4, <2>5, <2>8
    <3> HIDE DEF keys
    <3>5. Resources(r.conv, keys, Root[r.conv], Policy(r)) \in Scopes
      BY <3>4, <2>1, <2>3, <2>6, ScopeTyped DEF Resources
    <3> QED BY <3>5, FixedScopesTyped DEF ConversationScope, keys
  <2> QED BY <1>3, <2>7, <2>8, FixedScopesTyped DEF ScopeOf
<1> QED
  BY <1>1, <1>2, <1>3

LEMMA LookedUpTyped ==
  ASSUME WorldTyped, NEW r \in Requests, WellFormed(r)
  PROVE  LookedUp(r) \in Scopes
BY ScopeOfTyped, FixedScopesTyped DEF LookedUp

(***************************************************************************)
(* The inductive invariant                                                 *)
(***************************************************************************)

RequestsAreWellFormed == \A j \in Ids : WellFormed(jobs[j].req)

\* A task waits for earlier requests only, and those of them that have been
\* answered have published their scope: waiting for either never blocks on
\* an answered request.
TasksWaitBackwards ==
  \A j \in Ids :
    /\ jobs[j].preds \subseteq 1..(j - 1)
    /\ jobs[j].todo \subseteq jobs[j].preds
    /\ ~Done(j) => jobs[j].on \in {0} \cup jobs[j].preds
    /\ jobs[j].pc \in {"ordering", "ready", "running"} => jobs[j].published
    /\ \A i \in jobs[j].preds : Done(i) => jobs[i].published

\* The answer is sent when the request is done, and only a shutdown, a failed
\* lookup or a refusal answers a request that was not run.
AnswersAreCounted ==
  \A j \in Ids :
    /\ jobs[j].answers = IF Done(j) THEN 1 ELSE 0
    /\ InHandler(j) => jobs[j].started
    /\ Done(j) /\ jobs[j].kind # "unknown" /\ ~stopping /\ ~jobs[j].failed => jobs[j].started

ReturnedIsDone == phase = "returned" => \A j \in Ids : Done(j)

\* A lane holds exactly the tasks of its class that are past the ordering:
\* those with a worker and those waiting for one.
LaneHoldsItsTasks(l) ==
  /\ \A j \in Range(fair[l].waiting) : j \in Ids /\ Lane(j) = l /\ jobs[j].pc = "ready"
  /\ \A j \in fair[l].holders : j \in Ids /\ Lane(j) = l /\ jobs[j].pc \in {"ready", "running"}
  /\ \A j \in Ids : Lane(j) = l /\ jobs[j].pc = "ready" =>
       j \in Range(fair[l].waiting) \cup fair[l].holders
  /\ \A j \in Ids : Lane(j) = l /\ jobs[j].pc = "running" => j \in fair[l].holders

LaneIsSettled(l) ==
  /\ LaneShape(jobs, fair[l])
  /\ Settled(jobs, fair[l], Concurrency[l])
  /\ Cardinality(fair[l].holders) <= Concurrency[l]

\* The invariant but for the types.
Orderly ==
  /\ RequestsAreWellFormed
  /\ TasksWaitBackwards
  /\ AnswersAreCounted
  /\ ReturnedIsDone
  /\ \A l \in Lanes : LaneHoldsItsTasks(l) /\ LaneIsSettled(l)

RInv == TypeOK /\ Orderly

\* The types of the dispatcher's own state.
TasksTyped ==
  /\ jobs \in Seq(Tasks) /\ Len(jobs) <= MaxRequests
  /\ fair \in [Lanes -> FairStates]
  /\ phase \in {"open", "returned"} /\ stopping \in BOOLEAN

LEMMA TypeOKParts == TypeOK <=> TasksTyped /\ WorldTyped
BY DEF TypeOK, TasksTyped, WorldTyped

LEMMA TypeOKPartsNext == TypeOK' <=> TasksTyped' /\ WorldTyped'
BY DEF TypeOK, TasksTyped, WorldTyped

LEMMA IdsAreNumbers ==
  ASSUME jobs \in Seq(Tasks), Len(jobs) <= MaxRequests
  PROVE  /\ Ids = 1..Len(jobs) /\ Len(jobs) \in Nat
         /\ \A j \in Ids : j \in 1..MaxRequests /\ jobs[j] \in Tasks
<1>1. Len(jobs) \in Nat /\ DOMAIN jobs = 1..Len(jobs)
  BY LenProperties
<1>2. \A j \in 1..Len(jobs) : jobs[j] \in Tasks
  BY ElementOfSeq
<1>3. 1..Len(jobs) \subseteq 1..MaxRequests
  BY <1>1, Sizes
<1> QED BY <1>1, <1>2, <1>3 DEF Ids

\* A step of one task leaves the others alone.
LEMMA OneTask ==
  ASSUME jobs \in Seq(Tasks), NEW j \in Ids, NEW t \in Tasks, jobs' = [jobs EXCEPT ![j] = t]
  PROVE  /\ jobs' \in Seq(Tasks) /\ Len(jobs') = Len(jobs) /\ Ids' = Ids
         /\ jobs'[j] = t
         /\ \A i \in Ids : i # j => jobs'[i] = jobs[i]
<1>1. Len(jobs) \in Nat /\ DOMAIN jobs = 1..Len(jobs)
  BY LenProperties
<1>2. jobs' \in Seq(Tasks) /\ Len(jobs') = Len(jobs)
  BY <1>1, ExceptSeq, LenProperties DEF Ids
<1>3. DOMAIN jobs' = 1..Len(jobs)
  BY <1>2, LenProperties
<1>4. \A i \in DOMAIN jobs : jobs'[i] = IF i = j THEN t ELSE jobs[i]
  BY <1>1 DEF Ids
<1> QED BY <1>1, <1>2, <1>3, <1>4 DEF Ids

\* What a lane looks like depends on the roots of its tasks only.
LEMMA SameRoots ==
  ASSUME NEW js, NEW ks, NEW f, NEW limit, LaneShape(js, f), Settled(js, f, limit),
         \A x \in Range(f.waiting) \cup f.holders : RootOf(ks, x) = RootOf(js, x)
  PROVE  LaneShape(ks, f) /\ Settled(ks, f, limit)
<1>1. LaneShape(ks, f)
  <2>1. {RootOf(ks, w) : w \in Range(f.waiting)} = {RootOf(js, w) : w \in Range(f.waiting)}
    OBVIOUS
  <2> QED BY <2>1 DEF LaneShape
<1>2. \A w \in Range(f.waiting) : RootIsFree(ks, f, RootOf(ks, w)) <=> RootIsFree(js, f, RootOf(js, w))
  BY DEF RootIsFree
<1> QED BY <1>1, <1>2 DEF Settled

(***************************************************************************)
(* Steps before a task is ready                                            *)
(***************************************************************************)

\* A task that goes on looking up, observing or ordering.
LEMMA TaskGoesOn ==
  ASSUME TasksTyped, Orderly, NEW j \in Ids, NEW t \in Tasks,
         jobs' = [jobs EXCEPT ![j] = t], UNCHANGED <<fair, phase, stopping>>,
         jobs[j].pc \in {"queued", "observing", "ordering"},
         t.pc \in {"observing", "ordering"}, t.pc = "ordering" => t.published,
         t.req = jobs[j].req, t.answers = jobs[j].answers,
         t.preds = jobs[j].preds, t.todo \subseteq t.preds, t.on \in {0} \cup t.preds
  PROVE  TasksTyped' /\ Orderly'
<1>1. /\ jobs' \in Seq(Tasks) /\ Len(jobs') = Len(jobs) /\ Ids' = Ids /\ jobs'[j] = t
      /\ \A i \in Ids : i # j => jobs'[i] = jobs[i]
  BY OneTask DEF TasksTyped
<1>2. TasksTyped'
  BY <1>1 DEF TasksTyped
<1>3. /\ \A i \in Ids : jobs[i].pc \in {"ready", "running", "done"} \/ jobs'[i].pc \in {"ready", "running", "done"}
           => jobs'[i] = jobs[i]
      /\ \A i \in Ids : jobs'[i].req = jobs[i].req
      /\ \A i \in Ids : Lane(i)' = Lane(i)
  BY <1>1 DEF Lane
<1>4. RequestsAreWellFormed'
  BY <1>1, <1>3 DEF Orderly, RequestsAreWellFormed
<1>5. ASSUME NEW i \in Ids
      PROVE  /\ jobs'[i].preds \subseteq 1..(i - 1)
             /\ jobs'[i].todo \subseteq jobs'[i].preds
             /\ ~Done(i)' => jobs'[i].on \in {0} \cup jobs'[i].preds
             /\ jobs'[i].pc \in {"ordering", "ready", "running"} => jobs'[i].published
             /\ \A k \in jobs'[i].preds : Done(k)' => jobs'[k].published
  <2>1. jobs'[i].preds = jobs[i].preds
    BY <1>1
  <2>2. Ids = 1..Len(jobs) /\ Len(jobs) \in Nat
    BY IdsAreNumbers DEF TasksTyped
  <2>3. jobs[i].preds \subseteq Ids
    BY <2>2 DEF Orderly, TasksWaitBackwards
  <2>4. \A k \in jobs'[i].preds : Done(k)' => jobs'[k].published
    BY <1>3, <2>1, <2>3 DEF Orderly, TasksWaitBackwards, Done
  <2>5. CASE i = j
    BY <1>1, <2>1, <2>4, <2>5 DEF Orderly, TasksWaitBackwards
  <2>6. CASE i # j
    BY <1>1, <2>1, <2>4, <2>6 DEF Orderly, TasksWaitBackwards, Done
  <2> QED BY <2>5, <2>6
<1>6. TasksWaitBackwards'
  BY <1>1, <1>5 DEF TasksWaitBackwards, Done
<1>7. AnswersAreCounted'
  <2>1. ASSUME NEW i \in Ids
        PROVE  /\ jobs'[i].answers = IF jobs'[i].pc = "done" THEN 1 ELSE 0
               /\ jobs'[i].pc = "running" => jobs'[i].started
               /\ jobs'[i].pc = "done" /\ jobs'[i].kind # "unknown" /\ ~stopping /\ ~jobs'[i].failed
                    => jobs'[i].started
    BY <1>1 DEF Orderly, AnswersAreCounted, Done, InHandler
  <2> QED BY <1>1, <2>1 DEF AnswersAreCounted, Done, InHandler
<1>8. ReturnedIsDone'
  BY <1>1 DEF Orderly, ReturnedIsDone, Done
<1>9. ASSUME NEW l \in Lanes PROVE LaneHoldsItsTasks(l)' /\ LaneIsSettled(l)'
  <2>1. fair'[l] = fair[l] OBVIOUS
  <2>2. LaneHoldsItsTasks(l)'
    BY <1>1, <1>3, <2>1 DEF Orderly, LaneHoldsItsTasks
  <2>3. \A x \in Range(fair[l].waiting) \cup fair[l].holders : RootOf(jobs', x) = RootOf(jobs, x)
    BY <1>3 DEF Orderly, LaneHoldsItsTasks, RootOf
  <2>4. LaneShape(jobs', fair[l]) /\ Settled(jobs', fair[l], Concurrency[l])
    BY <2>3, SameRoots DEF Orderly, LaneIsSettled
  <2> QED BY <2>1, <2>2, <2>4 DEF Orderly, LaneIsSettled
<1> QED BY <1>2, <1>4, <1>6, <1>7, <1>8, <1>9 DEF Orderly

LEMMA WithScopeKeeps ==
  ASSUME NEW job \in Tasks, NEW s \in Scopes
  PROVE  LET t == WithScope(job, s)
         IN  /\ t \in Tasks /\ t.req = job.req /\ t.answers = job.answers
             /\ t.preds = job.preds /\ t.todo = job.preds /\ t.on = 0
             /\ t.pc \in {"observing", "ordering"} /\ (t.pc = "ordering" => t.published)
<1> DEFINE a == [job EXCEPT !.scope = s, !.pc = "observing", !.todo = job.preds, !.on = 0,
                            !.again = FALSE]
           b == [job EXCEPT !.scope = s, !.pc = "ordering", !.todo = job.preds, !.on = 0,
                            !.published = TRUE]
<1>0. 0 \in 0..MaxRequests
  BY Sizes
<1>1. /\ a \in Tasks /\ a.req = job.req /\ a.answers = job.answers
      /\ a.preds = job.preds /\ a.todo = job.preds /\ a.on = 0 /\ a.pc = "observing"
  BY <1>0 DEF Tasks
<1>2. /\ b \in Tasks /\ b.req = job.req /\ b.answers = job.answers
      /\ b.preds = job.preds /\ b.todo = job.preds /\ b.on = 0 /\ b.pc = "ordering"
      /\ b.published
  BY <1>0 DEF Tasks
<1>3. WithScope(job, s) = IF s.kind = "resources" THEN a ELSE b
  BY DEF WithScope
<1> HIDE DEF a, b
<1> QED BY <1>1, <1>2, <1>3

LEMMA ResolveStep ==
  ASSUME TasksTyped, WorldTyped, Orderly, NEW j \in Ids, Resolve(j) \/ ResolveFails(j)
  PROVE  TasksTyped' /\ Orderly'
<1>1. jobs[j] \in Tasks /\ jobs[j].req \in Requests
  BY IdsAreNumbers DEF TasksTyped, Tasks
<1>2. LookedUp(jobs[j].req) \in Scopes /\ Global \in Scopes
  BY <1>1, LookedUpTyped, FixedScopesTyped DEF Orderly, RequestsAreWellFormed
<1>3. ASSUME NEW s \in Scopes, NEW kind \in {"turn", "other"}, NEW failed \in BOOLEAN
      PROVE  LET t == [WithScope(jobs[j], s) EXCEPT !.kind = kind, !.failed = failed]
             IN  /\ t \in Tasks /\ t.req = jobs[j].req /\ t.answers = jobs[j].answers
                 /\ t.preds = jobs[j].preds /\ t.todo = jobs[j].preds /\ t.on = 0
                 /\ t.pc \in {"observing", "ordering"} /\ (t.pc = "ordering" => t.published)
  <2> DEFINE u == WithScope(jobs[j], s)
             t == [u EXCEPT !.kind = kind, !.failed = failed]
  <2>1. /\ u \in Tasks /\ u.req = jobs[j].req /\ u.answers = jobs[j].answers
        /\ u.preds = jobs[j].preds /\ u.todo = jobs[j].preds /\ u.on = 0
        /\ u.pc \in {"observing", "ordering"} /\ (u.pc = "ordering" => u.published)
    BY <1>1, WithScopeKeeps
  <2> HIDE DEF u
  <2>2. /\ t \in Tasks /\ t.req = u.req /\ t.answers = u.answers /\ t.preds = u.preds
        /\ t.todo = u.todo /\ t.on = u.on /\ t.pc = u.pc /\ t.published = u.published
    BY <2>1, ZenonT(40) DEF Tasks
  <2> HIDE DEF t
  <2>3. t = [WithScope(jobs[j], s) EXCEPT !.kind = kind, !.failed = failed]
    BY DEF t, u
  <2> QED BY <2>1, <2>2, <2>3
<1>4. \E s \in Scopes, kind \in {"turn", "other"}, failed \in BOOLEAN :
         jobs' = [jobs EXCEPT ![j] = [WithScope(jobs[j], s) EXCEPT !.kind = kind, !.failed = failed]]
  <2>1. CASE Resolve(j)
    <3> DEFINE s == LookedUp(jobs[j].req)
               kind == IF IsTurnPreparation(s) THEN "turn" ELSE "other"
               u == WithScope(jobs[j], s)
    <3>1. jobs' = [jobs EXCEPT ![j] = [u EXCEPT !.kind = kind]]
      BY <2>1 DEF Resolve
    <3>2. kind \in {"turn", "other"}
      OBVIOUS
    <3>3. u \in Tasks
      BY <1>1, <1>2, WithScopeKeeps
    <3> HIDE DEF u, kind
    <3>4. [u EXCEPT !.kind = kind] = [u EXCEPT !.kind = kind, !.failed = u.failed] /\ u.failed \in BOOLEAN
      BY <3>3 DEF Tasks
    <3>5. jobs' = [jobs EXCEPT ![j] = [u EXCEPT !.kind = kind, !.failed = u.failed]]
      BY <3>1, <3>4
    <3> QED BY <1>2, <3>2, <3>4, <3>5 DEF u
  <2>2. CASE ResolveFails(j)
    <3>1. jobs' = [jobs EXCEPT ![j] = [WithScope(jobs[j], Global) EXCEPT !.kind = "other", !.failed = TRUE]]
      BY <2>2 DEF ResolveFails
    <3> QED BY <3>1, <1>2
  <2> QED BY <2>1, <2>2
<1>5. jobs[j].pc = "queued" /\ UNCHANGED <<fair, phase, stopping>>
  BY DEF Resolve, ResolveFails
<1>6. PICK s \in Scopes, kind \in {"turn", "other"}, failed \in BOOLEAN :
         jobs' = [jobs EXCEPT ![j] = [WithScope(jobs[j], s) EXCEPT !.kind = kind, !.failed = failed]]
  BY <1>4
<1> DEFINE t == [WithScope(jobs[j], s) EXCEPT !.kind = kind, !.failed = failed]
<1>7. /\ t \in Tasks /\ t.req = jobs[j].req /\ t.answers = jobs[j].answers
      /\ t.preds = jobs[j].preds /\ t.todo = jobs[j].preds /\ t.on = 0
      /\ t.pc \in {"observing", "ordering"} /\ (t.pc = "ordering" => t.published)
  BY <1>3, ZenonT(40)
<1>8. jobs' = [jobs EXCEPT ![j] = t]
  BY <1>6
<1> HIDE DEF t
<1>9. t.todo \subseteq t.preds /\ t.on \in {0} \cup t.preds
  BY <1>7
<1> QED BY <1>5, <1>7, <1>8, <1>9, TaskGoesOn

LEMMA ResumedKeeps ==
  ASSUME TasksTyped, Orderly, NEW j \in Ids, jobs[j].pc = "observing"
  PROVE  LET t == Resumed(j)
         IN  /\ t \in Tasks /\ t.req = jobs[j].req /\ t.answers = jobs[j].answers
             /\ t.preds = jobs[j].preds /\ t.todo = jobs[j].todo /\ t.on = 0
             /\ t.pc = "observing"
<1>1. jobs[j] \in Tasks /\ jobs[j].on \in 0..MaxRequests
  BY IdsAreNumbers DEF TasksTyped, Tasks
<1>2. CASE jobs[j].on = 0
  BY <1>1, <1>2 DEF Resumed
<1>3. CASE jobs[j].on # 0
  <2> DEFINE job == jobs[j]
             seen == job.seen \cup {job.on}
             t == [job EXCEPT !.seen = seen, !.again = TRUE, !.on = 0]
  <2>1. seen \in SUBSET (1..MaxRequests) /\ 0 \in 0..MaxRequests
    <3>1. job.on \in 1..MaxRequests
      BY <1>1, <1>3, Sizes
    <3> QED BY <1>1, <3>1, Sizes DEF Tasks
  <2>2. Resumed(j) = t
    BY <1>3 DEF Resumed
  <2> HIDE DEF seen
  <2>3. job \in Tasks /\ job.pc = "observing"
    BY <1>1
  <2> HIDE DEF job
  <2>4. /\ t \in Tasks /\ t.req = job.req /\ t.answers = job.answers /\ t.preds = job.preds
        /\ t.todo = job.todo /\ t.on = 0 /\ t.pc = "observing"
    BY <2>1, <2>3 DEF Tasks
  <2> HIDE DEF t
  <2> QED BY <2>2, <2>4 DEF job
<1> QED BY <1>2, <1>3

\* The task waits for a predecessor it has not passed over yet.
LEMMA AwaitInKeeps ==
  ASSUME NEW job \in Tasks, job.todo \subseteq job.preds,
         NEW S, S \subseteq job.todo, S # {}
  PROVE  LET t == AwaitIn(job, Min(S))
         IN  /\ t \in Tasks /\ t.req = job.req /\ t.answers = job.answers
             /\ t.preds = job.preds /\ t.todo \subseteq t.preds /\ t.on \in t.preds
             /\ t.pc = job.pc /\ t.published = job.published
<1>1. job.todo \subseteq 1..MaxRequests /\ job.todo \subseteq Nat
  BY Sizes DEF Tasks
<1>2. Min(S) \in S
  <2>1. S \in SUBSET Nat BY <1>1
  <2> QED BY <2>1, LeastNumber
<1> DEFINE i == Min(S)
<1> HIDE DEF i
<1>3. i \in job.todo /\ i \in 1..MaxRequests
  BY <1>1, <1>2 DEF i
<1> DEFINE todo == {k \in job.todo : k > i}
           t == [job EXCEPT !.on = i, !.todo = todo]
<1>4. todo \in SUBSET (1..MaxRequests) /\ todo \subseteq job.preds /\ i \in job.preds /\ i \in 0..MaxRequests
  BY <1>1, <1>3, Sizes
<1>5. AwaitIn(job, i) = t
  BY DEF AwaitIn
<1> HIDE DEF todo
<1>6. /\ t \in Tasks /\ t.req = job.req /\ t.answers = job.answers /\ t.preds = job.preds
      /\ t.todo = todo /\ t.on = i /\ t.pc = job.pc /\ t.published = job.published
  BY <1>4 DEF Tasks
<1> HIDE DEF t
<1> QED BY <1>4, <1>5, <1>6 DEF i

LEMMA ObserveStep ==
  ASSUME TasksTyped, WorldTyped, Orderly, NEW j \in Ids, Observe(j) \/ RefreshFails(j)
  PROVE  TasksTyped' /\ Orderly'
<1> DEFINE job == Resumed(j)
           stop == ObserveStops(j)
<1>0. jobs[j].pc = "observing" /\ UNCHANGED <<fair, phase, stopping>>
  BY DEF Observe, RefreshFails, CanObserve
<1>1. /\ job \in Tasks /\ job.req = jobs[j].req /\ job.answers = jobs[j].answers
      /\ job.preds = jobs[j].preds /\ job.todo = jobs[j].todo /\ job.on = 0
      /\ job.pc = "observing"
  BY <1>0, ResumedKeeps
<1>2. jobs[j].todo \subseteq jobs[j].preds /\ WellFormed(job.req) /\ job.req \in Requests
  BY <1>1 DEF Orderly, TasksWaitBackwards, RequestsAreWellFormed, Tasks
<1>3. LookedUp(job.req) \in Scopes /\ Global \in Scopes
  BY <1>2, LookedUpTyped, FixedScopesTyped
<1>4. stop \subseteq job.todo
  BY <1>1 DEF ObserveStops
<1> HIDE DEF job, stop
<1> SUFFICES \E t \in Tasks :
         /\ jobs' = [jobs EXCEPT ![j] = t]
         /\ t.req = job.req /\ t.answers = job.answers
         /\ t.preds = job.preds /\ t.todo \subseteq t.preds /\ t.on \in {0} \cup t.preds
         /\ t.pc \in {"observing", "ordering"} /\ (t.pc = "ordering" => t.published)
  BY <1>0, <1>1, TaskGoesOn
<1>5. ASSUME NEW s \in Scopes
      PROVE  LET t == WithScope(job, s)
             IN  /\ t \in Tasks /\ t.req = job.req /\ t.answers = job.answers
                 /\ t.preds = job.preds /\ t.todo = job.preds /\ t.on = 0
                 /\ t.pc \in {"observing", "ordering"} /\ (t.pc = "ordering" => t.published)
  BY <1>1, WithScopeKeeps
<1>6. CASE Observe(j) /\ stop # {}
  <2>1. jobs' = [jobs EXCEPT ![j] = AwaitIn(job, Min(stop))]
    BY <1>6 DEF Observe, job, stop
  <2>2. job.todo \subseteq job.preds
    BY <1>1, <1>2
  <2>3. LET t == AwaitIn(job, Min(stop))
        IN  /\ t \in Tasks /\ t.req = job.req /\ t.answers = job.answers
            /\ t.preds = job.preds /\ t.todo \subseteq t.preds /\ t.on \in t.preds
            /\ t.pc = job.pc
    BY <1>1, <1>4, <1>6, <2>2, AwaitInKeeps
  <2> QED BY <1>1, <2>1, <2>3
<1>7. CASE Observe(j) /\ stop = {} /\ job.again
  <2>1. jobs' = [jobs EXCEPT ![j] = WithScope(job, LookedUp(job.req))]
    BY <1>7 DEF Observe, job, stop
  <2> QED BY <1>3, <1>5, <2>1
<1>8. CASE Observe(j) /\ stop = {} /\ ~job.again
  <2> DEFINE t == [job EXCEPT !.published = TRUE, !.pc = "ordering", !.todo = job.preds]
  <2>1. jobs' = [jobs EXCEPT ![j] = t]
    BY <1>8 DEF Observe, job, stop
  <2>2. /\ t \in Tasks /\ t.req = job.req /\ t.answers = job.answers /\ t.preds = job.preds
        /\ t.todo = job.preds /\ t.on = job.on /\ t.pc = "ordering" /\ t.published
    BY <1>1 DEF Tasks
  <2> HIDE DEF t
  <2> QED BY <1>1, <2>1, <2>2
<1>9. CASE RefreshFails(j)
  <2> DEFINE u == WithScope(job, Global)
             t == [u EXCEPT !.failed = TRUE]
  <2>1. jobs' = [jobs EXCEPT ![j] = t]
    BY <1>9 DEF RefreshFails, job
  <2>2. /\ u \in Tasks /\ u.req = job.req /\ u.answers = job.answers
        /\ u.preds = job.preds /\ u.todo = job.preds /\ u.on = 0
        /\ u.pc \in {"observing", "ordering"} /\ (u.pc = "ordering" => u.published)
    BY <1>3, <1>5
  <2> HIDE DEF u
  <2>3. /\ t \in Tasks /\ t.req = u.req /\ t.answers = u.answers /\ t.preds = u.preds
        /\ t.todo = u.todo /\ t.on = u.on /\ t.pc = u.pc /\ t.published = u.published
    BY <2>2 DEF Tasks
  <2> HIDE DEF t
  <2> QED BY <2>1, <2>2, <2>3
<1> QED BY <1>6, <1>7, <1>8, <1>9

(***************************************************************************)
(* Steps of a task that is ready                                           *)
(***************************************************************************)

\* A task enters its lane, gets on in it or leaves it; d is its lane then.
LEMMA LaneStep ==
  ASSUME TasksTyped, Orderly, NEW j \in Ids, NEW t \in Tasks, NEW d \in FairStates,
         jobs' = [jobs EXCEPT ![j] = t], fair' = [fair EXCEPT ![Lane(j)] = d],
         UNCHANGED <<phase, stopping>>,
         jobs[j].pc \in {"ordering", "ready", "running"}, t.pc \in {"ready", "running", "done"},
         t.req = jobs[j].req, t.scope = jobs[j].scope, t.published,
         t.preds \subseteq jobs[j].preds, t.todo \subseteq t.preds,
         t.pc # "done" => t.on \in {0} \cup t.preds,
         t.answers = IF t.pc = "done" THEN 1 ELSE 0,
         t.started \/ (t.pc = "done" /\ (stopping \/ t.failed)) \/ t.pc = "ready",
         LaneShape(jobs, d), Settled(jobs, d, Concurrency[Lane(j)]),
         Cardinality(d.holders) <= Concurrency[Lane(j)],
         fair[Lane(j)].holders \ {j} \subseteq d.holders,
         (Range(d.waiting) \cup d.holders) \ {j}
            = (Range(fair[Lane(j)].waiting) \cup fair[Lane(j)].holders) \ {j},
         j \in Range(d.waiting) => t.pc = "ready",
         j \in d.holders => t.pc \in {"ready", "running"},
         t.pc = "ready" => j \in Range(d.waiting) \cup d.holders,
         t.pc = "running" => j \in d.holders
  PROVE  TasksTyped' /\ Orderly'
<1>1. /\ jobs' \in Seq(Tasks) /\ Len(jobs') = Len(jobs) /\ Ids' = Ids /\ jobs'[j] = t
      /\ \A i \in Ids : i # j => jobs'[i] = jobs[i]
  BY OneTask DEF TasksTyped
<1>2. Lane(j) \in Lanes
  BY DEF Lane, Class, Lanes
<1>3. fair' \in [Lanes -> FairStates] /\ fair'[Lane(j)] = d /\ \A l \in Lanes : l # Lane(j) => fair'[l] = fair[l]
  BY <1>2 DEF TasksTyped
<1>4. TasksTyped'
  BY <1>1, <1>3 DEF TasksTyped
<1>5. /\ \A i \in Ids : jobs'[i].req = jobs[i].req
      /\ \A i \in Ids : Lane(i)' = Lane(i)
      /\ \A i \in Ids : RootOf(jobs', i) = RootOf(jobs, i)
  BY <1>1 DEF Lane, RootOf
<1>6. RequestsAreWellFormed'
  BY <1>1, <1>5 DEF Orderly, RequestsAreWellFormed
<1>7. ASSUME NEW i \in Ids
      PROVE  /\ jobs'[i].preds \subseteq 1..(i - 1)
             /\ jobs'[i].todo \subseteq jobs'[i].preds
             /\ ~Done(i)' => jobs'[i].on \in {0} \cup jobs'[i].preds
             /\ jobs'[i].pc \in {"ordering", "ready", "running"} => jobs'[i].published
             /\ \A k \in jobs'[i].preds : Done(k)' => jobs'[k].published
  <2>1. jobs'[i].preds \subseteq jobs[i].preds
    BY <1>1
  <2>2. Ids = 1..Len(jobs) /\ Len(jobs) \in Nat
    BY IdsAreNumbers DEF TasksTyped
  <2>3. jobs[i].preds \subseteq Ids
    BY <2>2 DEF Orderly, TasksWaitBackwards
  <2>4. \A k \in jobs'[i].preds : Done(k)' => jobs'[k].published
    BY <1>1, <2>1, <2>3 DEF Orderly, TasksWaitBackwards, Done
  <2>5. CASE i = j
    BY <1>1, <2>1, <2>4, <2>5 DEF Orderly, TasksWaitBackwards, Done
  <2>6. CASE i # j
    BY <1>1, <2>1, <2>4, <2>6 DEF Orderly, TasksWaitBackwards, Done
  <2> QED BY <2>5, <2>6
<1>8. TasksWaitBackwards'
  BY <1>1, <1>7 DEF TasksWaitBackwards, Done
<1>9. AnswersAreCounted'
  <2>1. ASSUME NEW i \in Ids
        PROVE  /\ jobs'[i].answers = IF jobs'[i].pc = "done" THEN 1 ELSE 0
               /\ jobs'[i].pc = "running" => jobs'[i].started
               /\ jobs'[i].pc = "done" /\ jobs'[i].kind # "unknown" /\ ~stopping /\ ~jobs'[i].failed
                    => jobs'[i].started
    BY <1>1 DEF Orderly, AnswersAreCounted, Done, InHandler
  <2> QED BY <1>1, <2>1 DEF AnswersAreCounted, Done, InHandler
<1>10. ReturnedIsDone'
  BY <1>1 DEF Orderly, ReturnedIsDone, Done
<1>11. ASSUME NEW l \in Lanes PROVE LaneHoldsItsTasks(l)' /\ LaneIsSettled(l)'
  <2>0. LaneHoldsItsTasks(l) /\ LaneIsSettled(l)
    BY DEF Orderly
  <2>1. CASE l = Lane(j)
    <3>1. fair'[l] = d
      BY <1>3, <2>1
    <3>2. ASSUME NEW x \in Range(d.waiting) PROVE x \in Ids /\ Lane(x) = l /\ jobs'[x].pc = "ready"
      <4>1. x \notin d.holders
        BY DEF LaneShape
      <4> QED BY <1>1, <2>0, <2>1, <4>1 DEF LaneHoldsItsTasks
    <3>3. ASSUME NEW x \in d.holders PROVE x \in Ids /\ Lane(x) = l /\ jobs'[x].pc \in {"ready", "running"}
      BY <1>1, <2>0, <2>1 DEF LaneHoldsItsTasks
    <3>4. ASSUME NEW x \in Ids, Lane(x) = l, jobs'[x].pc \in {"ready", "running"}
          PROVE  /\ x \in Range(d.waiting) \cup d.holders
                 /\ jobs'[x].pc = "running" => x \in d.holders
      <4>1. CASE x = j
        BY <1>1, <3>4, <4>1
      <4>2. CASE x # j
        BY <1>1, <2>0, <2>1, <3>4, <4>2 DEF LaneHoldsItsTasks
      <4> QED BY <4>1, <4>2
    <3>5. LaneHoldsItsTasks(l)'
      BY <1>1, <1>5, <3>1, <3>2, <3>3, <3>4 DEF LaneHoldsItsTasks
    <3>6. \A x \in Range(d.waiting) \cup d.holders : RootOf(jobs', x) = RootOf(jobs, x)
      BY <1>5, <3>2, <3>3
    <3>7. LaneShape(jobs', d) /\ Settled(jobs', d, Concurrency[l])
      BY <2>1, <3>6, SameRoots
    <3> QED BY <2>1, <3>1, <3>5, <3>7 DEF LaneIsSettled
  <2>2. CASE l # Lane(j)
    <3>1. fair'[l] = fair[l]
      BY <1>3, <2>2
    <3>2. LaneHoldsItsTasks(l)'
      BY <1>1, <1>5, <2>0, <2>2, <3>1 DEF LaneHoldsItsTasks
    <3>3. \A x \in Range(fair[l].waiting) \cup fair[l].holders : RootOf(jobs', x) = RootOf(jobs, x)
      BY <1>5, <2>0 DEF LaneHoldsItsTasks
    <3>4. LaneShape(jobs', fair[l]) /\ Settled(jobs', fair[l], Concurrency[l])
      BY <2>0, <3>3, SameRoots DEF LaneIsSettled
    <3> QED BY <2>0, <3>1, <3>2, <3>4 DEF LaneIsSettled
  <2> QED BY <2>1, <2>2
<1> QED BY <1>4, <1>6, <1>8, <1>9, <1>10, <1>11 DEF Orderly

LEMMA RootTyped ==
  ASSUME NEW js, NEW j, js[j] \in Tasks
  PROVE  RootOf(js, j) \in FairRoots
<1>1. js[j].scope \in Scopes
  BY DEF Tasks
<1>2. js[j].scope.kind \in Kinds /\ js[j].scope.root \in ScopeRoots
  BY <1>1 DEF Scopes
<1> QED BY <1>2 DEF RootOf, FairnessRoot, FairRoots

LEMMA LaneLimit ==
  ASSUME NEW j
  PROVE  Lane(j) \in Lanes /\ Concurrency[Lane(j)] \in Nat \ {0}
<1>1. Lane(j) \in Lanes
  BY DEF Lane, Class, Lanes
<1> QED BY <1>1, Sizes

LEMMA OrderStep ==
  ASSUME TasksTyped, Orderly, NEW j \in Ids, Order(j)
  PROVE  TasksTyped' /\ Orderly'
<1> DEFINE job == jobs[j]
           l == Lane(j)
           f == fair[l]
<1>0. job.pc = "ordering" /\ UNCHANGED <<phase, stopping>>
  BY DEF Order, CanOrder
<1>1. job \in Tasks /\ j \in 1..MaxRequests
  BY IdsAreNumbers DEF TasksTyped
<1>2. job.todo \subseteq job.preds /\ job.published /\ job.answers = 0
  BY <1>0 DEF Orderly, TasksWaitBackwards, AnswersAreCounted, Done
<1>3. l \in Lanes /\ Concurrency[l] \in Nat
  BY LaneLimit
<1>4. CASE OrderStops(j) # {}
  <2>1. jobs' = [jobs EXCEPT ![j] = AwaitIn(job, Min(OrderStops(j)))] /\ UNCHANGED fair
    BY <1>4 DEF Order
  <2>2. OrderStops(j) \subseteq job.todo
    BY DEF OrderStops
  <2> HIDE DEF job
  <2>3. LET t == AwaitIn(job, Min(OrderStops(j)))
        IN  /\ t \in Tasks /\ t.req = job.req /\ t.answers = job.answers
            /\ t.preds = job.preds /\ t.todo \subseteq t.preds /\ t.on \in t.preds
            /\ t.pc = job.pc /\ t.published = job.published
    BY <1>1, <1>2, <1>4, <2>2, AwaitInKeeps
  <2> DEFINE t == AwaitIn(job, Min(OrderStops(j)))
  <2> HIDE DEF t
  <2>4. /\ t \in Tasks /\ t.req = job.req /\ t.answers = job.answers
        /\ t.preds = job.preds /\ t.todo \subseteq t.preds /\ t.on \in {0} \cup t.preds
        /\ t.pc = "ordering" /\ t.published /\ jobs' = [jobs EXCEPT ![j] = t]
    BY <2>1, <2>3, <1>0, <1>2 DEF t
  <2> QED BY <2>1, <2>4, <1>0, TaskGoesOn DEF job
<1>5. CASE OrderStops(j) = {}
  <2> DEFINE t == [job EXCEPT !.pc = "ready", !.on = 0]
             e == Enqueued(jobs, f, j)
             d == Drive(jobs, e, Concurrency[l])
  <2>1. jobs' = [jobs EXCEPT ![j] = t] /\ fair' = [fair EXCEPT ![l] = d]
    BY <1>1, <1>3, <1>5 DEF Order
  <2>2. /\ t \in Tasks /\ t.req = job.req /\ t.scope = job.scope /\ t.published = job.published
        /\ t.preds = job.preds /\ t.todo = job.todo /\ t.on = 0 /\ t.pc = "ready"
        /\ t.answers = job.answers
    <3>1. 0 \in 0..MaxRequests
      BY Sizes
    <3> HIDE DEF job
    <3> QED BY <3>1, <1>1 DEF Tasks
  <2> HIDE DEF t
  <2>3. f \in FairStates /\ LaneHoldsItsTasks(l) /\ LaneIsSettled(l)
    BY <1>3 DEF TasksTyped, Orderly
  <2>4. j \notin Range(f.waiting) \cup f.holders
    BY <2>3, <1>0 DEF LaneHoldsItsTasks
  <2>5. RootOf(jobs, j) \in FairRoots
    BY <1>1, RootTyped
  <2>6. LaneShape(jobs, f) /\ Settled(jobs, f, Concurrency[l]) /\ Cardinality(f.holders) <= Concurrency[l]
    BY <2>3 DEF LaneIsSettled
  <2>7. MaxRequests \in Nat
    BY Sizes
  <2> HIDE DEF l, f, job
  <2>8. /\ e \in FairStates /\ LaneShape(jobs, e) /\ OneGrantSettles(jobs, e, Concurrency[l])
        /\ e.holders = f.holders /\ Range(e.waiting) = Range(f.waiting) \cup {j}
    BY ONLY <2>3, <2>4, <2>5, <2>6, <2>7, <1>1, <1>3, EnqueuedNeedsOneGrant
  <2> HIDE DEF e
  <2>9. /\ d \in FairStates /\ LaneShape(jobs, d) /\ Settled(jobs, d, Concurrency[l])
        /\ Cardinality(d.holders) <= Concurrency[l]
        /\ e.holders \subseteq d.holders
        /\ Range(d.waiting) \cup d.holders = Range(e.waiting) \cup e.holders
    BY <2>6, <2>7, <2>8, <1>3, Driven
  <2> HIDE DEF d
  <2>10. /\ f.holders \ {j} \subseteq d.holders
         /\ (Range(d.waiting) \cup d.holders) \ {j} = (Range(f.waiting) \cup f.holders) \ {j}
         /\ j \in Range(d.waiting) \cup d.holders
    BY <2>8, <2>9
  <2>11. t.answers = IF t.pc = "done" THEN 1 ELSE 0
    BY <2>2, <1>2
  <2> QED BY <1>0, <1>2, <2>1, <2>2, <2>9, <2>10, <2>11, LaneStep DEF l, f, job
<1> QED BY <1>4, <1>5

\* The task answers and releases its worker.
LEMMA CompleteStep ==
  ASSUME TasksTyped, Orderly, NEW j \in Ids, j \in fair[Lane(j)].holders, Complete(j),
         UNCHANGED <<phase, stopping>>, jobs[j].started \/ stopping \/ jobs[j].failed
  PROVE  TasksTyped' /\ Orderly'
<1> DEFINE job == jobs[j]
           l == Lane(j)
           f == fair[l]
           t == [job EXCEPT !.pc = "done", !.answers = 1, !.preds = {}, !.todo = {}, !.seen = {}]
           e == [f EXCEPT !.holders = @ \ {j}]
           d == Drive(jobs, e, Concurrency[l])
<1>1. job \in Tasks
  BY IdsAreNumbers DEF TasksTyped
<1>2. l \in Lanes /\ Concurrency[l] \in Nat /\ MaxRequests \in Nat
  BY LaneLimit, Sizes
<1>3. f \in FairStates /\ LaneHoldsItsTasks(l) /\ LaneIsSettled(l)
  BY <1>2 DEF TasksTyped, Orderly
<1>4. LaneShape(jobs, f) /\ Settled(jobs, f, Concurrency[l]) /\ Cardinality(f.holders) <= Concurrency[l]
  BY <1>3 DEF LaneIsSettled
<1>5. job.pc \in {"ready", "running"} /\ j \notin Range(f.waiting) /\ j \in f.holders
  BY <1>3, <1>4 DEF LaneHoldsItsTasks, LaneShape
<1>6. job.answers = 0 /\ job.published
  BY <1>5 DEF Orderly, AnswersAreCounted, TasksWaitBackwards, Done
<1>7. jobs' = [jobs EXCEPT ![j] = t] /\ fair' = [fair EXCEPT ![l] = d]
  <2>1. fair' = [fair EXCEPT ![l] = d]
    BY DEF Complete, Released
  <2>2. jobs' = [jobs EXCEPT ![j] = Answered(job)]
    BY DEF Complete
  <2>3. Answered(job) = t
    BY <1>6 DEF Answered
  <2> QED BY <2>1, <2>2, <2>3
<1>8. /\ t \in Tasks /\ t.req = job.req /\ t.scope = job.scope /\ t.published = job.published
      /\ t.preds = {} /\ t.todo = {} /\ t.pc = "done" /\ t.answers = 1
      /\ (t.started <=> job.started) /\ (t.failed <=> job.failed)
  <2> HIDE DEF job
  <2>1. job.answers \in 0..1 /\ 1 \in 0..1
    BY <1>1 DEF Tasks
  <2>2. t \in Tasks
    BY <1>1, <2>1 DEF Tasks
  <2> QED BY <1>1, <2>2 DEF Tasks
<1> HIDE DEF l, f, job, t
<1>9. /\ e \in FairStates /\ LaneShape(jobs, e) /\ OneGrantSettles(jobs, e, Concurrency[l])
      /\ e.holders = f.holders \ {j} /\ e.waiting = f.waiting
      /\ Cardinality(e.holders) <= Concurrency[l]
  BY <1>2, <1>3, <1>4, <1>5, ReleasedNeedsOneGrant
<1> HIDE DEF e
<1>10. /\ d \in FairStates /\ LaneShape(jobs, d) /\ Settled(jobs, d, Concurrency[l])
       /\ Cardinality(d.holders) <= Concurrency[l]
       /\ e.holders \subseteq d.holders
       /\ Range(d.waiting) \cup d.holders = Range(e.waiting) \cup e.holders
  BY <1>2, <1>9, Driven
<1> HIDE DEF d
<1>11. /\ f.holders \ {j} \subseteq d.holders
       /\ (Range(d.waiting) \cup d.holders) \ {j} = (Range(f.waiting) \cup f.holders) \ {j}
       /\ j \notin Range(d.waiting) \cup d.holders
  BY <1>5, <1>9, <1>10
<1>12. /\ t.answers = IF t.pc = "done" THEN 1 ELSE 0
       /\ t.preds \subseteq job.preds /\ t.todo \subseteq t.preds
       /\ t.started \/ (t.pc = "done" /\ (stopping \/ t.failed)) \/ t.pc = "ready"
  BY <1>8 DEF job
<1> QED BY <1>5, <1>6, <1>7, <1>8, <1>10, <1>11, <1>12, LaneStep DEF l, f, job

\* A worker begins with the task, or answers it without running it.
LEMMA StartStep ==
  ASSUME TasksTyped, Orderly, NEW j \in Ids, Start(j)
  PROVE  TasksTyped' /\ Orderly'
<1>1. jobs[j].pc = "ready" /\ j \in fair[Lane(j)].holders /\ UNCHANGED <<phase, stopping>>
  BY DEF Start, CanStart
<1>2. CASE stopping \/ jobs[j].failed
  BY <1>1, <1>2, CompleteStep DEF Start
<1>3. CASE ~(stopping \/ jobs[j].failed)
  <2> DEFINE job == jobs[j]
             l == Lane(j)
             f == fair[l]
             t == [job EXCEPT !.pc = "running", !.started = TRUE]
  <2>1. job \in Tasks
    BY IdsAreNumbers DEF TasksTyped
  <2>2. l \in Lanes /\ fair \in [Lanes -> FairStates]
    BY LaneLimit DEF TasksTyped
  <2>3. f \in FairStates /\ LaneHoldsItsTasks(l) /\ LaneIsSettled(l)
    BY <2>2 DEF Orderly
  <2>4. LaneShape(jobs, f) /\ Settled(jobs, f, Concurrency[l]) /\ Cardinality(f.holders) <= Concurrency[l]
    BY <2>3 DEF LaneIsSettled
  <2>5. j \notin Range(f.waiting)
    BY <1>1, <2>4 DEF LaneShape
  <2>6. /\ job.answers = 0 /\ job.published /\ job.todo \subseteq job.preds
        /\ job.on \in {0} \cup job.preds
    BY <1>1 DEF Orderly, AnswersAreCounted, TasksWaitBackwards, Done
  <2>7. jobs' = [jobs EXCEPT ![j] = t] /\ fair' = [fair EXCEPT ![l] = f]
    BY <1>3, <2>2 DEF Start
  <2>8. /\ t \in Tasks /\ t.req = job.req /\ t.scope = job.scope /\ t.published = job.published
        /\ t.preds = job.preds /\ t.todo = job.todo /\ t.on = job.on /\ t.pc = "running"
        /\ t.answers = job.answers /\ t.started
    <3> HIDE DEF job
    <3> QED BY <2>1 DEF Tasks
  <2> HIDE DEF t, l, f, job
  <2>9. t.answers = IF t.pc = "done" THEN 1 ELSE 0
    BY <2>6, <2>8
  <2> QED BY <1>1, <2>3, <2>4, <2>5, <2>6, <2>7, <2>8, <2>9, LaneStep DEF l, f, job
<1> QED BY <1>2, <1>3

(***************************************************************************)
(* Admission, handlers and shutdown                                        *)
(***************************************************************************)

LEMMA SubmitStep ==
  ASSUME TasksTyped, WorldTyped, Orderly, NEW r \in Menu, Submit(r)
  PROVE  TasksTyped' /\ Orderly'
<1> DEFINE named == [op |-> r.op, conv |-> r.conv, project |-> r.project,
                     run |-> IF r.op \in {"cancel_run", "approve"} THEN owner[r.conv] ELSE 0]
           n == Len(jobs) + 1
<1>0. /\ n - 1 < MaxRequests /\ phase = "open" /\ UNCHANGED <<fair, phase, stopping>>
  BY DEF Submit
<1>1. Ids = 1..(n - 1) /\ n \in 1..MaxRequests /\ Ids \subseteq 1..MaxRequests /\ n \notin Ids
  BY <1>0, IdsAreNumbers, Sizes DEF TasksTyped
<1>2. WellFormed(r) /\ r.op \in Ops /\ r.conv \in Conversations \cup {None} /\ r.project \in Projects \cup {None}
  BY Sizes DEF WellFormed
<1>3. named \in Requests /\ WellFormed(named)
  <2>1. r.op \in {"cancel_run", "approve"} => owner[r.conv] \in 0..MaxRequests
    BY <1>2 DEF WellFormed, Unscoped, WorldTyped
  <2>2. named.run \in 0..MaxRequests
    BY <2>1, Sizes
  <2> QED BY <1>2, <2>2 DEF Requests, WellFormed
<1> HIDE DEF named
<1> DEFINE x == IF stopping \/ LaneIsFull(r) THEN Rejected(named) ELSE NewJob(named)
<1>4. jobs' = Append(jobs, x)
  BY DEF Submit, named
<1>5. /\ NewJob(named) \in Tasks
      /\ \A i \in NewJob(named).preds : i \in Ids /\ ~Done(i)
      /\ NewJob(named).todo = {} /\ NewJob(named).on = 0 /\ NewJob(named).req = named
      /\ NewJob(named).pc = "queued" /\ NewJob(named).kind = "unknown" /\ NewJob(named).answers = 0
  <2>1. {i \in Ids : ~Done(i)} \in SUBSET (1..MaxRequests) /\ 0 \in 0..MaxRequests
    BY <1>1, Sizes
  <2> QED BY <2>1, <1>3, FixedScopesTyped DEF NewJob, Tasks
<1>6. /\ Rejected(named) \in Tasks
      /\ Rejected(named).preds = {} /\ Rejected(named).todo = {} /\ Rejected(named).req = named
      /\ Rejected(named).pc = "done" /\ Rejected(named).kind = "unknown" /\ Rejected(named).answers = 1
  <2> DEFINE u == NewJob(named)
             v == [u EXCEPT !.preds = {}, !.pc = "done", !.answers = 1]
  <2>1. Rejected(named) = v
    BY DEF Rejected
  <2>2. u \in Tasks /\ u.todo = {} /\ u.req = named /\ u.kind = "unknown"
    BY <1>5
  <2> HIDE DEF u
  <2>3. v \in Tasks /\ v.preds = {} /\ v.todo = u.todo /\ v.req = u.req /\ v.pc = "done" /\ v.kind = u.kind /\ v.answers = 1
    <3>1. 1 \in 0..1 OBVIOUS
    <3>2. v \in Tasks BY <2>2, <3>1 DEF Tasks
    <3> QED BY <2>2, <3>2 DEF Tasks
  <2> HIDE DEF v
  <2> QED BY <2>1, <2>2, <2>3
<1>7. /\ x \in Tasks /\ x.req = named /\ x.todo = {} /\ x.kind = "unknown"
      /\ \A i \in x.preds : i \in Ids /\ ~Done(i)
      /\ x.pc \in {"queued", "done"} /\ x.answers = (IF x.pc = "done" THEN 1 ELSE 0)
      /\ x.pc # "done" => x.on = 0
  BY <1>5, <1>6
<1> HIDE DEF x
<1>8. /\ jobs' \in Seq(Tasks) /\ Len(jobs') = n /\ Ids' = Ids \cup {n} /\ jobs'[n] = x
      /\ \A i \in Ids : jobs'[i] = jobs[i]
  <2>0. jobs \in Seq(Tasks) /\ Len(jobs) \in Nat /\ DOMAIN jobs = 1..Len(jobs)
    BY LenProperties DEF TasksTyped
  <2>1. /\ jobs' \in Seq(Tasks) /\ Len(jobs') = Len(jobs) + 1
        /\ \A i \in 1..Len(jobs) : jobs'[i] = jobs[i]
        /\ jobs'[Len(jobs) + 1] = x
    BY <1>4, <1>7, <2>0, AppendProperties
  <2>2. DOMAIN jobs' = 1..(Len(jobs) + 1)
    BY <2>1, LenProperties
  <2> QED BY <2>0, <2>1, <2>2 DEF Ids
<1> HIDE DEF n
<1>9. TasksTyped'
  <2>1. Len(jobs') <= MaxRequests
    BY <1>1, <1>8, Sizes
  <2> QED BY <1>0, <1>8, <2>1 DEF TasksTyped
<1>10. RequestsAreWellFormed'
  BY <1>3, <1>7, <1>8 DEF Orderly, RequestsAreWellFormed
<1>11. ASSUME NEW i \in Ids'
       PROVE  /\ jobs'[i].preds \subseteq 1..(i - 1)
              /\ jobs'[i].todo \subseteq jobs'[i].preds
              /\ jobs'[i].pc # "done" => jobs'[i].on \in {0} \cup jobs'[i].preds
              /\ jobs'[i].pc \in {"ordering", "ready", "running"} => jobs'[i].published
              /\ \A k \in jobs'[i].preds : jobs'[k].pc = "done" => jobs'[k].published
  <2>1. CASE i = n
    BY <1>1, <1>7, <1>8, <2>1 DEF Done
  <2>2. CASE i \in Ids
    <3>1. jobs'[i] = jobs[i] /\ jobs[i].preds \subseteq 1..(i - 1)
      BY <1>8, <2>2 DEF Orderly, TasksWaitBackwards
    <3>2. 1..(i - 1) \subseteq Ids
      BY <1>1, <2>2
    <3>3. \A k \in jobs[i].preds : jobs'[k] = jobs[k]
      BY <1>8, <3>1, <3>2
    <3> QED BY <3>1, <3>3, <2>2 DEF Orderly, TasksWaitBackwards, Done
  <2> QED BY <1>8, <2>1, <2>2
<1>12. TasksWaitBackwards'
  BY <1>11 DEF TasksWaitBackwards, Done
<1>13. AnswersAreCounted'
  <2>1. ASSUME NEW i \in Ids'
        PROVE  /\ jobs'[i].answers = IF jobs'[i].pc = "done" THEN 1 ELSE 0
               /\ jobs'[i].pc = "running" => jobs'[i].started
               /\ jobs'[i].pc = "done" /\ jobs'[i].kind # "unknown" /\ ~stopping /\ ~jobs'[i].failed
                    => jobs'[i].started
    <3>1. CASE i = n
      BY <1>7, <1>8, <3>1
    <3>2. CASE i \in Ids
      BY <1>8, <3>2 DEF Orderly, AnswersAreCounted, Done, InHandler
    <3> QED BY <1>8, <3>1, <3>2
  <2> QED BY <1>0, <2>1 DEF AnswersAreCounted, Done, InHandler
<1>14. ReturnedIsDone'
  BY <1>0 DEF ReturnedIsDone
<1>15. ASSUME NEW l \in Lanes PROVE LaneHoldsItsTasks(l)' /\ LaneIsSettled(l)'
  <2>0. LaneHoldsItsTasks(l) /\ LaneIsSettled(l) /\ fair'[l] = fair[l]
    BY <1>0 DEF Orderly
  <2>1. \A i \in Ids : Lane(i)' = Lane(i)
    BY <1>8 DEF Lane
  <2>2. LaneHoldsItsTasks(l)'
    BY <1>7, <1>8, <2>0, <2>1 DEF LaneHoldsItsTasks
  <2>3. \A y \in Range(fair[l].waiting) \cup fair[l].holders : RootOf(jobs', y) = RootOf(jobs, y)
    BY <1>8, <2>0 DEF LaneHoldsItsTasks, RootOf
  <2>4. LaneShape(jobs', fair[l]) /\ Settled(jobs', fair[l], Concurrency[l])
    BY <2>0, <2>3, SameRoots DEF LaneIsSettled
  <2> QED BY <2>0, <2>2, <2>4 DEF LaneIsSettled
<1> QED BY <1>9, <1>10, <1>12, <1>13, <1>14, <1>15 DEF Orderly

\* Steps that touch no task.
LEMMA TasksRest ==
  ASSUME TasksTyped, Orderly, UNCHANGED <<jobs, fair>>,
         phase' \in {"open", "returned"}, stopping' \in BOOLEAN, stopping => stopping',
         phase' = "returned" => phase = "returned" \/ \A j \in Ids : Done(j)
  PROVE  TasksTyped' /\ Orderly'
<1>1. TasksTyped'
  BY DEF TasksTyped
<1>2. Ids' = Ids /\ \A j \in Ids : (Done(j)' <=> Done(j)) /\ (InHandler(j)' <=> InHandler(j)) /\ Lane(j)' = Lane(j)
  BY DEF Ids, Done, InHandler, Lane
<1>3. RequestsAreWellFormed' /\ TasksWaitBackwards'
  BY DEF Orderly, RequestsAreWellFormed, TasksWaitBackwards, Ids, Done
<1>4. AnswersAreCounted'
  BY DEF Orderly, AnswersAreCounted, Ids, Done, InHandler
<1>5. ReturnedIsDone'
  BY DEF Orderly, ReturnedIsDone, Ids, Done
<1>6. ASSUME NEW l \in Lanes PROVE LaneHoldsItsTasks(l)' /\ LaneIsSettled(l)'
  <2>1. LaneHoldsItsTasks(l) /\ LaneIsSettled(l)
    BY DEF Orderly
  <2>2. LaneHoldsItsTasks(l)'
    BY <2>1, <1>2 DEF LaneHoldsItsTasks
  <2>3. LaneIsSettled(l)'
    BY <2>1 DEF LaneIsSettled
  <2> QED BY <2>2, <2>3
<1> QED BY <1>1, <1>3, <1>4, <1>5, <1>6 DEF Orderly

\* Runs leave the registries.
LEMMA EndedTyped ==
  ASSUME WorldTyped, NEW cs, Ended(cs)
  PROVE  /\ run' \in [Conversations -> {"none", "preparing", "committing", "active"}]
         /\ owner' \in [Conversations -> 0..MaxRequests]
         /\ frozen' \in [Conversations -> Projects \cup {None}]
<1>1. 0 \in 0..MaxRequests
  BY Sizes
<1> QED BY <1>1 DEF WorldTyped, Ended

LEMMA RemovedTyped ==
  ASSUME WorldTyped, NEW cs \in SUBSET Conversations, Removed(cs), existing' \subseteq existing
  PROVE  WorldTyped'
<1>1. /\ run' \in [Conversations -> {"none", "preparing", "committing", "active"}]
      /\ owner' \in [Conversations -> 0..MaxRequests]
      /\ frozen' \in [Conversations -> Projects \cup {None}]
  BY EndedTyped DEF Removed
<1>2. project' \in [Conversations -> Projects \cup {None, "missing"}]
  BY DEF Removed, WorldTyped
<1>3. buried' \subseteq Conversations /\ cancelled' \subseteq Conversations /\ existing' \subseteq Projects
  BY DEF Removed, WorldTyped
<1> QED BY <1>1, <1>2, <1>3 DEF WorldTyped

LEMMA HandlersTyped ==
  ASSUME WorldTyped, NEW r \in Requests, WellFormed(r), Effect(r)
  PROVE  WorldTyped'
<1>1. CASE r.op = "save_meta" /\ SaveMeta(r)
  <2>1. r.project \in Projects \cup {None, "missing"}
    BY DEF Requests
  <2> QED BY <1>1, <2>1 DEF SaveMeta, WorldTyped
<1>2. CASE r.op = "delete_conversation" /\ DeleteConversation(r)
  <2>1. Tree(r.conv) \in SUBSET Conversations
    BY DEF Tree
  <2> QED BY <1>2, <2>1, RemovedTyped DEF DeleteConversation
<1>3. CASE r.op = "delete_project" /\ DeleteProject(r)
  <2>1. {c \in Conversations : project[c] = r.project} \in SUBSET Conversations
    OBVIOUS
  <2>2. existing' \subseteq existing
    BY <1>3 DEF DeleteProject
  <2> QED BY <1>3, <2>1, <2>2, RemovedTyped DEF DeleteProject
<1>4. CASE r.op = "cancel_run" /\ CancelRun(r)
  <2>1. r.conv \in Conversations
    BY <1>4 DEF WellFormed, Unscoped
  <2> DEFINE stopped == IF Preparing(r.conv) THEN {r.conv} ELSE Tree(r.conv)
  <2>2. stopped \subseteq Conversations
    BY <2>1 DEF Tree
  <2>3. cancelled' = cancelled \cup {c \in stopped : Preparing(c)} /\ Ended(ActiveIn(stopped))
    BY <1>4 DEF CancelRun
  <2>4. UNCHANGED <<project, existing, buried>>
    BY <1>4 DEF CancelRun
  <2> HIDE DEF stopped
  <2>5. /\ run' \in [Conversations -> {"none", "preparing", "committing", "active"}]
        /\ owner' \in [Conversations -> 0..MaxRequests]
        /\ frozen' \in [Conversations -> Projects \cup {None}]
    BY <2>3, EndedTyped
  <2> QED BY <2>2, <2>3, <2>4, <2>5 DEF WorldTyped
<1>5. CASE UNCHANGED world
  BY <1>5 DEF WorldTyped, world
<1> QED BY <1>1, <1>2, <1>3, <1>4, <1>5 DEF Effect

\* A handler holds its worker.
LEMMA HandlerHolds ==
  ASSUME TasksTyped, Orderly, NEW j \in Ids, InHandler(j)
  PROVE  /\ j \in fair[Lane(j)].holders /\ jobs[j].started
         /\ jobs[j].req \in Requests /\ WellFormed(jobs[j].req) /\ j \in 1..MaxRequests
<1>1. Lane(j) \in Lanes
  BY LaneLimit
<1>2. j \in fair[Lane(j)].holders
  BY <1>1 DEF Orderly, LaneHoldsItsTasks, InHandler
<1>3. jobs[j] \in Tasks /\ j \in 1..MaxRequests
  BY IdsAreNumbers DEF TasksTyped
<1> QED BY <1>2, <1>3 DEF Orderly, AnswersAreCounted, RequestsAreWellFormed, Tasks

LEMMA TurnStep ==
  ASSUME TasksTyped, WorldTyped, Orderly, NEW j \in Ids,
         Register(j) \/ MarkCommitting(j) \/ Admit(j) \/ AbandonTurn(j)
  PROVE  TasksTyped' /\ WorldTyped' /\ Orderly'
<1> DEFINE c == jobs[j].req.conv
<1>1. InHandler(j) /\ jobs[j].req.op = "turn"
  BY DEF Register, MarkCommitting, Admit, AbandonTurn, Turn
<1>2. /\ j \in fair[Lane(j)].holders /\ jobs[j].started
      /\ jobs[j].req \in Requests /\ WellFormed(jobs[j].req) /\ j \in 1..MaxRequests
  BY <1>1, HandlerHolds
<1>3. c \in Conversations /\ jobs[j].req.project \in Projects \cup {None} /\ j \in 0..MaxRequests
  BY <1>1, <1>2, Sizes DEF WellFormed, Unscoped, Requests
<1>4. phase \in {"open", "returned"} /\ stopping \in BOOLEAN
  BY DEF TasksTyped
<1>5. CASE Register(j)
  <2>1. frozen' = [frozen EXCEPT ![c] = IF Absent(c) THEN jobs[j].req.project ELSE project[c]]
    BY <1>5 DEF Register
  <2>2. frozen' \in [Conversations -> Projects \cup {None}]
    BY <1>3, <2>1 DEF WorldTyped, Absent
  <2>3. UNCHANGED <<jobs, fair, phase, stopping, project, existing, buried, cancelled>>
    BY <1>5 DEF Register
  <2>4. run' = [run EXCEPT ![c] = "preparing"] /\ owner' = [owner EXCEPT ![c] = j]
    BY <1>5 DEF Register
  <2>5. WorldTyped'
    BY <1>3, <2>2, <2>3, <2>4 DEF WorldTyped
  <2> QED BY <1>4, <2>3, <2>5, TasksRest
<1>6. CASE MarkCommitting(j)
  <2>1. WorldTyped' /\ UNCHANGED <<jobs, fair, phase, stopping>>
    BY <1>3, <1>6 DEF MarkCommitting, WorldTyped
  <2> QED BY <1>4, <2>1, TasksRest
<1>7. CASE Admit(j)
  <2>1. WorldTyped'
    BY <1>3, <1>7 DEF Admit, WorldTyped
  <2> QED BY <1>2, <1>7, <2>1, CompleteStep DEF Admit
<1>8. CASE AbandonTurn(j)
  <2>1. Ended(IF Preparing(c) THEN {c} ELSE {}) /\ cancelled' = cancelled \ {c}
        /\ UNCHANGED <<phase, stopping, project, existing, buried>>
    BY <1>8 DEF AbandonTurn
  <2>2. /\ run' \in [Conversations -> {"none", "preparing", "committing", "active"}]
        /\ owner' \in [Conversations -> 0..MaxRequests]
        /\ frozen' \in [Conversations -> Projects \cup {None}]
    BY <2>1, EndedTyped
  <2>3. WorldTyped'
    BY <2>1, <2>2 DEF WorldTyped
  <2> QED BY <1>2, <1>8, <2>1, <2>3, CompleteStep DEF AbandonTurn
<1> QED BY <1>5, <1>6, <1>7, <1>8

(***************************************************************************)
(* Theorems                                                                *)
(***************************************************************************)

\* A dispatcher without requests satisfies the invariant.
THEOREM RpcInitially == Init => RInv
<1> SUFFICES ASSUME Init PROVE RInv
  OBVIOUS
<1>1. jobs \in Seq(Tasks) /\ Len(jobs) = 0 /\ Ids = {}
  BY DEF Init, Ids
<1>2. FairInit \in FairStates /\ FairInit.holders = {} /\ FairInit.waiting = <<>> /\ FairInit.roots = <<>>
  BY DEF FairInit, FairStates
<1>3. Cardinality({}) = 0 /\ Range(<<>>) = {}
  BY FS_EmptySet DEF Range
<1>4. \A l \in Lanes : Concurrency[l] \in Nat
  BY Sizes
<1>5. TasksTyped
  <2>1. 0 <= MaxRequests
    BY Sizes
  <2>2. fair \in [Lanes -> FairStates]
    BY <1>2 DEF Init
  <2>3. phase = "open" /\ stopping \in BOOLEAN
    BY DEF Init
  <2> QED BY <1>1, <2>1, <2>2, <2>3 DEF TasksTyped
<1>6. WorldTyped
  <2>1. 0 \in 0..MaxRequests /\ project \in [Conversations -> Projects \cup {None, "missing"}]
    BY Sizes DEF Init
  <2> QED BY <2>1 DEF Init, WorldTyped
<1>7. ASSUME NEW l \in Lanes PROVE LaneHoldsItsTasks(l) /\ LaneIsSettled(l)
  <2>1. fair[l] = FairInit
    BY DEF Init
  <2>2. LaneHoldsItsTasks(l)
    BY <1>1, <1>2, <1>3, <2>1 DEF LaneHoldsItsTasks
  <2>3. LaneShape(jobs, FairInit) /\ Settled(jobs, FairInit, Concurrency[l])
    BY <1>2, <1>3 DEF LaneShape, Settled, Distinct
  <2>4. Cardinality(FairInit.holders) <= Concurrency[l]
    BY <1>2, <1>3, <1>4
  <2> QED BY <2>1, <2>2, <2>3, <2>4 DEF LaneIsSettled
<1>8. Orderly
  BY <1>1, <1>7 DEF Orderly, RequestsAreWellFormed, TasksWaitBackwards, AnswersAreCounted,
                    ReturnedIsDone
<1> QED BY <1>5, <1>6, <1>8, TypeOKParts DEF RInv

\* The invariant of the dispatcher.
THEOREM RpcInvariance == Spec => []RInv
<1>1. RInv /\ [Next]_vars => RInv'
  <2> SUFFICES ASSUME RInv, [Next]_vars PROVE TasksTyped' /\ WorldTyped' /\ Orderly'
    BY TypeOKPartsNext DEF RInv
  <2>0. TasksTyped /\ WorldTyped /\ Orderly
    BY TypeOKParts DEF RInv
  <2>1. phase \in {"open", "returned"} /\ stopping \in BOOLEAN
    BY <2>0 DEF TasksTyped
  <2>2. ASSUME UNCHANGED world PROVE WorldTyped'
    BY <2>0, <2>2 DEF WorldTyped, world
  <2>3. CASE \E r \in Menu : Submit(r)
    <3>1. PICK r \in Menu : Submit(r)
      BY <2>3
    <3> QED BY <2>0, <2>2, <3>1, SubmitStep DEF Submit
  <2>4. ASSUME NEW j \in Ids, Resolve(j) \/ ResolveFails(j) PROVE TasksTyped' /\ WorldTyped' /\ Orderly'
    BY <2>0, <2>2, <2>4, ResolveStep DEF Resolve, ResolveFails
  <2>5. ASSUME NEW j \in Ids, Observe(j) \/ RefreshFails(j) PROVE TasksTyped' /\ WorldTyped' /\ Orderly'
    BY <2>0, <2>2, <2>5, ObserveStep DEF Observe, RefreshFails
  <2>6. ASSUME NEW j \in Ids, Order(j) PROVE TasksTyped' /\ WorldTyped' /\ Orderly'
    BY <2>0, <2>2, <2>6, OrderStep DEF Order
  <2>7. ASSUME NEW j \in Ids, Start(j) PROVE TasksTyped' /\ WorldTyped' /\ Orderly'
    BY <2>0, <2>2, <2>7, StartStep DEF Start
  <2>8. ASSUME NEW j \in Ids, Register(j) \/ MarkCommitting(j) \/ Admit(j) \/ AbandonTurn(j)
        PROVE  TasksTyped' /\ WorldTyped' /\ Orderly'
    BY <2>0, <2>8, TurnStep
  <2>9. ASSUME NEW j \in Ids, Finish(j) PROVE TasksTyped' /\ WorldTyped' /\ Orderly'
    <3>1. /\ j \in fair[Lane(j)].holders /\ jobs[j].started
          /\ jobs[j].req \in Requests /\ WellFormed(jobs[j].req)
      BY <2>0, <2>9, HandlerHolds DEF Finish
    <3>2. WorldTyped'
      BY <2>0, <2>9, <3>1, HandlersTyped DEF Finish
    <3> QED BY <2>0, <2>9, <3>1, <3>2, CompleteStep DEF Finish
  <2>10. ASSUME NEW c \in Conversations, RunEnds(c) PROVE TasksTyped' /\ WorldTyped' /\ Orderly'
    <3>1. /\ run' \in [Conversations -> {"none", "preparing", "committing", "active"}]
          /\ owner' \in [Conversations -> 0..MaxRequests]
          /\ frozen' \in [Conversations -> Projects \cup {None}]
      BY <2>0, <2>10, EndedTyped DEF RunEnds
    <3>2. WorldTyped'
      BY <2>0, <2>10, <3>1 DEF RunEnds, WorldTyped
    <3> QED BY <2>0, <2>1, <2>10, <3>2, TasksRest DEF RunEnds
  <2>11. CASE BeginShutdown
    BY <2>0, <2>1, <2>2, <2>11, TasksRest DEF BeginShutdown
  <2>12. CASE Shutdown
    BY <2>0, <2>1, <2>2, <2>12, TasksRest DEF Shutdown
  <2>13. CASE UNCHANGED vars
    <3>1. UNCHANGED <<jobs, fair, phase, stopping>> /\ UNCHANGED world
      BY <2>13 DEF vars
    <3> QED BY <2>0, <2>1, <2>2, <3>1, TasksRest
  <2> QED BY <2>3, <2>4, <2>5, <2>6, <2>7, <2>8, <2>9, <2>10, <2>11, <2>12, <2>13 DEF Next
<1> QED
  BY <1>1, RpcInitially, PTL DEF Spec

\* The dispatcher's state keeps its types, whatever the clients send.
THEOREM RpcTyped == Spec => []TypeOK
<1>1. RInv => TypeOK
  BY DEF RInv
<1> QED BY <1>1, RpcInvariance, PTL

\* shutdown returns after every request was answered, exactly once, and
\* without an explicit shutdown every admitted request was run.
THEOREM EveryAnswerPrecedesReturn == Spec => []AnsweredBeforeReturn
<1>1. RInv => AnsweredBeforeReturn
  <2> SUFFICES ASSUME RInv, phase = "returned", NEW j \in Ids
               PROVE  /\ jobs[j].pc = "done" /\ jobs[j].answers = 1
                      /\ jobs[j].kind # "unknown" /\ ~stopping /\ ~jobs[j].failed => jobs[j].started
    BY DEF AnsweredBeforeReturn
  <2>1. AnswersAreCounted /\ ReturnedIsDone
    BY DEF RInv, Orderly
  <2>2. Done(j)
    BY <2>1 DEF ReturnedIsDone
  <2> QED BY <2>1, <2>2 DEF AnswersAreCounted, Done
<1> QED BY <1>1, RpcInvariance, PTL

\* No lane exceeds its workers, no root holds two of them, and a worker is idle
\* only while the root of every waiting request has one: one grant in drive is
\* always enough.
THEOREM LanesStayFair == Spec => []LanesAreFair
<1>1. RInv => LanesAreFair
  <2> SUFFICES ASSUME RInv, NEW l \in Lanes
               PROVE  /\ Cardinality(fair[l].holders) <= Concurrency[l]
                      /\ \A j, k \in fair[l].holders :
                           RootOf(jobs, j) = RootOf(jobs, k) /\ RootOf(jobs, j)[1] = "root" => j = k
                      /\ Cardinality(fair[l].holders) < Concurrency[l] =>
                           \A w \in Range(fair[l].waiting) :
                              /\ RootOf(jobs, w)[1] = "root"
                              /\ \E h \in fair[l].holders : RootOf(jobs, h) = RootOf(jobs, w)
    BY DEF LanesAreFair
  <2>1. LaneIsSettled(l)
    BY DEF RInv, Orderly
  <2> QED BY <2>1 DEF LaneIsSettled, LaneShape, Settled, RootIsFree
<1> QED BY <1>1, RpcInvariance, PTL

\* A ready request that waits for a worker waits for a request of its lane that
\* has one.
LEMMA SomebodyHasTheWorker ==
  ASSUME RInv, NEW j \in Ids, jobs[j].pc = "ready", j \notin fair[Lane(j)].holders
  PROVE  \E h \in Ids : /\ Lane(h) = Lane(j) /\ h \in fair[Lane(h)].holders
                       /\ jobs[h].pc \in {"ready", "running"}
<1> DEFINE l == Lane(j)
<1>1. l \in Lanes /\ Concurrency[l] \in Nat \ {0}
  BY LaneLimit
<1>2. LaneHoldsItsTasks(l) /\ LaneIsSettled(l) /\ fair[l] \in FairStates
  BY <1>1, TypeOKParts DEF RInv, Orderly, TasksTyped
<1>3. j \in Range(fair[l].waiting)
  BY <1>2 DEF LaneHoldsItsTasks
<1>4. fair[l].holders # {}
  <2>1. CASE Cardinality(fair[l].holders) < Concurrency[l]
    BY <2>1, <1>2, <1>3 DEF LaneIsSettled, Settled, RootIsFree
  <2>2. CASE ~(Cardinality(fair[l].holders) < Concurrency[l])
    BY <2>2, <1>1, FS_EmptySet
  <2> QED BY <2>1, <2>2
<1>5. PICK h \in fair[l].holders : TRUE
  BY <1>4
<1> QED BY <1>2, <1>5 DEF LaneHoldsItsTasks

\* A request whose predecessors are all answered waits for nothing but a worker.
LEMMA UnblockedGoesOn ==
  ASSUME RInv, NEW j \in Ids, \A i \in jobs[j].preds : Done(i)
  PROVE  /\ jobs[j].pc = "observing" => CanObserve(j)
         /\ jobs[j].pc = "ordering" => CanOrder(j)
<1>1. TasksWaitBackwards /\ TasksTyped
  BY TypeOKParts DEF RInv, Orderly
<1>2. /\ jobs[j].todo \subseteq jobs[j].preds /\ jobs[j].todo \subseteq 1..(j - 1)
      /\ \A i \in jobs[j].preds : jobs[i].published
  BY <1>1 DEF TasksWaitBackwards
<1>3. jobs[j].pc # "done" => Reached(j)
  BY <1>1 DEF TasksWaitBackwards, Reached, Done
<1>4. jobs[j].todo \subseteq Nat
  BY <1>2
<1>5. ASSUME NEW S, S \subseteq jobs[j].todo, S # {} PROVE Min(S) \in jobs[j].preds
  <2>1. S \in SUBSET Nat
    BY <1>4, <1>5
  <2> QED BY <2>1, <1>2, <1>5, LeastNumber
<1>6. ObserveStops(j) # {} => jobs[Min(ObserveStops(j))].published
  BY <1>2, <1>5 DEF ObserveStops
<1>7. OrderStops(j) # {} => Decided(j, Min(OrderStops(j)))
  BY <1>2, <1>5 DEF OrderStops, Decided
<1> QED BY <1>3, <1>6, <1>7 DEF CanObserve, CanOrder

\* No circle of waits: a dispatcher at rest with no turn in preparation has
\* answered every request.
THEOREM NothingWaitsInACircle == Spec => []EveryRequestAnswered
<1>1. RInv => EveryRequestAnswered
  <2> SUFFICES ASSUME RInv, Quiet, \A j \in Ids : ~Lingers(j), \E j \in Ids : ~Done(j)
               PROVE  FALSE
    BY DEF EveryRequestAnswered
  <2> DEFINE open == {j \in Ids : ~Done(j)}
             j == Min(open)
  <2>1. Ids \subseteq Nat /\ Ids = 1..Len(jobs) /\ Len(jobs) \in Nat /\ \A i \in Ids : jobs[i] \in Tasks
    BY IdsAreNumbers, TypeOKParts DEF RInv, TasksTyped
  <2>2. j \in open /\ \A i \in open : j <= i
    <3>1. open # {} /\ open \in SUBSET Nat
      BY <2>1
    <3> HIDE DEF open
    <3> QED BY <3>1, LeastNumber
  <2> HIDE DEF j
  <2>3. j \in Ids /\ ~Done(j) /\ \A i \in Ids : i < j => Done(i)
    BY <2>1, <2>2
  <2>4. \A i \in jobs[j].preds : Done(i)
    <3>1. jobs[j].preds \subseteq 1..(j - 1)
      BY <2>3 DEF RInv, Orderly, TasksWaitBackwards
    <3>2. \A i \in 1..(j - 1) : i \in Ids /\ i < j
      BY <2>1, <2>3
    <3> QED BY <3>1, <3>2, <2>3
  <2>5. jobs[j].pc \in {"ready", "running"}
    <3>1. jobs[j].pc \in {"queued", "observing", "ordering", "ready", "running", "done"}
      BY <2>1, <2>3 DEF Tasks
    <3>2. jobs[j].pc # "queued" /\ ~CanObserve(j) /\ ~CanOrder(j)
      BY <2>3 DEF Quiet
    <3> QED BY <3>1, <3>2, <2>3, <2>4, UnblockedGoesOn DEF Done
  <2>6. \A i \in Ids : ~CanStart(i) /\ ~InHandler(i)
    BY DEF Quiet
  <2>7. PICK h \in Ids : h \in fair[Lane(h)].holders /\ jobs[h].pc \in {"ready", "running"}
    <3>1. jobs[j].pc = "ready" /\ j \notin fair[Lane(j)].holders
      BY <2>3, <2>5, <2>6 DEF CanStart, InHandler
    <3> QED BY <3>1, <2>3, SomebodyHasTheWorker
  <2> QED BY <2>6, <2>7 DEF CanStart, InHandler
<1> QED BY <1>1, RpcInvariance, PTL
=============================================================================
