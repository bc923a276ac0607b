--------------------------- MODULE PlannerProofs ---------------------------
(***************************************************************************)
(* A plan that says it can run does, whatever is listed, whatever names    *)
(* are produced and whatever folders the rows move through, and leaves     *)
(* every file where the preview said.                                      *)
(*                                                                         *)
(* The renames of a plan are followed by what each makes of a file's name  *)
(* and of the folder it is in (Called), never of its whole path: so a      *)
(* folder that moves changes nothing of what is said of the files in it.   *)
(***************************************************************************)
EXTENDS Planner, FileTreeProofs, FiniteSetTheorems, WellFoundedInduction

-----------------------------------------------------------------------------
(* Paths and the folders above them.                                       *)

\* Numbers have a least.
LEMMA Least ==
    ASSUME NEW T \in SUBSET Nat, T # {}
    PROVE  \E m \in T : \A k \in T : m <= k
  <1> DEFINE R == OpToRel(<, Nat)
  <1>1. IsWellFoundedOn(R, Nat)
    BY NatLessThanWellFounded
  <1>2. \A x, y \in Nat : <<x, y>> \in R <=> x < y
    BY DEF OpToRel
  <1> HIDE DEF R
  <1>3. PICK m \in T : \A k \in T : ~(<<k, m>> \in R)
    BY <1>1, WFMin, Zenon
  <1>4. m \in Nat /\ \A k \in T : k \in Nat
    OBVIOUS
  <1>5. \A k \in T : ~(k < m)
    BY <1>2, <1>3, <1>4, Zenon
  <1>6. \A k \in T : m <= k
    BY <1>4, <1>5
  <1> QED BY <1>6

\* Of numbers that are bounded, one is the greatest.
LEMMA Greatest ==
    ASSUME NEW T \in SUBSET Nat, T # {}, NEW b \in Nat, \A k \in T : k <= b
    PROVE  \E m \in T : \A k \in T : k <= m
  <1> DEFINE D == {b - k : k \in T}
  <1>1. D \in SUBSET Nat /\ D # {}
  <2>1. \A k \in T : k \in Nat /\ k <= b
    OBVIOUS
  <2>2. \A k \in T : b - k \in Nat
    BY <2>1
  <2> QED BY <2>2, Zenon
  <1>2. PICK x \in D : \A y \in D : x <= y
    BY <1>1, Least
  <1>3. PICK m \in T : x = b - m
    OBVIOUS
  <1>4. \A k \in T : b - m <= b - k
    BY <1>2, <1>3
  <1>5. \A k \in T : k <= m
    BY <1>4
  <1> QED BY <1>5

\* A path has names; the same names make the same path.
LEMMA PathFacts ==
    ASSUME NEW p \in Paths
    PROVE  /\ Len(p) \in Nat \ {0}
           /\ DOMAIN p = 1..Len(p)
           /\ \A i \in 1..Len(p) : p[i] \in Names
           /\ p \in Seq(Names) /\ p # <<>>
           /\ \A q \in Paths : Len(p) = Len(q) /\ (\A i \in 1..Len(p) : p[i] = q[i]) => p = q
  <1>1. p \in Seq(Names) /\ p # <<>>
    BY DEF Paths
  <1>2. Len(p) \in Nat \ {0} /\ DOMAIN p = 1..Len(p) /\ \A i \in 1..Len(p) : p[i] \in Names
    BY <1>1, EmptySeq, LenProperties, ElementOfSeq
  <1>3. \A q \in Paths : Len(p) = Len(q) /\ (\A i \in 1..Len(p) : p[i] = q[i]) => p = q
    BY <1>1, SeqEqual DEF Paths
  <1> QED BY <1>1, <1>2, <1>3

\* A folder is shorter than what lies in it, and of two folders above a path
\* the shorter is above the other.
LEMMA AboveFacts ==
    ASSUME NEW p \in Paths, NEW q \in Paths
    PROVE  /\ AtOrUnder(p, q) => Len(p) <= Len(q)
           /\ AtOrUnder(p, q) /\ Len(p) = Len(q) => p = q
           /\ StrictlyUnder(p, q) <=> AtOrUnder(p, q) /\ Len(p) < Len(q)
           /\ \A r \in Paths : AtOrUnder(p, r) /\ AtOrUnder(q, r) /\ Len(p) <= Len(q) => AtOrUnder(p, q)
           /\ \A r \in Paths : AtOrUnder(p, q) /\ AtOrUnder(q, r) => AtOrUnder(p, r)
           /\ AtOrUnder(p, p)
  <1>1. Len(p) \in Nat \ {0} /\ Len(q) \in Nat \ {0}
    BY PathFacts
  <1>2. AtOrUnder(p, q) => Len(p) <= Len(q)
    BY DEF AtOrUnder
  <1>3. AtOrUnder(p, q) /\ Len(p) = Len(q) => p = q
  <2>1. AtOrUnder(p, q) => \A i \in 1..Len(p) : p[i] = q[i]
    BY UnderFacts
  <2> QED BY <2>1, PathFacts
  <1>4. StrictlyUnder(p, q) <=> AtOrUnder(p, q) /\ Len(p) < Len(q)
    BY <1>1, <1>2, <1>3 DEF StrictlyUnder
  <1>5. ASSUME NEW r \in Paths, AtOrUnder(p, r), AtOrUnder(q, r), Len(p) <= Len(q)
        PROVE  AtOrUnder(p, q)
  <2>1. /\ \A i \in 1..Len(p) : r[i] = p[i]
        /\ \A i \in 1..Len(q) : r[i] = q[i]
    BY <1>5, UnderFacts
  <2>2. \A i \in 1..Len(p) : q[i] = p[i]
    BY <1>1, <1>5, <2>1
  <2> QED BY <1>5, <2>2, UnderFacts
  <1>6. \A r \in Paths : AtOrUnder(p, q) /\ AtOrUnder(q, r) => AtOrUnder(p, r)
    BY UnderTransitive
  <1>7. AtOrUnder(p, p)
    BY UnderReflexive
  <1> QED BY <1>2, <1>3, <1>4, <1>5, <1>6, <1>7

\* What is above the folder a path is in, is what is above the path.
LEMMA ParentFacts ==
    ASSUME NEW q \in Paths, Len(q) > 1
    PROVE  /\ Parent(q) \in Paths
           /\ Len(Parent(q)) = Len(q) - 1
           /\ \A i \in 1..(Len(q) - 1) : Parent(q)[i] = q[i]
           /\ StrictlyUnder(Parent(q), q)
           /\ \A p \in Paths : AtOrUnder(p, Parent(q)) <=> StrictlyUnder(p, q)
  <1>1. Len(q) \in Nat /\ Len(q) - 1 \in 1..Len(q)
    BY PathFacts
  <1>2. /\ Parent(q) \in Paths /\ Len(Parent(q)) = Len(q) - 1
        /\ \A i \in 1..(Len(q) - 1) : Parent(q)[i] = q[i]
    BY <1>1, PrefixFacts DEF Parent
  <1>3. ASSUME NEW p \in Paths
        PROVE  AtOrUnder(p, Parent(q)) <=> StrictlyUnder(p, q)
  <2>1. /\ AtOrUnder(p, Parent(q)) => AtOrUnder(p, q) /\ Len(p) <= Len(q) - 1
        /\ AtOrUnder(p, q) /\ Len(p) <= Len(q) - 1 => AtOrUnder(p, Parent(q))
    BY <1>1, PrefixUnder DEF Parent
  <2>2. Len(p) \in Nat
    BY PathFacts
  <2> QED BY <1>1, <2>1, <2>2, AboveFacts
  <1>4. StrictlyUnder(Parent(q), q)
    BY <1>2, <1>3, AboveFacts
  <1> QED BY <1>2, <1>3, <1>4

\* A path is its folder and its last name.
LEMMA SameParent ==
    ASSUME NEW p \in Paths, NEW q \in Paths, p[Len(p)] = q[Len(q)],
           \/ Len(p) = 1 /\ Len(q) = 1
           \/ Len(p) > 1 /\ Len(q) > 1 /\ Parent(p) = Parent(q)
    PROVE  p = q
  <1>1. Len(p) \in Nat /\ Len(q) \in Nat
    BY PathFacts
  <1>2. CASE Len(p) = 1 /\ Len(q) = 1
  <2>1. \A i \in 1..Len(p) : p[i] = q[i]
    BY <1>2
  <2> QED BY <1>2, <2>1, PathFacts
  <1>3. CASE Len(p) > 1 /\ Len(q) > 1 /\ Parent(p) = Parent(q)
  <2>1. /\ Len(Parent(p)) = Len(p) - 1 /\ \A i \in 1..(Len(p) - 1) : Parent(p)[i] = p[i]
        /\ Len(Parent(q)) = Len(q) - 1 /\ \A i \in 1..(Len(q) - 1) : Parent(q)[i] = q[i]
    BY <1>3, ParentFacts
  <2>2. Len(p) = Len(q)
    BY <1>1, <1>3, <2>1
  <2>3. \A i \in 1..Len(p) : p[i] = q[i]
    BY <1>1, <1>3, <2>1, <2>2
  <2> QED BY <2>2, <2>3, PathFacts
  <1> QED BY <1>2, <1>3

\* Paths in one folder have the same folders above them.
LEMMA Siblings ==
    ASSUME NEW p \in Paths, NEW q \in Paths, Len(p) = Len(q), Parent(p) = Parent(q),
           NEW r \in Paths
    PROVE  StrictlyUnder(r, p) <=> StrictlyUnder(r, q)
  <1>1. Len(p) \in Nat \ {0} /\ Len(r) \in Nat \ {0}
    BY PathFacts
  <1>2. CASE Len(p) > 1
    BY <1>2, ParentFacts
  <1>3. CASE ~(Len(p) > 1)
    BY <1>1, <1>3, AboveFacts
  <1> QED BY <1>2, <1>3

\* What is carried along keeps its last name, in the folder that was carried.
LEMMA CarriedFacts ==
    ASSUME NEW q \in Paths, NEW f \in Paths, NEW g \in Paths, StrictlyUnder(f, q)
    PROVE  /\ Rebase(q, f, g) \in Paths
           /\ Len(Rebase(q, f, g)) > 1 /\ Len(q) > 1
           /\ Rebase(q, f, g)[Len(Rebase(q, f, g))] = q[Len(q)]
           /\ AtOrUnder(f, Parent(q))
           /\ Parent(Rebase(q, f, g)) = Rebase(Parent(q), f, g)
           /\ StrictlyUnder(g, Rebase(q, f, g))
  <1> DEFINE r == Rebase(q, f, g)
  <1>1. /\ Len(f) \in Nat \ {0} /\ Len(q) \in Nat \ {0} /\ Len(g) \in Nat \ {0}
        /\ AtOrUnder(f, q) /\ Len(f) < Len(q)
    BY PathFacts, AboveFacts
  <1>2. /\ r \in Paths
        /\ Len(r) = Len(g) + Len(q) - Len(f)
        /\ \A i \in (Len(f) + 1)..Len(q) : r[i - Len(f) + Len(g)] = q[i]
        /\ AtOrUnder(g, r)
    BY <1>1, RebaseFacts
  <1>3. Len(q) > 1 /\ Len(r) > 1
    BY <1>1, <1>2
  <1>4. r[Len(r)] = q[Len(q)]
  <2>1. Len(q) \in (Len(f) + 1)..Len(q) /\ Len(q) - Len(f) + Len(g) = Len(r)
    BY <1>1, <1>2
  <2> QED BY <1>2, <2>1
  <1>5. AtOrUnder(f, Parent(q))
    BY <1>3, ParentFacts
  <1>6. Parent(r) = Rebase(Parent(q), f, g)
  <2>1. /\ Len(r) - 1 \in 1..Len(r) /\ Len(r) - 1 >= Len(g)
        /\ Len(r) - 1 - Len(g) + Len(f) = Len(q) - 1
    BY <1>1, <1>2, <1>3
  <2>2. CASE Len(r) - 1 > Len(g)
      <3> DEFINE n == Len(r) - 1
      <3>1. n \in 1..Len(r) /\ n > Len(g) /\ n - Len(g) + Len(f) = Len(q) - 1
        BY <1>1, <1>2, <2>1, <2>2
      <3>2. SubSeq(r, 1, n) = Rebase(SubSeq(q, 1, n - Len(g) + Len(f)), f, g)
        <4> HIDE DEF n
        <4> QED BY <1>1, <3>1, RebasePrefix
      <3> QED BY <3>1, <3>2 DEF Parent
  <2>3. CASE Len(r) - 1 = Len(g)
      <3>1. Parent(r) = SubSeq(g, 1, Len(g))
        <4> DEFINE n == Len(r) - 1
        <4>1. n \in 1..Len(r) /\ n <= Len(g) /\ n = Len(g)
          BY <1>1, <1>2, <2>1, <2>3
        <4>2. SubSeq(r, 1, n) = SubSeq(g, 1, n)
          <5> HIDE DEF n
          <5> QED BY <1>1, <4>1, RebasePrefix
        <4> QED BY <4>1, <4>2 DEF Parent
      <3>2. SubSeq(g, 1, Len(g)) = g
        <4>1. Len(g) \in 1..Len(g)
          BY <1>1
        <4>2. SubSeq(g, 1, Len(g)) \in Paths /\ Len(SubSeq(g, 1, Len(g))) = Len(g)
              /\ \A i \in 1..Len(g) : SubSeq(g, 1, Len(g))[i] = g[i]
          BY <4>1, PrefixFacts
        <4> HIDE DEF r
        <4> QED BY <4>2, PathFacts
      <3>3. Parent(q) \in Paths /\ Len(Parent(q)) = Len(f) /\ Parent(q) = f
        <4>1. Parent(q) \in Paths /\ Len(Parent(q)) = Len(f)
          BY <1>1, <1>2, <1>3, <2>1, <2>3, ParentFacts
        <4> QED BY <4>1, <1>5, AboveFacts
      <3>4. Rebase(f, f, g) = g
        <4>1. AtOrUnder(f, f)
          BY AboveFacts
        <4>2. /\ Rebase(f, f, g) \in Paths /\ Len(Rebase(f, f, g)) = Len(g) + Len(f) - Len(f)
              /\ \A i \in 1..Len(g) : Rebase(f, f, g)[i] = g[i]
          BY <4>1, RebaseFacts
        <4>3. Len(Rebase(f, f, g)) = Len(g)
          BY <1>1, <4>2
        <4> QED BY <4>2, <4>3, PathFacts
      <3> QED BY <3>1, <3>2, <3>3, <3>4
  <2> QED BY <1>1, <1>2, <2>1, <2>2, <2>3
  <1>7. StrictlyUnder(g, r)
    BY <1>1, <1>2, AboveFacts
  <1> QED BY <1>2, <1>3, <1>4, <1>5, <1>6, <1>7

\* Carried by the folder one is in, by a folder above that, or by nothing.
LEMMA CarriedTwice ==
    ASSUME NEW q \in Paths, NEW f \in Paths, NEW g \in Paths, AtOrUnder(f, q)
    PROVE  /\ Rebase(f, f, g) = g
           /\ Rebase(q, f, f) = q
           /\ \A h \in Paths : AtOrUnder(f, h) /\ AtOrUnder(h, q) =>
                 Rebase(q, h, Rebase(h, f, g)) = Rebase(q, f, g)
  <1>1. /\ Len(f) \in Nat \ {0} /\ Len(q) \in Nat \ {0} /\ Len(g) \in Nat \ {0}
        /\ Len(f) <= Len(q) /\ AtOrUnder(f, f)
    BY PathFacts, AboveFacts
  <1>2. Rebase(f, f, g) = g
  <2>1. /\ Rebase(f, f, g) \in Paths /\ Len(Rebase(f, f, g)) = Len(g) + Len(f) - Len(f)
        /\ \A i \in 1..Len(g) : Rebase(f, f, g)[i] = g[i]
    BY <1>1, RebaseFacts
  <2>2. Len(Rebase(f, f, g)) = Len(g)
    BY <1>1, <2>1
  <2> QED BY <2>1, <2>2, PathFacts
  <1>3. Rebase(q, f, f) = q
  <2>1. /\ Rebase(q, f, f) \in Paths /\ Len(Rebase(q, f, f)) = Len(f) + Len(q) - Len(f)
        /\ \A i \in 1..Len(f) : Rebase(q, f, f)[i] = f[i]
        /\ \A i \in (Len(f) + 1)..Len(q) : Rebase(q, f, f)[i - Len(f) + Len(f)] = q[i]
        /\ \A i \in 1..Len(f) : q[i] = f[i]
    BY <1>1, RebaseFacts, UnderFacts
  <2>2. Len(Rebase(q, f, f)) = Len(q)
    BY <1>1, <2>1
  <2>3. \A i \in (Len(f) + 1)..Len(q) : i - Len(f) + Len(f) = i
    BY <1>1
  <2>4. \A i \in 1..Len(q) : Rebase(q, f, f)[i] = q[i]
    BY <1>1, <2>1, <2>3
  <2> QED BY <2>1, <2>2, <2>4, PathFacts
  <1>4. ASSUME NEW h \in Paths, AtOrUnder(f, h), AtOrUnder(h, q)
        PROVE  Rebase(q, h, Rebase(h, f, g)) = Rebase(q, f, g)
  <2> DEFINE k == Rebase(h, f, g)
             a == Rebase(q, h, k)
             b == Rebase(q, f, g)
  <2>1. Len(h) \in Nat \ {0} /\ Len(f) <= Len(h) /\ Len(h) <= Len(q)
    BY <1>4, PathFacts, AboveFacts
  <2>2. /\ k \in Paths /\ Len(k) = Len(g) + Len(h) - Len(f)
        /\ \A i \in 1..Len(g) : k[i] = g[i]
        /\ \A i \in (Len(f) + 1)..Len(h) : k[i - Len(f) + Len(g)] = h[i]
    BY <1>4, RebaseFacts
  <2>3. /\ b \in Paths /\ Len(b) = Len(g) + Len(q) - Len(f)
        /\ \A i \in 1..Len(g) : b[i] = g[i]
        /\ \A i \in (Len(f) + 1)..Len(q) : b[i - Len(f) + Len(g)] = q[i]
    BY RebaseFacts, ZenonT(30)
  <2> HIDE DEF k, b
  <2>4. /\ a \in Paths /\ Len(a) = Len(k) + Len(q) - Len(h)
        /\ \A i \in 1..Len(k) : a[i] = k[i]
        /\ \A i \in (Len(h) + 1)..Len(q) : a[i - Len(h) + Len(k)] = q[i]
    BY <1>4, <2>2, RebaseFacts, ZenonT(60)
  <2>5. \A i \in 1..Len(h) : q[i] = h[i]
    BY <1>4, UnderFacts
  <2> HIDE DEF a
  <2>6. Len(a) = Len(b)
    BY <1>1, <2>1, <2>2, <2>3, <2>4
  <2>7. ASSUME NEW i \in 1..Len(a) PROVE a[i] = b[i]
      <3>1. CASE i <= Len(g)
        BY <3>1, <1>1, <2>1, <2>2, <2>3, <2>4
      <3>2. CASE i > Len(g) /\ i <= Len(k)
        <4> DEFINE n == i - Len(g) + Len(f)
        <4>1. n \in (Len(f) + 1)..Len(h) /\ n \in 1..Len(h) /\ n \in (Len(f) + 1)..Len(q)
              /\ n - Len(f) + Len(g) = i
          BY <3>2, <1>1, <2>1, <2>2
        <4> HIDE DEF n
        <4>2. k[i] = h[n] /\ b[i] = q[n] /\ q[n] = h[n]
          BY <4>1, <2>2, <2>3, <2>5
        <4>3. a[i] = k[i]
          BY <3>2, <1>1, <2>2, <2>4
        <4> QED BY <4>2, <4>3
      <3>3. CASE i > Len(k)
        <4> DEFINE n == i - Len(k) + Len(h)
        <4>1. n \in (Len(h) + 1)..Len(q) /\ n \in (Len(f) + 1)..Len(q)
              /\ n - Len(h) + Len(k) = i /\ n - Len(f) + Len(g) = i
          BY <3>3, <1>1, <2>1, <2>2, <2>4
        <4> HIDE DEF n
        <4> QED BY <4>1, <2>3, <2>4
      <3> QED BY <3>1, <3>2, <3>3, <1>1, <2>1, <2>2
  <2>8. a = b
    BY <2>3, <2>4, <2>6, <2>7, PathFacts
  <2> QED BY <2>8 DEF a, b, k
  <1> QED BY <1>2, <1>3, <1>4

-----------------------------------------------------------------------------
(* A list of renames that can be carried out.                              *)

\* Renames of a tree, each of what has not moved, before what it lies in
\* moves: nothing above either name has moved when a rename's turn comes, a
\* name that is taken was left before, and who is not in the tree was renamed
\* once, to get out of the way.
Scheme(base, R) ==
    /\ IsTree(base)
    /\ R \in Seq([kind : {"rename"}, from : Paths, to : Paths])
    /\ \A n \in DOMAIN R :
          /\ R[n].from # R[n].to /\ ~StrictlyUnder(R[n].from, R[n].to)
          /\ Len(R[n].to) > 1 =>
                Parent(R[n].to) \in DOMAIN base /\ base[Parent(R[n].to)] \in Dirs
          /\ R[n].to \in DOMAIN base => \E m \in DOMAIN R : m < n /\ R[m].from = R[n].to
          /\ \/ R[n].from \in DOMAIN base
             \/ \E m \in DOMAIN R : /\ m < n /\ R[m].to = R[n].from
                                    /\ R[m].from \in DOMAIN base /\ R[m].to \notin DOMAIN base
    /\ \A m, n \in DOMAIN R : m < n =>
          /\ ~AtOrUnder(R[m].from, R[n].from)
          /\ ~StrictlyUnder(R[m].from, R[n].to)
          /\ R[m].to # R[n].to

\* What k renames call the file that was at p, the folders above it apart.
Coord(R, k, p, c) ==
    \/ c = p /\ \A m \in 1..k : R[m].from # p
    \/ \E m \in 1..k : R[m].from = p /\ R[m].to = c /\ \A n \in 1..k : m < n => R[n].from # c
    \/ \E m, n \in 1..k : m < n /\ R[m].from = p /\ R[m].to = R[n].from /\ R[n].to = c

\* The file at q was at p and is called c: it has c's last name, in the folder
\* that was c's.
Called(base, R, k, t, q, p, c) ==
    /\ p \in DOMAIN base /\ base[p] = t[q]
    /\ c \in Paths /\ Coord(R, k, p, c)
    /\ q[Len(q)] = c[Len(c)]
    /\ Len(q) > 1 => Len(c) > 1
    /\ Len(c) > 1 => Len(q) > 1
    /\ Len(c) > 1 => Parent(c) \in DOMAIN base /\ t[Parent(q)] = base[Parent(c)]

\* The volume after k renames.
RenInv(base, R, k, t) ==
    /\ IsTree(t)
    /\ FilesIn(t) = FilesIn(base)
    /\ \A q \in DOMAIN t : \E p, c \in Paths : Called(base, R, k, t, q, p, c)

\* The folders above what is in a tree are in it.
LEMMA TreeFacts ==
    ASSUME NEW t, IsTree(t), NEW q \in DOMAIN t
    PROVE  /\ q \in Paths /\ t[q] \in Files
           /\ \A p \in Paths : StrictlyUnder(p, q) => p \in DOMAIN t /\ t[p] \in Dirs
           /\ Len(q) > 1 => Parent(q) \in DOMAIN t /\ t[Parent(q)] \in Dirs
           /\ \A p \in DOMAIN t : t[p] = t[q] => p = q
  <1>1. /\ q \in Paths /\ t[q] \in Files /\ \A p \in DOMAIN t : t[p] = t[q] => p = q
        /\ \A n \in 1..(Len(q) - 1) : SubSeq(q, 1, n) \in DOMAIN t /\ t[SubSeq(q, 1, n)] \in Dirs
    BY DEF IsTree
  <1>2. ASSUME NEW p \in Paths, StrictlyUnder(p, q)
        PROVE  p \in DOMAIN t /\ t[p] \in Dirs
  <2>1. Len(p) \in Nat \ {0} /\ Len(q) \in Nat \ {0} /\ AtOrUnder(p, q) /\ Len(p) < Len(q)
    BY <1>1, <1>2, PathFacts, AboveFacts
  <2>2. SubSeq(q, 1, Len(p)) = p /\ Len(p) \in 1..(Len(q) - 1)
    BY <2>1 DEF AtOrUnder
  <2> QED BY <1>1, <2>2
  <1>3. ASSUME Len(q) > 1
        PROVE  Parent(q) \in DOMAIN t /\ t[Parent(q)] \in Dirs
  <2>1. Parent(q) \in Paths /\ StrictlyUnder(Parent(q), q)
    BY <1>1, <1>3, ParentFacts
  <2> QED BY <1>2, <2>1
  <1> QED BY <1>1, <1>2, <1>3

\* The names of a scheme are paths, and no two renames leave one name.
LEMMA SchemeFacts ==
    ASSUME NEW base, NEW R, Scheme(base, R)
    PROVE  /\ IsTree(base) /\ Len(R) \in Nat /\ DOMAIN R = 1..Len(R)
           /\ \A n \in DOMAIN R : R[n].from \in Paths /\ R[n].to \in Paths
           /\ \A m, n \in DOMAIN R : R[m].from = R[n].from => m = n
           /\ \A m, n \in DOMAIN R : R[m].to = R[n].to => m = n
           /\ \A m, n \in DOMAIN R : m < n /\ R[m].to = R[n].from =>
                 R[m].to \notin DOMAIN base
  <1>1. Len(R) \in Nat /\ DOMAIN R = 1..Len(R)
    BY LenProperties DEF Scheme
  <1>2. \A n \in DOMAIN R : R[n] \in [kind : {"rename"}, from : Paths, to : Paths]
    BY <1>1, ElementOfSeq DEF Scheme
  <1>3. \A n \in DOMAIN R : R[n].from \in Paths /\ R[n].to \in Paths
    BY <1>2
  <1>4. \A m, n \in DOMAIN R : m < n => R[m].from # R[n].from /\ R[m].to # R[n].to
    BY <1>3, AboveFacts DEF Scheme
  <1>5. \A m, n \in DOMAIN R : R[m].from = R[n].from => m = n
    BY <1>1, <1>4
  <1>6. \A m, n \in DOMAIN R : R[m].to = R[n].to => m = n
    BY <1>1, <1>4
  <1>7. ASSUME NEW m \in DOMAIN R, NEW n \in DOMAIN R, m < n, R[m].to = R[n].from
        PROVE  R[m].to \notin DOMAIN base
  <2> SUFFICES ASSUME R[m].to \in DOMAIN base PROVE FALSE
    OBVIOUS
  <2>1. PICK l \in DOMAIN R : l < m /\ R[l].from = R[m].to
    BY DEF Scheme
  <2>2. l = n
    BY <1>5, <1>7, <2>1
  <2> QED BY <1>1, <1>7, <2>1, <2>2
  <1> QED BY <1>1, <1>3, <1>5, <1>6, <1>7 DEF Scheme

\* There is one number between 0 and 2.
LEMMA OneIsAll ==
    ASSUME NEW n \in Nat \ {0}, ~(n > 1)
    PROVE  n = 1
  OBVIOUS

\* ... and what is more is not it.
LEMMA MoreThanOne ==
    ASSUME NEW n \in Nat, n > 1
    PROVE  n # 1
  OBVIOUS

\* Of paths that are one name long, the name is all.
LEMMA OneName ==
    ASSUME NEW p \in Paths, NEW q \in Paths, p[Len(p)] = q[Len(q)],
           Len(p) > 1 => Len(q) > 1, ~(Len(q) > 1)
    PROVE  p = q
  <1>1. Len(p) \in Nat \ {0} /\ Len(q) \in Nat \ {0}
    BY PathFacts
  <1>2. Len(p) = 1 /\ Len(q) = 1
  <2>1. ~(Len(p) > 1)
    BY Zenon
  <2> QED BY <1>1, <2>1, OneIsAll, Zenon
  <1> QED BY <1>2, SameParent

\* What has no renamed folder above its name is found under that name.
LEMMA StaysPut ==
    ASSUME NEW base, NEW R, Scheme(base, R), NEW k \in 0..Len(R), NEW t, RenInv(base, R, k, t),
           NEW q \in DOMAIN t, NEW p, NEW c, Called(base, R, k, t, q, p, c),
           \A m \in 1..k : ~StrictlyUnder(R[m].from, c)
    PROVE  q = c
  <1> DEFINE Odd(x, y, z) == /\ Called(base, R, k, t, x, y, z) /\ x # z
                             /\ \A m \in 1..k : ~StrictlyUnder(R[m].from, z)
             T == {n \in Nat : \E x \in DOMAIN t, y, z \in Paths : Odd(x, y, z) /\ Len(z) = n}
  <1>1. /\ IsTree(base) /\ IsTree(t) /\ DOMAIN R = 1..Len(R) /\ Len(R) \in Nat
        /\ \A n \in DOMAIN R : R[n].from \in Paths /\ R[n].to \in Paths
    BY SchemeFacts DEF RenInv
  <1>2. \A x \in DOMAIN t : \A y, z : Called(base, R, k, t, x, y, z) => x \in Paths /\ y \in Paths /\ z \in Paths
    BY <1>1, TreeFacts DEF Called
  <1>3. SUFFICES ASSUME q # c PROVE FALSE
    OBVIOUS
  <1>4. Len(c) \in T
    BY <1>2, <1>3, PathFacts
  <1>5. PICK n \in T : \A x \in T : n <= x
  <2>1. T \in SUBSET Nat /\ T # {}
    BY <1>4
  <2> HIDE DEF T
  <2> QED BY <2>1, Least
  <1>6. PICK x \in DOMAIN t, y \in Paths, z \in Paths : Odd(x, y, z) /\ Len(z) = n
    BY <1>5
  <1>7. x \in Paths /\ z \in Paths /\ y \in Paths /\ Len(x) \in Nat \ {0} /\ Len(z) \in Nat \ {0}
    BY <1>2, <1>6, PathFacts
  <1>8. Len(z) > 1 /\ Len(x) > 1
  <2> SUFFICES ASSUME ~(Len(z) > 1) PROVE FALSE
    BY <1>6 DEF Called
  <2>1. x[Len(x)] = z[Len(z)] /\ (Len(x) > 1 => Len(z) > 1)
    BY <1>6 DEF Called
  <2>2. x = z
    BY <1>7, <2>1, OneName, Zenon
  <2> QED BY <1>6, <2>2
  <1>9. /\ Parent(z) \in DOMAIN base /\ t[Parent(x)] = base[Parent(z)] /\ x[Len(x)] = z[Len(z)]
        /\ Parent(x) \in DOMAIN t
    BY <1>1, <1>6, <1>8, TreeFacts DEF Called
  <1>10. PICK y2, z2 \in Paths : Called(base, R, k, t, Parent(x), y2, z2)
    BY <1>9 DEF RenInv
  <1>11. y2 = Parent(z)
    BY <1>1, <1>9, <1>10, TreeFacts DEF Called
  <1>12. StrictlyUnder(Parent(z), z) /\ Len(Parent(z)) = Len(z) - 1 /\ Parent(z) \in Paths
    BY <1>7, <1>8, ParentFacts
  <1>13. z2 = Parent(z)
  <2>1. \A m \in 1..k : R[m].from # Parent(z)
    BY <1>6, <1>12
  <2> QED BY <1>10, <1>11, <2>1 DEF Called, Coord
  <1>14. \A m \in 1..k : ~StrictlyUnder(R[m].from, Parent(z))
  <2> SUFFICES ASSUME NEW m \in 1..k, StrictlyUnder(R[m].from, Parent(z)) PROVE FALSE
    OBVIOUS
  <2>1. m \in DOMAIN R /\ R[m].from \in Paths
    BY <1>1
  <2>2. AtOrUnder(R[m].from, Parent(z))
    BY DEF StrictlyUnder
  <2>3. StrictlyUnder(R[m].from, z)
    BY <1>7, <1>8, <2>1, <2>2, ParentFacts
  <2> QED BY <1>6, <2>3
  <1>15. Parent(x) = Parent(z)
  <2> SUFFICES ASSUME Parent(x) # Parent(z) PROVE FALSE
    OBVIOUS
  <2>1. Odd(Parent(x), y2, z2)
    BY <1>10, <1>13, <1>14
  <2>2. Len(z2) \in T
    BY <1>9, <1>12, <1>13, <2>1, PathFacts
  <2> QED BY <1>5, <1>6, <1>7, <1>12, <1>13, <2>2
  <1>16. x = z
    BY <1>7, <1>8, <1>9, <1>15, SameParent
  <1> QED BY <1>6, <1>16

\* What has nothing above it that was given its name bears its own name.
LEMMA BearsItsName ==
    ASSUME NEW base, NEW R, Scheme(base, R), NEW k \in 0..Len(R), NEW t, RenInv(base, R, k, t),
           NEW q \in DOMAIN t, NEW p, NEW c, Called(base, R, k, t, q, p, c),
           \A m \in 1..k : ~StrictlyUnder(R[m].to, q)
    PROVE  q = c
  <1> DEFINE Odd(x, y, z) == /\ Called(base, R, k, t, x, y, z) /\ x # z
                             /\ \A m \in 1..k : ~StrictlyUnder(R[m].to, x)
             T == {n \in Nat : \E x \in DOMAIN t, y, z \in Paths : Odd(x, y, z) /\ Len(x) = n}
  <1>1. /\ IsTree(base) /\ IsTree(t) /\ DOMAIN R = 1..Len(R) /\ Len(R) \in Nat
        /\ \A n \in DOMAIN R : R[n].from \in Paths /\ R[n].to \in Paths
    BY SchemeFacts DEF RenInv
  <1>2. \A x \in DOMAIN t : \A y, z : Called(base, R, k, t, x, y, z) => x \in Paths /\ y \in Paths /\ z \in Paths
    BY <1>1, TreeFacts DEF Called
  <1>3. SUFFICES ASSUME q # c PROVE FALSE
    OBVIOUS
  <1>4. Len(q) \in T
    BY <1>2, <1>3, PathFacts
  <1>5. PICK n \in T : \A x \in T : n <= x
  <2>1. T \in SUBSET Nat /\ T # {}
    BY <1>4
  <2> HIDE DEF T
  <2> QED BY <2>1, Least
  <1>6. PICK x \in DOMAIN t, y \in Paths, z \in Paths : Odd(x, y, z) /\ Len(x) = n
    BY <1>5
  <1>7. x \in Paths /\ z \in Paths /\ y \in Paths /\ Len(x) \in Nat \ {0} /\ Len(z) \in Nat \ {0}
    BY <1>2, <1>6, PathFacts
  <1>8. Len(z) > 1 /\ Len(x) > 1
  <2> SUFFICES ASSUME ~(Len(z) > 1) PROVE FALSE
    BY <1>6 DEF Called
  <2>1. x[Len(x)] = z[Len(z)] /\ (Len(x) > 1 => Len(z) > 1)
    BY <1>6 DEF Called
  <2>2. x = z
    BY <1>7, <2>1, OneName, Zenon
  <2> QED BY <1>6, <2>2
  <1>9. /\ Parent(z) \in DOMAIN base /\ t[Parent(x)] = base[Parent(z)] /\ x[Len(x)] = z[Len(z)]
        /\ Parent(x) \in DOMAIN t
    BY <1>1, <1>6, <1>8, TreeFacts DEF Called
  <1>10. PICK y2, z2 \in Paths : Called(base, R, k, t, Parent(x), y2, z2)
    BY <1>9 DEF RenInv
  <1>11. y2 = Parent(z)
    BY <1>1, <1>9, <1>10, TreeFacts DEF Called
  <1>12. StrictlyUnder(Parent(x), x) /\ Len(Parent(x)) = Len(x) - 1 /\ Parent(x) \in Paths
    BY <1>7, <1>8, ParentFacts
  <1>13. \A m \in 1..k : ~StrictlyUnder(R[m].to, Parent(x))
  <2> SUFFICES ASSUME NEW m \in 1..k, StrictlyUnder(R[m].to, Parent(x)) PROVE FALSE
    OBVIOUS
  <2>1. m \in DOMAIN R /\ R[m].to \in Paths
    BY <1>1
  <2>2. AtOrUnder(R[m].to, Parent(x))
    BY DEF StrictlyUnder
  <2>3. StrictlyUnder(R[m].to, x)
    BY <1>7, <1>8, <2>1, <2>2, ParentFacts
  <2> QED BY <1>6, <2>3
  <1>14. z2 = Parent(x)
  <2> SUFFICES ASSUME Parent(x) # z2 PROVE FALSE
    OBVIOUS
  <2>1. Odd(Parent(x), y2, z2)
    BY <1>10, <1>13
  <2>2. Len(Parent(x)) \in T
    BY <1>9, <1>12, <2>1, PathFacts
  <2> QED BY <1>5, <1>6, <1>7, <1>12, <2>2
  <1>15. z2 = y2
  <2>1. \A m \in 1..k : R[m].to # Parent(x)
    BY <1>6, <1>12
  <2> QED BY <1>10, <1>14, <2>1 DEF Called, Coord
  <1>16. x = z
    BY <1>7, <1>8, <1>9, <1>11, <1>14, <1>15, SameParent
  <1> QED BY <1>6, <1>16

\* Before the first rename everything bears its own name.
LEMMA RenStart ==
    ASSUME NEW base, NEW R, Scheme(base, R)
    PROVE  RenInv(base, R, 0, base)
  <1>1. IsTree(base)
    BY DEF Scheme
  <1>2. ASSUME NEW q \in DOMAIN base
        PROVE  q \in Paths /\ Called(base, R, 0, base, q, q, q)
  <2>1. q \in Paths /\ (Len(q) > 1 => Parent(q) \in DOMAIN base)
    BY <1>1, TreeFacts
  <2>2. 1..0 = {}
    OBVIOUS
  <2>3. Coord(R, 0, q, q)
    BY <2>2 DEF Coord
  <2> QED BY <2>1, <2>3 DEF Called
  <1> QED BY <1>1, <1>2 DEF RenInv

\* When its turn comes, a rename finds its file, its name free and its folder
\* there.
LEMMA RenCan ==
    ASSUME NEW base, NEW R, Scheme(base, R), NEW k \in Nat, k + 1 \in 1..Len(R),
           NEW t, RenInv(base, R, k, t)
    PROVE  /\ CanRename(t, R[k + 1].from, R[k + 1].to)
           /\ \A q \in DOMAIN t : \A p, c : Called(base, R, k, t, q, p, c) /\ c = R[k + 1].from => q = c
           /\ \A p, c : Called(base, R, k, t, R[k + 1].from, p, c) =>
                 c = R[k + 1].from /\ Coord(R, k + 1, p, R[k + 1].to)
           /\ Len(R[k + 1].to) > 1 => t[Parent(R[k + 1].to)] = base[Parent(R[k + 1].to)]
           /\ \A p \in DOMAIN base : p = R[k + 1].from /\ Coord(R, k, p, p) => t[p] = base[p]
  <1> DEFINE f == R[k + 1].from
             g == R[k + 1].to
  <1>1. /\ IsTree(base) /\ IsTree(t) /\ DOMAIN R = 1..Len(R) /\ Len(R) \in Nat
        /\ \A n \in DOMAIN R : R[n].from \in Paths /\ R[n].to \in Paths
        /\ \A m, n \in DOMAIN R : R[m].from = R[n].from => m = n
        /\ \A m, n \in DOMAIN R : R[m].to = R[n].to => m = n
        /\ \A m, n \in DOMAIN R : m < n /\ R[m].to = R[n].from => R[m].to \notin DOMAIN base
    BY SchemeFacts DEF RenInv
  <1>2. /\ k + 1 \in DOMAIN R /\ k \in 0..Len(R)
        /\ \A m \in 1..k : m \in DOMAIN R /\ m < k + 1 /\ m \in 1..Len(R)
        /\ \A m \in DOMAIN R : m < k + 1 => m \in 1..k
    BY <1>1
  <1>3. f \in Paths /\ g \in Paths /\ f # g /\ ~AtOrUnder(f, g)
  <2>1. f \in Paths /\ g \in Paths /\ f # g /\ ~StrictlyUnder(f, g)
    BY <1>1, <1>2 DEF Scheme
  <2> QED BY <2>1 DEF StrictlyUnder
  <1>4. /\ \A m \in 1..k : ~AtOrUnder(R[m].from, f) /\ ~StrictlyUnder(R[m].from, g)
        /\ \A m \in 1..k : R[m].from # f /\ R[m].to # g
    BY <1>1, <1>2, SMTT(30) DEF Scheme
  <1>5. \A m \in 1..k : ~StrictlyUnder(R[m].from, f)
    BY <1>4 DEF StrictlyUnder
  <1>6. \A q \in DOMAIN t : \A p, c : Called(base, R, k, t, q, p, c) /\ c = f => q = c
    BY <1>2, <1>5, StaysPut
  <1>7. \A x \in DOMAIN base : \E q \in DOMAIN t : t[q] = base[x] /\ \E c \in Paths : Called(base, R, k, t, q, x, c)
  <2> TAKE x \in DOMAIN base
  <2>1. PICK q \in DOMAIN t : t[q] = base[x]
    BY DEF RenInv, FilesIn
  <2>2. PICK p, c \in Paths : Called(base, R, k, t, q, p, c)
    BY DEF RenInv
  <2>3. p = x
    BY <1>1, <2>1, <2>2, TreeFacts DEF Called
  <2> QED BY <2>1, <2>2, <2>3
  <1>8. \A x \in DOMAIN base : (\A m \in 1..k : R[m].from # x /\ ~StrictlyUnder(R[m].from, x))
           => x \in DOMAIN t /\ t[x] = base[x]
  <2> TAKE x \in DOMAIN base
  <2> HAVE \A m \in 1..k : R[m].from # x /\ ~StrictlyUnder(R[m].from, x)
  <2>1. PICK q \in DOMAIN t, c \in Paths : t[q] = base[x] /\ Called(base, R, k, t, q, x, c)
    BY <1>7
  <2>2. c = x
    BY <2>1 DEF Called, Coord
  <2>3. q = c
    BY <1>2, <2>1, <2>2, StaysPut
  <2> QED BY <2>1, <2>2, <2>3
  <1>9. f \in DOMAIN t
  <2>1. CASE f \in DOMAIN base
    BY <1>4, <1>5, <1>8, <2>1
  <2>2. CASE f \notin DOMAIN base
      <3>1. PICK m \in DOMAIN R : m < k + 1 /\ R[m].to = f /\ R[m].from \in DOMAIN base
        BY <1>2, <2>2 DEF Scheme
      <3>2. m \in 1..k
        BY <1>2, <3>1
      <3>3. PICK q \in DOMAIN t, c \in Paths : Called(base, R, k, t, q, R[m].from, c)
        BY <1>7, <3>1
      <3>4. Coord(R, k, R[m].from, c)
        BY <3>3 DEF Called
      <3>5. c = f
        BY <1>1, <1>2, <1>4, <3>1, <3>2, <3>4 DEF Coord
      <3> QED BY <1>6, <3>3, <3>5
  <2> QED BY <2>1, <2>2
  <1>10. \A m \in 1..k : ~StrictlyUnder(R[m].to, f) /\ ~StrictlyUnder(R[m].to, g)
  <2> SUFFICES ASSUME NEW m \in 1..k, NEW h \in {f, g}, StrictlyUnder(R[m].to, h)
               PROVE  FALSE
    OBVIOUS
  <2>1. h \in Paths /\ R[m].to \in Paths /\ R[m].from \in Paths
    BY <1>1, <1>2, <1>3
  <2>2. R[m].to \in DOMAIN base
      <3>1. CASE h \in DOMAIN base
        BY <1>1, <2>1, <3>1, TreeFacts
      <3>2. CASE h \notin DOMAIN base
        <4>1. Len(h) > 1 /\ AtOrUnder(R[m].to, Parent(h))
          <5>1. Len(R[m].to) \in Nat \ {0} /\ Len(h) \in Nat \ {0} /\ Len(R[m].to) < Len(h)
            BY <2>1, PathFacts, AboveFacts
          <5>2. Len(h) > 1
            BY <5>1
          <5> QED BY <2>1, <5>2, ParentFacts
        <4>2. Parent(h) \in DOMAIN base
          <5>1. CASE h = g
            BY <1>2, <4>1, <5>1 DEF Scheme
          <5>2. CASE h = f
            <6>1. PICK l \in DOMAIN R : R[l].to = f
              BY <1>2, <3>2, <5>2 DEF Scheme
            <6> QED BY <4>1, <5>2, <6>1 DEF Scheme
          <5> QED BY <5>1, <5>2
        <4>3. CASE R[m].to = Parent(h)
          BY <4>2, <4>3
        <4>4. CASE R[m].to # Parent(h)
          <5>1. StrictlyUnder(R[m].to, Parent(h))
            BY <4>1, <4>4 DEF StrictlyUnder
          <5> QED BY <1>1, <2>1, <4>2, <5>1, TreeFacts
        <4> QED BY <4>3, <4>4
      <3> QED BY <3>1, <3>2
  <2>3. PICK l \in DOMAIN R : l < m /\ R[l].from = R[m].to
    BY <1>2, <2>2 DEF Scheme
  <2>4. l \in 1..k
    BY <1>1, <1>2, <2>3
  <2>5. ~StrictlyUnder(R[l].from, h)
    BY <1>4, <1>5, <2>4
  <2> QED BY <2>3, <2>5
  <1>11. g \notin DOMAIN t
  <2> SUFFICES ASSUME g \in DOMAIN t PROVE FALSE
    OBVIOUS
  <2>1. PICK p, c \in Paths : Called(base, R, k, t, g, p, c)
    BY DEF RenInv
  <2>2. g = c
    BY <1>2, <1>10, <2>1, BearsItsName
  <2>3. p = g /\ g \in DOMAIN base /\ \A m \in 1..k : R[m].from # g
    BY <1>4, <2>1, <2>2 DEF Called, Coord
  <2>4. PICK m \in DOMAIN R : m < k + 1 /\ R[m].from = g
    BY <1>2, <2>3 DEF Scheme
  <2> QED BY <1>2, <2>3, <2>4
  <1>12. ASSUME Len(g) > 1
         PROVE  /\ Parent(g) \in DOMAIN t /\ t[Parent(g)] = base[Parent(g)]
                /\ base[Parent(g)] \in Dirs
  <2>1. Parent(g) \in DOMAIN base /\ base[Parent(g)] \in Dirs
    BY <1>2, <1>12 DEF Scheme
  <2>2. Parent(g) \in Paths /\ \A x \in Paths : AtOrUnder(x, Parent(g)) <=> StrictlyUnder(x, g)
    BY <1>3, <1>12, ParentFacts
  <2>3. \A m \in 1..k : R[m].from # Parent(g) /\ ~StrictlyUnder(R[m].from, Parent(g))
      <3> TAKE m \in 1..k
      <3>1. R[m].from \in Paths /\ ~AtOrUnder(R[m].from, Parent(g))
        BY <1>1, <1>2, <1>4, <2>2
      <3>2. R[m].from # Parent(g)
        BY <2>2, <3>1, UnderReflexive
      <3> QED BY <3>1, <3>2 DEF StrictlyUnder
  <2> QED BY <1>8, <2>1, <2>3
  <1>13. CanRename(t, f, g)
    BY <1>3, <1>9, <1>11, <1>12 DEF CanRename, Exists, HasRoom
  <1>14. ASSUME NEW p, NEW c, Called(base, R, k, t, f, p, c)
         PROVE  c = f /\ Coord(R, k + 1, p, g)
  <2>1. c = f
    BY <1>2, <1>9, <1>10, <1>14, BearsItsName
  <2>2. Coord(R, k, p, f) /\ p \in DOMAIN base
    BY <1>14, <2>1 DEF Called
  <2>3. k + 1 \in 1..(k + 1) /\ (\A m \in 1..k : m \in 1..(k + 1) /\ m < k + 1)
        /\ \A n \in 1..(k + 1) : ~(k + 1 < n)
    OBVIOUS
  <2>4. CASE f = p /\ \A m \in 1..k : R[m].from # p
      <3>1. R[k + 1].from = p /\ R[k + 1].to = g
        BY <2>4
      <3>2. \A n \in 1..(k + 1) : k + 1 < n => R[n].from # g
        BY <2>3
      <3>3. \E m \in 1..(k + 1) : /\ R[m].from = p /\ R[m].to = g
                                   /\ \A n \in 1..(k + 1) : m < n => R[n].from # g
        BY <2>3, <3>1, <3>2
      <3> HIDE DEF f, g
      <3> QED BY <2>1, <3>3, Zenon DEF Coord
  <2>5. CASE \E m \in 1..k : R[m].from = p /\ R[m].to = f /\ \A n \in 1..k : m < n => R[n].from # f
      <3>1. PICK m \in 1..k : R[m].from = p /\ R[m].to = f
        BY <2>5
      <3>2. m \in 1..(k + 1) /\ m < k + 1 /\ R[m].to = R[k + 1].from /\ R[k + 1].to = g
        BY <2>3, <3>1
      <3>3. \E i, n \in 1..(k + 1) : /\ i < n /\ R[i].from = p
                                      /\ R[i].to = R[n].from /\ R[n].to = g
        BY <2>3, <3>1, <3>2
      <3> HIDE DEF f, g
      <3> QED BY <2>1, <3>3, Zenon DEF Coord
  <2>6. CASE \E m, n \in 1..k : m < n /\ R[m].from = p /\ R[m].to = R[n].from /\ R[n].to = f
      <3>1. PICK m \in 1..k, n \in 1..k : m < n /\ R[m].to = R[n].from /\ R[n].to = f
        BY <2>6
      <3>2. R[n].from \notin DOMAIN base
        BY <1>1, <1>2, <3>1
      <3>3. CASE f \in DOMAIN base
        <4>1. PICK l \in DOMAIN R : l < n /\ R[l].from = f
          BY <1>2, <3>1, <3>3 DEF Scheme
        <4>2. l \in 1..k
          BY <1>1, <1>2, <4>1
        <4> QED BY <1>4, <4>1, <4>2
      <3>4. CASE f \notin DOMAIN base
        <4>1. PICK l \in DOMAIN R : R[l].to = f /\ R[l].from \in DOMAIN base
          BY <1>2, <3>4 DEF Scheme
        <4>2. l = n
          BY <1>1, <1>2, <3>1, <4>1
        <4> QED BY <3>2, <4>1, <4>2
      <3> QED BY <3>3, <3>4
  <2> QED BY <2>1, <2>2, <2>4, <2>5, <2>6 DEF Coord
  <1>15. ASSUME NEW p \in DOMAIN base, p = f
         PROVE  t[p] = base[p]
    BY <1>4, <1>5, <1>8, <1>15
  <1> QED BY <1>6, <1>12, <1>13, <1>14, <1>15

\* What a rename does not take is called what it was.
LEMMA CoordStep ==
    ASSUME NEW R, NEW k \in Nat, NEW p, NEW c, Coord(R, k, p, c), c # R[k + 1].from
    PROVE  Coord(R, k + 1, p, c)
  <1>1. /\ \A m \in 1..(k + 1) : m \in 1..k \/ m = k + 1
        /\ \A m \in 1..k : m \in 1..(k + 1)
    OBVIOUS
  <1>2. CASE c = p /\ \A m \in 1..k : R[m].from # p
  <2>1. \A m \in 1..(k + 1) : R[m].from # p
    BY <1>1, <1>2
  <2> QED BY <1>2, <2>1, Zenon DEF Coord
  <1>3. CASE \E m \in 1..k : R[m].from = p /\ R[m].to = c /\ \A n \in 1..k : m < n => R[n].from # c
  <2>1. PICK m \in 1..k : R[m].from = p /\ R[m].to = c /\ \A n \in 1..k : m < n => R[n].from # c
    BY <1>3
  <2>2. \E i \in 1..(k + 1) : R[i].from = p /\ R[i].to = c /\ \A n \in 1..(k + 1) : i < n => R[n].from # c
    BY <1>1, <2>1
  <2> QED BY <2>2, Zenon DEF Coord
  <1>4. CASE \E m, n \in 1..k : m < n /\ R[m].from = p /\ R[m].to = R[n].from /\ R[n].to = c
  <2>1. \E m, n \in 1..(k + 1) : m < n /\ R[m].from = p /\ R[m].to = R[n].from /\ R[n].to = c
    BY <1>1, <1>4
  <2> QED BY <2>1, Zenon DEF Coord
  <1> QED BY <1>2, <1>3, <1>4, Zenon DEF Coord

\* Every rename leaves its file under its new name, and everything in it with
\* it, for the next.
LEMMA RenStep ==
    ASSUME NEW base, NEW R, Scheme(base, R), NEW k \in Nat, k + 1 \in 1..Len(R),
           NEW t, RenInv(base, R, k, t)
    PROVE  RenInv(base, R, k + 1, Renamed(t, R[k + 1].from, R[k + 1].to))
  <1> DEFINE f == R[k + 1].from
             g == R[k + 1].to
             u == Renamed(t, f, g)
  <1>1. /\ IsTree(t) /\ FilesIn(t) = FilesIn(base) /\ f \in Paths /\ g \in Paths
        /\ \A q \in DOMAIN t : \E p, c \in Paths : Called(base, R, k, t, q, p, c)
  <2>1. k + 1 \in DOMAIN R
    BY SchemeFacts
  <2>2. f \in Paths /\ g \in Paths
    BY <2>1, SchemeFacts
  <2> HIDE DEF f, g
  <2>3. /\ IsTree(t) /\ FilesIn(t) = FilesIn(base)
        /\ \A q \in DOMAIN t : \E p, c \in Paths : Called(base, R, k, t, q, p, c)
    BY DEF RenInv
  <2> QED BY <2>2, <2>3
  <1>2. /\ CanRename(t, f, g)
        /\ \A q \in DOMAIN t : \A p, c : Called(base, R, k, t, q, p, c) /\ c = f => q = c
        /\ \A p, c : Called(base, R, k, t, f, p, c) => c = f /\ Coord(R, k + 1, p, g)
        /\ Len(g) > 1 => t[Parent(g)] = base[Parent(g)]
  <2>1. CanRename(t, f, g)
    BY RenCan, Zenon
  <2>2. \A q \in DOMAIN t : \A p, c : Called(base, R, k, t, q, p, c) /\ c = f => q = c
    BY RenCan, Zenon
  <2>3. \A p, c : Called(base, R, k, t, f, p, c) => c = f /\ Coord(R, k + 1, p, g)
    BY RenCan, Zenon
  <2>4. Len(g) > 1 => t[Parent(g)] = base[Parent(g)]
    BY RenCan
  <2> QED BY <2>1, <2>2, <2>3, <2>4
  <1>3. Len(g) > 1 => Parent(g) \in DOMAIN base
  <2>1. k + 1 \in DOMAIN R
    BY SchemeFacts
  <2> QED BY <2>1 DEF Scheme
  <1>4. \A p, c : Coord(R, k, p, c) /\ c # f => Coord(R, k + 1, p, c)
    BY CoordStep
  <1>5. f \in DOMAIN t /\ ~AtOrUnder(f, g) /\ (Len(g) > 1 => Parent(g) \in DOMAIN t)
    BY <1>2 DEF CanRename, Exists, HasRoom
  <1> HIDE DEF f, g
  <1>6. IsTree(u) /\ FilesIn(u) = FilesIn(base)
    BY <1>1, <1>2, RenamedIsTree
  <1>7. /\ \A p \in DOMAIN t : ~AtOrUnder(f, p) => p \in DOMAIN u /\ u[p] = t[p]
        /\ \A p \in DOMAIN t : AtOrUnder(f, p) =>
              Rebase(p, f, g) \in DOMAIN u /\ u[Rebase(p, f, g)] = t[p]
        /\ \A p \in DOMAIN u : AtOrUnder(g, p) =>
              \E q \in DOMAIN t : AtOrUnder(f, q) /\ p = Rebase(q, f, g)
        /\ \A p \in DOMAIN u : ~AtOrUnder(g, p) => p \in DOMAIN t /\ ~AtOrUnder(f, p)
    BY <1>1, <1>2, RenamedFacts
  <1>8. \A q \in DOMAIN t : /\ q \in Paths
                            /\ Len(q) > 1 => Parent(q) \in DOMAIN t /\ Parent(q) \in Paths
    BY <1>1, TreeFacts
  <1> HIDE DEF u
  <1>9. ASSUME NEW q \in DOMAIN u, ~AtOrUnder(g, q)
        PROVE  \E p, c \in Paths : Called(base, R, k + 1, u, q, p, c)
  <2>1. q \in DOMAIN t /\ ~AtOrUnder(f, q) /\ u[q] = t[q]
    BY <1>7, <1>9
  <2>2. PICK p, c \in Paths : Called(base, R, k, t, q, p, c)
    BY <1>1, <2>1
  <2>3. c # f
    BY <1>1, <1>2, <2>1, <2>2, UnderReflexive
  <2>4. Coord(R, k + 1, p, c)
    BY <1>4, <2>2, <2>3 DEF Called
  <2>5. ASSUME Len(q) > 1 PROVE u[Parent(q)] = t[Parent(q)]
      <3>1. Parent(q) \in DOMAIN t /\ ~AtOrUnder(f, Parent(q))
        <4>1. AtOrUnder(f, Parent(q)) => AtOrUnder(f, q)
          BY <1>1, <1>8, <2>1, <2>5, ParentFacts DEF StrictlyUnder
        <4> QED BY <1>8, <2>1, <2>5, <4>1
      <3> QED BY <1>7, <3>1
  <2>6. Called(base, R, k + 1, u, q, p, c)
    BY <2>1, <2>2, <2>4, <2>5, Zenon DEF Called
  <2> QED BY <2>6
  <1>10. ASSUME NEW q \in DOMAIN u, AtOrUnder(g, q)
         PROVE  \E p, c \in Paths : Called(base, R, k + 1, u, q, p, c)
  <2>1. PICK o \in DOMAIN t : AtOrUnder(f, o) /\ q = Rebase(o, f, g)
    BY <1>7, <1>10
  <2>2. u[q] = t[o] /\ o \in Paths
    BY <1>7, <1>8, <2>1
  <2>3. PICK p, c \in Paths : Called(base, R, k, t, o, p, c)
    BY <1>1
  <2>4. CASE o = f
      <3>1. q = g
        BY <1>1, <2>1, <2>4, UnderReflexive, CarriedTwice
      <3>2. Coord(R, k + 1, p, g)
        BY <1>2, <2>3, <2>4
      <3>3. ASSUME Len(g) > 1
            PROVE  Parent(g) \in DOMAIN base /\ u[Parent(g)] = base[Parent(g)]
        <4>1. ~AtOrUnder(f, Parent(g))
          <5>1. AtOrUnder(f, Parent(g)) => AtOrUnder(f, g)
            BY <1>1, <3>3, ParentFacts DEF StrictlyUnder
          <5> QED BY <1>5, <5>1
        <4> QED BY <1>2, <1>3, <1>5, <1>7, <3>3, <4>1
      <3>4. p \in DOMAIN base /\ base[p] = u[q]
        BY <2>2, <2>3 DEF Called
      <3>5. Called(base, R, k + 1, u, q, p, g)
        BY <1>1, <3>1, <3>2, <3>3, <3>4, Zenon DEF Called
      <3> QED BY <1>1, <3>5
  <2>5. CASE o # f
      <3>1. StrictlyUnder(f, o)
        BY <2>1, <2>5 DEF StrictlyUnder
      <3>2. c # f
        BY <1>2, <2>3, <2>5
      <3>3. Coord(R, k + 1, p, c)
        BY <1>4, <2>3, <3>2 DEF Called
      <3>4. /\ Len(q) > 1 /\ Len(o) > 1 /\ q[Len(q)] = o[Len(o)]
            /\ AtOrUnder(f, Parent(o)) /\ Parent(q) = Rebase(Parent(o), f, g)
        BY <1>1, <2>1, <2>2, <3>1, CarriedFacts
      <3>5. u[Parent(q)] = t[Parent(o)]
        BY <1>7, <1>8, <3>4
      <3>6. Called(base, R, k + 1, u, q, p, c)
        BY <2>2, <2>3, <3>3, <3>4, <3>5, Zenon DEF Called
      <3> QED BY <3>6
  <2> QED BY <2>4, <2>5
  <1>11. RenInv(base, R, k + 1, u)
    BY <1>6, <1>9, <1>10 DEF RenInv
  <1> QED BY <1>11 DEF u, f, g

-----------------------------------------------------------------------------
(* Where everything is when all renames are done.                          *)

\* fin: what each file of the tree is called in the end, the folders above it
\* apart.  The file at q bears the last of these names, in that folder.
Settled(base, fin, t) ==
    /\ IsTree(base) /\ IsTree(t) /\ FilesIn(t) = FilesIn(base)
    /\ fin \in [DOMAIN base -> Paths]
    /\ \A q \in DOMAIN t : \E p \in DOMAIN base :
          /\ base[p] = t[q]
          /\ q[Len(q)] = fin[p][Len(fin[p])]
          /\ Len(q) > 1 => Len(fin[p]) > 1
          /\ Len(fin[p]) > 1 => /\ Len(q) > 1
                                /\ Parent(fin[p]) \in DOMAIN base
                                /\ t[Parent(q)] = base[Parent(fin[p])]

\* Where the file is.
Home(t, x) == CHOOSE q \in DOMAIN t : t[q] = x

Moved(fin) == {p \in DOMAIN fin : fin[p] # p}

\* The folder just above c that was renamed.
Nearest(fin, c, j) ==
    /\ j \in Moved(fin) /\ StrictlyUnder(j, c)
    /\ \A m \in Moved(fin) : StrictlyUnder(m, c) => Len(m) <= Len(j)

\* What is called c is carried to q: by the nearest renamed folder above it.
Carries(base, fin, t, c, q) ==
    \/ q = c /\ \A m \in Moved(fin) : ~StrictlyUnder(m, c)
    \/ \E j \in Moved(fin) : Nearest(fin, c, j) /\ q = Rebase(c, j, Home(t, base[j]))

\* Every file is somewhere, in a folder that was its folder.
LEMMA PlaceFacts ==
    ASSUME NEW base, NEW fin, NEW t, Settled(base, fin, t), NEW p \in DOMAIN base
    PROVE  /\ Home(t, base[p]) \in DOMAIN t /\ t[Home(t, base[p])] = base[p]
           /\ Home(t, base[p]) \in Paths /\ fin[p] \in Paths
           /\ LET q == Home(t, base[p]) IN
              /\ q[Len(q)] = fin[p][Len(fin[p])]
              /\ Len(q) > 1 => Len(fin[p]) > 1
              /\ Len(fin[p]) > 1 => /\ Len(q) > 1
                                    /\ Parent(fin[p]) \in DOMAIN base
                                    /\ t[Parent(q)] = base[Parent(fin[p])]
  <1> DEFINE q == Home(t, base[p])
  <1>1. \E r \in DOMAIN t : t[r] = base[p]
    BY DEF Settled, FilesIn
  <1>2. q \in DOMAIN t /\ t[q] = base[p]
    BY <1>1 DEF Home
  <1> HIDE DEF q
  <1>3. PICK o \in DOMAIN base :
          /\ base[o] = t[q]
          /\ q[Len(q)] = fin[o][Len(fin[o])]
          /\ Len(q) > 1 => Len(fin[o]) > 1
          /\ Len(fin[o]) > 1 => /\ Len(q) > 1
                                /\ Parent(fin[o]) \in DOMAIN base
                                /\ t[Parent(q)] = base[Parent(fin[o])]
    BY <1>2 DEF Settled
  <1>4. o = p
    BY <1>2, <1>3, TreeFacts DEF Settled
  <1>5. q \in Paths
    BY <1>2, TreeFacts DEF Settled
  <1>6. fin[p] \in Paths
    BY DEF Settled
  <1> QED BY <1>2, <1>3, <1>4, <1>5, <1>6 DEF q

\* Of the renamed folders above a path one is the nearest.
LEMMA NearestExists ==
    ASSUME NEW fin, DOMAIN fin \subseteq Paths, NEW c \in Paths,
           NEW m \in Moved(fin), StrictlyUnder(m, c)
    PROVE  \E j \in Moved(fin) : Nearest(fin, c, j) /\ AtOrUnder(m, j)
  <1> DEFINE T == {n \in Nat : \E j \in Moved(fin) : StrictlyUnder(j, c) /\ Len(j) = n}
  <1>1. \A j \in Moved(fin) : j \in Paths /\ Len(j) \in Nat /\ (StrictlyUnder(j, c) => Len(j) <= Len(c))
  <2> TAKE j \in Moved(fin)
  <2>1. j \in Paths
    BY DEF Moved
  <2> QED BY <2>1, PathFacts, AboveFacts
  <1>2. T \in SUBSET Nat /\ Len(m) \in T /\ Len(c) \in Nat /\ \A n \in T : n <= Len(c)
    BY <1>1, PathFacts
  <1>3. PICK n \in T : \A k \in T : k <= n
  <2> HIDE DEF T
  <2>1. T # {}
    BY <1>2
  <2> QED BY <1>2, <2>1, Greatest
  <1>4. PICK j \in Moved(fin) : StrictlyUnder(j, c) /\ Len(j) = n
    BY <1>3
  <1>5. \A k \in Moved(fin) : StrictlyUnder(k, c) => Len(k) <= Len(j)
    BY <1>1, <1>3, <1>4
  <1>6. AtOrUnder(m, j)
  <2>1. AtOrUnder(m, c) /\ AtOrUnder(j, c) /\ Len(m) <= Len(j)
    BY <1>4, <1>5 DEF StrictlyUnder
  <2> QED BY <1>1, <1>4, <2>1, AboveFacts
  <1> QED BY <1>4, <1>5, <1>6 DEF Nearest

\* One only.
LEMMA NearestIsOne ==
    ASSUME NEW fin, DOMAIN fin \subseteq Paths, NEW c \in Paths, NEW i, NEW j,
           Nearest(fin, c, i), Nearest(fin, c, j)
    PROVE  i = j
  <1>1. /\ i \in Paths /\ j \in Paths /\ AtOrUnder(i, c) /\ AtOrUnder(j, c)
        /\ Len(i) <= Len(j) /\ Len(j) <= Len(i)
    BY DEF Nearest, Moved, StrictlyUnder
  <1>2. Len(i) \in Nat /\ Len(j) \in Nat
    BY <1>1, PathFacts
  <1>3. AtOrUnder(i, j) /\ Len(i) = Len(j)
    BY <1>1, <1>2, AboveFacts
  <1> QED BY <1>1, <1>3, AboveFacts

\* Everything is carried somewhere, and to one place.
LEMMA CarriesFacts ==
    ASSUME NEW base, NEW fin, NEW t, Settled(base, fin, t), NEW c \in Paths
    PROVE  /\ \E q \in Paths : Carries(base, fin, t, c, q)
           /\ \A q, r : Carries(base, fin, t, c, q) /\ Carries(base, fin, t, c, r) => q = r
           /\ \A q : Carries(base, fin, t, c, q) => q \in Paths
  <1>1. DOMAIN fin = DOMAIN base /\ DOMAIN fin \subseteq Paths
    BY DEF Settled, IsTree
  <1>2. ASSUME NEW j \in Moved(fin), StrictlyUnder(j, c)
        PROVE  Rebase(c, j, Home(t, base[j])) \in Paths
  <2>1. j \in DOMAIN base /\ j \in Paths
    BY <1>1 DEF Moved
  <2>2. Home(t, base[j]) \in Paths
    BY <2>1, PlaceFacts
  <2> QED BY <1>2, <2>1, <2>2, CarriedFacts
  <1>3. \A q : Carries(base, fin, t, c, q) => q \in Paths
    BY <1>2 DEF Carries, Nearest
  <1>4. \E q : Carries(base, fin, t, c, q)
  <2>1. CASE \A m \in Moved(fin) : ~StrictlyUnder(m, c)
    BY <2>1 DEF Carries
  <2>2. CASE \E m \in Moved(fin) : StrictlyUnder(m, c)
      <3>1. PICK j \in Moved(fin) : Nearest(fin, c, j)
        BY <1>1, <2>2, NearestExists
      <3> QED BY <3>1 DEF Carries
  <2> QED BY <2>1, <2>2
  <1>5. ASSUME NEW q, NEW r, Carries(base, fin, t, c, q), Carries(base, fin, t, c, r)
        PROVE  q = r
  <2>1. CASE \A m \in Moved(fin) : ~StrictlyUnder(m, c)
    BY <1>5, <2>1 DEF Carries, Nearest
  <2>2. CASE \E m \in Moved(fin) : StrictlyUnder(m, c)
      <3>1. PICK i \in Moved(fin) : Nearest(fin, c, i) /\ q = Rebase(c, i, Home(t, base[i]))
        BY <1>5, <2>2 DEF Carries
      <3>2. PICK j \in Moved(fin) : Nearest(fin, c, j) /\ r = Rebase(c, j, Home(t, base[j]))
        BY <1>5, <2>2 DEF Carries
      <3>3. i = j
        BY <1>1, <3>1, <3>2, NearestIsOne
      <3> QED BY <3>1, <3>2, <3>3
  <2> QED BY <2>1, <2>2
  <1> QED BY <1>3, <1>4, <1>5

\* What is carried stays in its folder, wherever that went.
LEMMA CarriedFolder ==
    ASSUME NEW base, NEW fin, NEW t, Settled(base, fin, t), NEW c \in Paths,
           Len(c) > 1 => Parent(c) \in DOMAIN base,
           Len(c) > 1 /\ fin[Parent(c)] = Parent(c) =>
               Carries(base, fin, t, Parent(c), Home(t, base[Parent(c)])),
           NEW q, Carries(base, fin, t, c, q)
    PROVE  /\ q \in Paths /\ q[Len(q)] = c[Len(c)]
           /\ Len(q) > 1 => Len(c) > 1
           /\ Len(c) > 1 => /\ Len(q) > 1 /\ Parent(q) \in DOMAIN t
                            /\ t[Parent(q)] = base[Parent(c)]
           /\ Len(c) = 1 => q = c
  <1>1. DOMAIN fin = DOMAIN base /\ DOMAIN fin \subseteq Paths /\ q \in Paths
    BY CarriesFacts DEF Settled, IsTree
  <1>2. CASE ~(Len(c) > 1)
  <2>1. \A m \in Moved(fin) : ~StrictlyUnder(m, c)
      <3> SUFFICES ASSUME NEW m \in Moved(fin), StrictlyUnder(m, c) PROVE FALSE
        OBVIOUS
      <3>1. m \in Paths
        BY <1>1 DEF Moved
      <3>2. Len(m) \in Nat \ {0} /\ Len(c) \in Nat \ {0} /\ Len(m) < Len(c)
        BY <3>1, PathFacts, AboveFacts
      <3> QED BY <1>2, <3>2
  <2>2. q = c
    BY <2>1 DEF Carries, Nearest
  <2> QED BY <1>1, <1>2, <2>2
  <1>3. CASE Len(c) > 1
  <2> DEFINE y == Parent(c)
             h == Home(t, base[y])
  <2>1. y \in DOMAIN base /\ y \in Paths /\ StrictlyUnder(y, c) /\ Len(c) # 1
        /\ \A x \in Paths : AtOrUnder(x, y) <=> StrictlyUnder(x, c)
      <3>1. Len(c) # 1
        <4>1. Len(c) \in Nat
          BY PathFacts
        <4> QED BY <1>3, <4>1, MoreThanOne, Zenon
      <3>2. y \in DOMAIN base /\ y \in Paths
        BY <1>3, ParentFacts
      <3>3. StrictlyUnder(y, c)
        BY <1>3, ParentFacts
      <3>4. \A x \in Paths : AtOrUnder(x, y) <=> StrictlyUnder(x, c)
        BY <1>3, ParentFacts
      <3> QED BY <3>1, <3>2, <3>3, <3>4
  <2>2. h \in DOMAIN t /\ h \in Paths /\ t[h] = base[y]
    BY <2>1, PlaceFacts
  <2> HIDE DEF h
  <2>3. \A j \in Moved(fin) : StrictlyUnder(j, c) =>
            LET r == Rebase(c, j, Home(t, base[j])) IN
            /\ r[Len(r)] = c[Len(c)] /\ Len(r) > 1
            /\ Parent(r) = Rebase(y, j, Home(t, base[j]))
      <3> TAKE j \in Moved(fin)
      <3>1. j \in DOMAIN base /\ j \in Paths
        BY <1>1 DEF Moved
      <3>2. Home(t, base[j]) \in Paths
        BY <3>1, PlaceFacts
      <3> QED BY <3>1, <3>2, CarriedFacts
  <2>4. CASE y \in Moved(fin)
      <3>1. Nearest(fin, c, y)
        <4>1. ASSUME NEW m \in Moved(fin), StrictlyUnder(m, c) PROVE Len(m) <= Len(y)
          <5>1. m \in Paths
            BY <1>1 DEF Moved
          <5> QED BY <2>1, <4>1, <5>1, AboveFacts
        <4> QED BY <2>1, <2>4, <4>1 DEF Nearest
      <3>2. q = Rebase(c, y, h)
        <4>1. Carries(base, fin, t, c, Rebase(c, y, h))
          BY <2>4, <3>1 DEF Carries, h
        <4> QED BY <4>1, CarriesFacts
      <3>3. q[Len(q)] = c[Len(c)] /\ Len(q) > 1 /\ Parent(q) = Rebase(y, y, h)
        BY <2>1, <2>3, <2>4, <3>2 DEF h
      <3>4. Rebase(y, y, h) = h
        BY <2>1, <2>2, UnderReflexive, CarriedTwice
      <3> QED BY <1>1, <1>3, <2>1, <2>2, <3>3, <3>4
  <2>5. CASE y \notin Moved(fin)
      <3>1. fin[y] = y
        BY <1>1, <2>1, <2>5 DEF Moved
      <3>2. Carries(base, fin, t, y, h)
        BY <1>3, <3>1 DEF h
      <3>3. \A m \in Moved(fin) : StrictlyUnder(m, c) <=> StrictlyUnder(m, y)
        <4> TAKE m \in Moved(fin)
        <4>1. m \in Paths /\ m # y
          BY <1>1, <2>5 DEF Moved
        <4> QED BY <2>1, <4>1 DEF StrictlyUnder
      <3>4. CASE \A m \in Moved(fin) : ~StrictlyUnder(m, c)
        <4>1. q = c
          BY <3>4 DEF Carries, Nearest
        <4>2. h = y
          BY <3>2, <3>3, <3>4 DEF Carries, Nearest
        <4> QED BY <1>1, <1>3, <2>1, <2>2, <4>1, <4>2
      <3>5. CASE \E m \in Moved(fin) : StrictlyUnder(m, c)
        <4>1. PICK j \in Moved(fin) : Nearest(fin, c, j) /\ q = Rebase(c, j, Home(t, base[j]))
          BY <3>5 DEF Carries
        <4>2. Nearest(fin, y, j)
          BY <3>3, <4>1 DEF Nearest
        <4>3. Carries(base, fin, t, y, Rebase(y, j, Home(t, base[j])))
          BY <4>2 DEF Carries
        <4>4. h = Rebase(y, j, Home(t, base[j]))
          BY <2>1, <3>2, <4>3, CarriesFacts
        <4>5. q[Len(q)] = c[Len(c)] /\ Len(q) > 1 /\ Parent(q) = h
          BY <2>3, <4>1, <4>4 DEF Nearest
        <4> QED BY <1>1, <1>3, <2>1, <2>2, <4>5
      <3> QED BY <3>4, <3>5
  <2> QED BY <2>4, <2>5
  <1> QED BY <1>2, <1>3

\* In the end every file is where its name is carried.
LEMMA Rests ==
    ASSUME NEW base, NEW fin, NEW t, Settled(base, fin, t), NEW p \in DOMAIN base
    PROVE  Carries(base, fin, t, fin[p], Home(t, base[p]))
  <1> DEFINE Odd(o) == ~Carries(base, fin, t, fin[o], Home(t, base[o]))
             T == {n \in Nat : \E o \in DOMAIN base : Odd(o) /\ Len(fin[o]) = n}
  <1>1. IsTree(base) /\ IsTree(t) /\ \A o \in DOMAIN base : fin[o] \in Paths /\ Len(fin[o]) \in Nat \ {0}
    BY PathFacts DEF Settled
  <1>2. SUFFICES ASSUME Odd(p) PROVE FALSE
    OBVIOUS
  <1>3. Len(fin[p]) \in T
    BY <1>1, <1>2
  <1>4. PICK n \in T : \A x \in T : n <= x
  <2>1. T \in SUBSET Nat /\ T # {}
    BY <1>3
  <2> HIDE DEF T
  <2>2. \E m \in T : \A k \in T : m <= k
    BY <2>1, Least
  <2> QED BY <2>2
  <1>5. PICK o \in DOMAIN base : Odd(o) /\ Len(fin[o]) = n
    BY <1>4
  <1> DEFINE c == fin[o]
             r == Home(t, base[o])
  <1>6. /\ r \in DOMAIN t /\ r \in Paths /\ c \in Paths
        /\ r[Len(r)] = c[Len(c)]
        /\ Len(r) > 1 => Len(c) > 1
        /\ Len(c) > 1 => /\ Len(r) > 1
                         /\ Parent(c) \in DOMAIN base
                         /\ t[Parent(r)] = base[Parent(c)]
    BY PlaceFacts
  <1>7. ASSUME Len(c) > 1, fin[Parent(c)] = Parent(c)
        PROVE  Carries(base, fin, t, Parent(c), Home(t, base[Parent(c)]))
  <2> SUFFICES ASSUME Odd(Parent(c)) PROVE FALSE
    BY <1>7
  <2>1. Parent(c) \in DOMAIN base /\ Len(Parent(c)) = Len(c) - 1
    BY <1>6, <1>7, ParentFacts
  <2>2. Len(Parent(c)) \in T
    BY <1>1, <1>7, <2>1
  <2>3. n <= Len(Parent(c)) /\ Len(c) = n /\ n \in Nat
    BY <1>4, <1>5, <2>2
  <2> QED BY <2>1, <2>3
  <1> HIDE DEF T
  <1>8. PICK q \in Paths : Carries(base, fin, t, c, q)
    BY <1>6, CarriesFacts
  <1> HIDE DEF r, c
  <1>9. /\ q[Len(q)] = c[Len(c)]
        /\ Len(q) > 1 => Len(c) > 1
        /\ Len(c) > 1 => /\ Len(q) > 1 /\ Parent(q) \in DOMAIN t
                         /\ t[Parent(q)] = base[Parent(c)]
    BY <1>6, <1>7, <1>8, CarriedFolder
  <1>10. q = r
  <2>1. CASE Len(c) > 1
      <3>1. Parent(r) \in DOMAIN t
        BY <1>1, <1>6, <2>1, TreeFacts
      <3>2. Parent(q) = Parent(r)
        BY <1>1, <1>6, <1>9, <2>1, <3>1, TreeFacts
      <3> QED BY <1>6, <1>9, <2>1, <3>2, SameParent
  <2>2. CASE ~(Len(c) > 1)
      <3>1. q[Len(q)] = r[Len(r)] /\ (Len(q) > 1 => Len(r) > 1) /\ ~(Len(r) > 1)
        BY <1>6, <1>9, <2>2
      <3> QED BY <1>6, <3>1, OneName
  <2> QED BY <2>1, <2>2
  <1> QED BY <1>5, <1>8, <1>10 DEF c, r

\* No name leads through a folder that is renamed, but for those above the
\* file already; and nothing is renamed into itself, nor up.
Shaped(fin) ==
    /\ \A p \in DOMAIN fin, m \in Moved(fin) : StrictlyUnder(m, fin[p]) <=> StrictlyUnder(m, p)
    /\ \A p \in Moved(fin) : ~AtOrUnder(p, fin[p]) /\ Len(p) <= Len(fin[p])

\* What is in an outermost renamed folder is under its new name.
LEMMA UnderMoved ==
    ASSUME NEW base, NEW fin, NEW t, Settled(base, fin, t), Shaped(fin),
           NEW m \in Moved(fin), \A k \in Moved(fin) : ~StrictlyUnder(k, m),
           NEW p \in DOMAIN base, AtOrUnder(m, p)
    PROVE  AtOrUnder(fin[m], Home(t, base[p]))
  <1> DEFINE Odd(o) == AtOrUnder(m, o) /\ ~AtOrUnder(fin[m], Home(t, base[o]))
             T == {n \in Nat : \E o \in DOMAIN base : Odd(o) /\ Len(o) = n}
  <1>1. /\ DOMAIN fin = DOMAIN base /\ DOMAIN fin \subseteq Paths
        /\ \A o \in DOMAIN base : fin[o] \in Paths /\ Len(o) \in Nat \ {0}
    BY PathFacts DEF Settled, IsTree
  <1>2. m \in DOMAIN base /\ m \in Paths /\ fin[m] \in Paths
    BY <1>1 DEF Moved
  <1>3. SUFFICES ASSUME Odd(p) PROVE FALSE
    OBVIOUS
  <1>4. Len(p) \in T
    BY <1>1, <1>3
  <1>5. PICK n \in T : \A x \in T : n <= x
  <2>1. T \in SUBSET Nat /\ T # {}
    BY <1>4
  <2> HIDE DEF T
  <2>2. \E x \in T : \A k \in T : x <= k
    BY <2>1, Least
  <2> QED BY <2>2
  <1>6. PICK o \in DOMAIN base : Odd(o) /\ Len(o) = n
    BY <1>5
  <1>7. Carries(base, fin, t, fin[o], Home(t, base[o]))
    BY Rests
  <1>8. o \in Paths /\ fin[o] \in Paths /\ o \in DOMAIN fin
    BY <1>1
  <1>9. \A k \in Moved(fin) : StrictlyUnder(k, fin[o]) <=> StrictlyUnder(k, o)
    BY <1>8 DEF Shaped
  <1>10. CASE o = m
  <2>1. \A k \in Moved(fin) : ~StrictlyUnder(k, fin[o])
    BY <1>9, <1>10
  <2>2. Home(t, base[o]) = fin[m]
    BY <1>7, <1>10, <2>1 DEF Carries, Nearest
  <2> QED BY <1>2, <1>6, <2>2, UnderReflexive
  <1>11. CASE o # m
  <2>1. StrictlyUnder(m, o) /\ StrictlyUnder(m, fin[o])
    BY <1>6, <1>9, <1>11 DEF StrictlyUnder
  <2>2. PICK j \in Moved(fin) : /\ Nearest(fin, fin[o], j)
                                /\ Home(t, base[o]) = Rebase(fin[o], j, Home(t, base[j]))
    BY <1>7, <2>1 DEF Carries
  <2>3. StrictlyUnder(j, fin[o]) /\ StrictlyUnder(j, o) /\ Len(m) <= Len(j)
    BY <1>9, <2>1, <2>2 DEF Nearest
  <2>4. j \in DOMAIN base /\ j \in Paths
    BY <1>1 DEF Moved
  <2>5. AtOrUnder(m, j)
    BY <1>2, <1>8, <2>1, <2>3, <2>4, AboveFacts DEF StrictlyUnder
  <2>6. Len(j) < Len(o)
    BY <1>8, <2>3, <2>4, AboveFacts
  <2>7. AtOrUnder(fin[m], Home(t, base[j]))
      <3> SUFFICES ASSUME Odd(j) PROVE FALSE
        BY <2>5
      <3>1. Len(j) \in T
        BY <1>1, <2>4
      <3>2. n <= Len(j) /\ n = Len(o)
        BY <1>5, <1>6, <3>1
      <3> HIDE DEF T
      <3>3. Len(j) \in Nat /\ Len(o) \in Nat
        BY <1>1, <2>4
      <3> QED BY <2>6, <3>2, <3>3
  <2>8. Home(t, base[j]) \in Paths
    BY <2>4, PlaceFacts
  <2>9. /\ StrictlyUnder(Home(t, base[j]), Home(t, base[o]))
        /\ Home(t, base[o]) \in Paths
    BY <1>8, <2>2, <2>3, <2>4, <2>8, CarriedFacts
  <2>10. AtOrUnder(fin[m], Home(t, base[o]))
    BY <1>2, <2>7, <2>8, <2>9, UnderTransitive DEF StrictlyUnder
  <2> QED BY <1>6, <2>10
  <1> QED BY <1>10, <1>11

\* What is renamed, or in a renamed folder, is not where it was.
LEMMA MovedAway ==
    ASSUME NEW base, NEW fin, NEW t, Settled(base, fin, t), Shaped(fin),
           NEW p \in DOMAIN base, NEW j \in Moved(fin), AtOrUnder(j, p)
    PROVE  Home(t, base[p]) # p
  <1> DEFINE T == {n \in Nat : \E o \in Moved(fin) : AtOrUnder(o, p) /\ Len(o) = n}
  <1>1. /\ DOMAIN fin = DOMAIN base /\ DOMAIN fin \subseteq Paths
        /\ \A o \in DOMAIN base : fin[o] \in Paths /\ Len(o) \in Nat \ {0}
    BY PathFacts DEF Settled, IsTree
  <1>2. \A o \in Moved(fin) : o \in DOMAIN base /\ o \in Paths
    BY <1>1 DEF Moved
  <1>3. PICK n \in T : \A x \in T : n <= x
  <2>1. Len(j) \in T
    BY <1>1, <1>2
  <2>2. T \in SUBSET Nat /\ T # {}
    BY <2>1
  <2> HIDE DEF T
  <2>3. \E x \in T : \A k \in T : x <= k
    BY <2>2, Least
  <2> QED BY <2>3
  <1>4. PICK m \in Moved(fin) : AtOrUnder(m, p) /\ Len(m) = n
    BY <1>3
  <1>5. m \in Paths /\ p \in Paths /\ fin[m] \in Paths /\ m \in DOMAIN base
    BY <1>1, <1>2
  <1>6. \A k \in Moved(fin) : ~StrictlyUnder(k, m)
  <2> SUFFICES ASSUME NEW k \in Moved(fin), StrictlyUnder(k, m) PROVE FALSE
    OBVIOUS
  <2>1. k \in Paths /\ Len(k) < Len(m) /\ Len(k) \in Nat /\ Len(m) \in Nat
    BY <1>2, <1>5, PathFacts, AboveFacts
  <2>2. AtOrUnder(k, p)
    BY <1>4, <1>5, <2>1, UnderTransitive DEF StrictlyUnder
  <2>3. n <= Len(k)
    BY <1>3, <2>1, <2>2
  <2> HIDE DEF T
  <2> QED BY <1>4, <2>1, <2>3
  <1>7. AtOrUnder(fin[m], Home(t, base[p]))
    BY <1>4, <1>6, UnderMoved
  <1>8. SUFFICES ASSUME Home(t, base[p]) = p PROVE FALSE
    OBVIOUS
  <1>9. AtOrUnder(m, fin[m])
  <2>1. Len(m) <= Len(fin[m])
    BY DEF Shaped
  <2> QED BY <1>4, <1>5, <1>7, <1>8, <2>1, AboveFacts
  <1> QED BY <1>9 DEF Shaped
-----------------------------------------------------------------------------
(* What the plan says of it.                                               *)

\* Every row's target is where its file is, and no others were renamed.
Resolved(base, fin, t) ==
    /\ Standing = Rows
    /\ \A i \in Rows : Source(i) \in DOMAIN base /\ target[i] = Home(t, base[Source(i)])
    /\ \A m \in Moved(fin) : \E i \in Rows : Source(i) = m

\* A script's file goes where its name is carried.
LEMMA LandingIsCarried ==
    ASSUME NEW base, NEW fin, NEW t, Settled(base, fin, t), Shaped(fin), Resolved(base, fin, t),
           NEW p \in Paths, p \notin Moved(fin)
    PROVE  Carries(base, fin, t, p, Landing(p))
  <1> DEFINE moved == {i \in Standing : target[i] # Source(i) /\ AtOrUnder(Source(i), p)}
             deepest == CHOOSE i \in moved : \A j \in moved : Len(Source(j)) <= Len(Source(i))
  <1>1. /\ DOMAIN fin = DOMAIN base /\ DOMAIN fin \subseteq Paths
        /\ \A i \in Rows : Source(i) \in DOMAIN base /\ Source(i) \in Paths
        /\ \A m \in Moved(fin) : m \in Paths /\ m \in DOMAIN base /\ m # p
    BY DEF Settled, IsTree, Resolved, Moved
  <1>2. ASSUME NEW m \in Moved(fin), AtOrUnder(m, p)
        PROVE  \E i \in moved : Source(i) = m
  <2>1. PICK i \in Rows : Source(i) = m
    BY DEF Resolved
  <2>2. Home(t, base[m]) # m
    BY <1>1, UnderReflexive, MovedAway
  <2> QED BY <1>2, <2>1, <2>2 DEF Resolved
  <1>3. CASE moved = {}
  <2>1. Landing(p) = p
    BY <1>3 DEF Landing
  <2>2. \A m \in Moved(fin) : ~StrictlyUnder(m, p)
    BY <1>2, <1>3 DEF StrictlyUnder
  <2> QED BY <2>1, <2>2 DEF Carries
  <1>4. CASE moved # {}
  <2>1. deepest \in moved /\ \A j \in moved : Len(Source(j)) <= Len(Source(deepest))
      <3> DEFINE T == {n \in Nat : \E i \in moved : Len(Source(i)) = n}
      <3>1. \A i \in moved : Len(Source(i)) \in Nat /\ Len(Source(i)) <= Len(p)
        BY <1>1, PathFacts, AboveFacts DEF Resolved
      <3>2. T \in SUBSET Nat /\ T # {} /\ Len(p) \in Nat /\ \A n \in T : n <= Len(p)
        BY <1>4, <3>1, PathFacts
      <3>3. PICK n \in T : \A k \in T : k <= n
        <4> HIDE DEF T
        <4> QED BY <3>2, Greatest
      <3>4. \E i \in moved : \A j \in moved : Len(Source(j)) <= Len(Source(i))
        BY <3>1, <3>3
      <3> HIDE DEF moved
      <3> QED BY <3>4
  <2>2. Landing(p) = Rebase(p, Source(deepest), target[deepest])
    BY <1>4 DEF Landing
  <2> DEFINE i == deepest
             s == Source(i)
  <2> HIDE DEF i
  <2>3. /\ i \in Rows /\ s \in DOMAIN base /\ s \in Paths /\ AtOrUnder(s, p)
        /\ target[i] = Home(t, base[s]) /\ target[i] # s
    BY <1>1, <2>1 DEF Resolved, i
  <2>4. \A m \in Moved(fin) : AtOrUnder(m, p) => Len(m) <= Len(s)
    BY <1>2, <2>1 DEF i
  <2> HIDE DEF s, moved, deepest
  <2>5. Landing(p) = Rebase(p, s, Home(t, base[s]))
    BY <2>2, <2>3 DEF s, i
  <2>6. CASE s \in Moved(fin)
      <3>1. Nearest(fin, p, s)
        BY <1>1, <2>3, <2>4, <2>6 DEF Nearest, StrictlyUnder
      <3> QED BY <2>5, <2>6, <3>1 DEF Carries
  <2>7. CASE s \notin Moved(fin)
      <3>1. fin[s] = s
        BY <1>1, <2>3, <2>7 DEF Moved
      <3>2. Carries(base, fin, t, s, Home(t, base[s]))
        BY <2>3, <3>1, Rests
      <3>3. PICK j \in Moved(fin) : /\ Nearest(fin, s, j)
                                    /\ Home(t, base[s]) = Rebase(s, j, Home(t, base[j]))
        BY <2>3, <3>2 DEF Carries
      <3>4. j \in Paths /\ AtOrUnder(j, s) /\ j # s /\ Home(t, base[j]) \in Paths
        BY <1>1, <3>3, PlaceFacts DEF Nearest, StrictlyUnder
      <3>5. AtOrUnder(j, p)
        BY <2>3, <3>4, UnderTransitive
      <3>6. Landing(p) = Rebase(p, j, Home(t, base[j]))
        BY <2>3, <2>5, <3>3, <3>4, <3>5, CarriedTwice
      <3>7. Nearest(fin, p, j)
        <4>1. ASSUME NEW m \in Moved(fin), StrictlyUnder(m, p) PROVE Len(m) <= Len(j)
          <5>1. m \in Paths /\ AtOrUnder(m, p) /\ Len(m) <= Len(s) /\ m # s
            BY <1>1, <2>4, <2>7, <4>1 DEF StrictlyUnder
          <5>2. AtOrUnder(m, s)
            BY <2>3, <5>1, AboveFacts
          <5>3. StrictlyUnder(m, s)
            BY <5>1, <5>2 DEF StrictlyUnder
          <5> QED BY <3>3, <5>3 DEF Nearest
        <4>2. StrictlyUnder(j, p)
          BY <1>1, <3>5 DEF StrictlyUnder
        <4> QED BY <4>1, <4>2 DEF Nearest
      <3> QED BY <3>6, <3>7 DEF Carries
  <2> QED BY <2>6, <2>7
  <1> QED BY <1>3, <1>4

-----------------------------------------------------------------------------
(* The inductive invariant of the planner.                                 *)

To(i) == Aimed(job, i)

\* The rows that go somewhere else.
Mov == {i \in Rows : To(i) # Source(i)}

\* No row is in conflict, so far.
Clean == Standing = Rows /\ stuck = {}

\* The passes up to "edges", "order", and after.
Checking == {"blocked", "duplicates", "existing", "inside", "folders", "edges"}
Planning == {"place", "write", "run"}

\* What holds whatever is in conflict: the types, what a row's state says of
\* it, and what no pass has touched yet.
TypeInv ==
    /\ job \in Jobs
    /\ pc \in Checking \cup {"order", "refused"} \cup Planning
    /\ state = [i \in Rows |-> state[i]] /\ target = [i \in Rows |-> target[i]]
    /\ degree = [i \in Rows |-> degree[i]]
    /\ cursor \in [{Parent(Source(i)) : i \in Rows} -> Nat]
    /\ stuck \subseteq Rows /\ wanted \in Seq(Paths)
    /\ DOMAIN lands \subseteq Rows
StatesInv ==
    /\ \A i \in Rows : state[i] = "changed" => job.names[i] # <<>> /\ To(i) # Source(i)
    /\ \A i \in Rows : state[i] = "unchanged" => job.names[i] # <<>> /\ To(i) = Source(i)
    /\ pc \in Planning => \A i \in stuck : state[i] = "UnresolvedCycle"
PassInv ==
    /\ pc \in Checking => /\ ready = <<>> /\ done = {} /\ renames = <<>> /\ finishes = <<>>
    /\ pc \in {"blocked", "duplicates", "existing", "inside"} => wanted = <<>>
    /\ pc \notin Planning \cup {"refused"} => DOMAIN lands = {}
    /\ pc \notin {"write", "run", "refused"} => landed = <<>> /\ ops = <<>>
    /\ pc # "run" => trees = <<job.tree>> /\ dates = <<[f \in Files |-> 0]>>
StateInv == TypeInv /\ StatesInv /\ PassInv

\* Each row's target, once it is known where its folder comes to rest.
TargetInv == \A i \in Rows : target[i] = IF i \in DOMAIN lands THEN lands[i] ELSE To(i)

WaysClear ==
    \A i \in Mov : /\ \A p \in Way(job, i) : p \in DOMAIN job.tree => job.tree[p] \in Dirs
                   /\ ~AtOrUnder(Source(i), To(i))
OneEach == \A i, j \in Rows : To(i) = To(j) => i = j
NamesLeft == \A i \in Mov : To(i) \in DOMAIN job.tree => \E k \in Mov : Source(k) = To(i)
NoneRenamed == \A i, j \in Mov : Source(j) \notin Way(job, i)
FoldersMade ==
    \A i \in Mov : /\ \A p \in Way(job, i) : p \in DOMAIN job.tree \/ Contains(wanted, p)
                   /\ ~Contains(wanted, To(i))

\* The folders to make: each is on a row's way, after the one it is in.
WantedInv ==
    /\ wanted \in Seq(Paths)
    /\ \A m, n \in DOMAIN wanted : wanted[m] = wanted[n] => m = n
    /\ \A n \in DOMAIN wanted :
          /\ wanted[n] \notin DOMAIN job.tree
          /\ \E i \in Mov : wanted[n] \in Way(job, i)
          /\ Len(wanted[n]) > 1 => \/ Parent(wanted[n]) \in DOMAIN job.tree
                                   \/ \E m \in DOMAIN wanted : m < n /\ wanted[m] = Parent(wanted[n])

\* What the checks passed so far say of the names asked for.
CheckInv ==
    /\ TargetInv
    /\ WantedInv
    /\ pc # "blocked" => WaysClear
    /\ pc \notin {"blocked", "duplicates"} => OneEach
    /\ pc \notin {"blocked", "duplicates", "existing"} => NamesLeft
    /\ pc \notin {"blocked", "duplicates", "existing", "inside"} => NoneRenamed
    /\ pc \notin {"blocked", "duplicates", "existing", "inside", "folders"} => FoldersMade

\* A name beside row i's that nothing has or takes.
Spare(i, p) ==
    /\ p \in Paths /\ Len(p) = Len(Source(i)) /\ Parent(p) = Parent(Source(i))
    /\ p \notin DOMAIN job.tree /\ ~Contains(wanted, p)
    /\ \A k \in Mov : p # To(k)

Direct(e, i) == e.from = Source(i) /\ e.to = To(i)
Staging(e, i) == e.from = Source(i) /\ Spare(i, e.to)
Finishing(e, i) == e.to = To(i) /\ Spare(i, e.from)

\* a may run before b.
Good(a, b) ==
    /\ a.from # b.from /\ a.to # b.to
    /\ ~StrictlyUnder(a.from, b.from)
    /\ a.to = b.from => b.from \notin DOMAIN job.tree
    /\ b.to = a.from => a.from \in DOMAIN job.tree

RenameOps == [kind : {"rename"}, from : Paths, to : Paths]

\* The renames R and the second halves F not yet among them, of the rows D.
SeqInv(R, F, D) ==
    /\ R \in Seq(RenameOps) /\ F \in Seq(RenameOps)
    /\ \A n \in DOMAIN R : \E i \in D : Direct(R[n], i) \/ Staging(R[n], i) \/ Finishing(R[n], i)
    /\ \A n \in DOMAIN F : \E i \in D : /\ Finishing(F[n], i)
                                        /\ \E m \in DOMAIN R : R[m].from = Source(i) /\ R[m].to = F[n].from
    /\ \A m, n \in DOMAIN R : m < n => Good(R[m], R[n])
    /\ \A m, n \in DOMAIN F : m # n => F[m].from # F[n].from /\ F[m].to # F[n].to
    /\ \A m \in DOMAIN F, n \in DOMAIN R : F[m].from # R[n].from /\ F[m].to # R[n].to
    /\ \A i \in D : \E n \in DOMAIN R :
          /\ R[n].from = Source(i)
          /\ \/ R[n].to = To(i)
             \/ \E m \in DOMAIN R : R[m].from = R[n].to /\ R[m].to = To(i)
             \/ \E m \in DOMAIN F : F[m].from = R[n].to /\ F[m].to = To(i)
    /\ \A n \in DOMAIN R, i \in D : Finishing(R[n], i) =>
          \E m \in DOMAIN R : R[m].from = Source(i) /\ R[m].to = R[n].from

\* order_renames: who still waits for whom, and what is planned.
DegreeInv ==
    /\ done \subseteq Mov
    /\ \A x \in Mov \ done : degree[x] = Cardinality({z \in Mov \ done : WaitsFor(x, z)})
ReadyInv ==
    /\ ready \in Seq(SUBSET Rows)
    /\ \A n \in DOMAIN ready : ready[n] \subseteq Mov \ done /\ \A x \in ready[n] : degree[x] = 0
    /\ \A m, n \in DOMAIN ready : m # n => ready[m] \cap ready[n] = {}
DoneInv ==
    /\ \A x \in done, y \in Mov : StrictlyUnder(Source(x), Source(y)) => y \in done
    /\ \A n \in DOMAIN renames : \A y \in Mov : renames[n].to = Source(y) => y \in done
    /\ \A n \in DOMAIN renames : \E i \in done :
          /\ renames[n].from = Source(i)
          /\ \/ renames[n].to = To(i)
             \/ \E k \in 0..(cursor[Parent(Source(i))] - 1) :
                   k < Len(Temps) /\ renames[n].to = Temp(Source(i), k)
OrderInv == DegreeInv /\ ReadyInv /\ DoneInv /\ SeqInv(renames, finishes, done)

\* Where each row comes to rest, from the nearest listed folder above it.
LandsInv ==
    \A i \in DOMAIN lands :
        LET above == {j \in Rows : StrictlyUnder(Source(j), Source(i))} IN
        /\ above \subseteq DOMAIN lands
        /\ above = {} => lands[i] = To(i)
        /\ above # {} => \E j \in above : /\ \A k \in above : Len(Source(k)) <= Len(Source(j))
                                          /\ lands[i] = Rebase(To(i), Source(j), lands[j])

\* A script may write there, whatever else it wrote.
MayAlone(p) ==
    /\ Parent(p) \in {Parent(Source(i)) : i \in Rows}
    /\ \A i \in Mov : p # To(i) /\ p # Source(i)
    /\ ~Contains(wanted, p)
    /\ p \in DOMAIN job.tree => job.tree[p] \notin Dirs

\* What the script's files come to, so far: in their order, apart, while all
\* may be written.
WriteInv ==
    /\ landed \in Seq({Landing(p) : p \in Paths} \cup {<<>>})
    /\ Len(landed) <= Len(job.writes)
    /\ ~Contains(landed, <<>>) =>
          /\ \A n \in 1..Len(landed) : landed[n] = Landing(job.writes[n]) /\ MayAlone(job.writes[n])
          /\ \A m, n \in 1..Len(landed) : landed[m] = landed[n] => m = n

\* The volume once the first m folders are made.
Made(m) == [p \in DOMAIN job.tree \cup {wanted[n] : n \in 1..m} |->
               IF p \in DOMAIN job.tree THEN job.tree[p] ELSE NewDirs[p]]
Base == Made(Len(wanted))
Asks(p, i) == Source(i) = p
FinOf == [p \in DOMAIN Base |->
             IF \E i \in Rows : Asks(p, i) THEN To(CHOOSE i \in Rows : Asks(p, i)) ELSE p]

WOps == [n \in 1..Len(job.writes) |-> Writing(n)]
AllOps == CreateDirs \o renames \o Acts \o WOps

A1 == Len(wanted)
A2 == A1 + Len(renames)
A3 == A2 + Len(Acts)
A4 == A3 + Len(job.writes)

\* u is t, with the first m of the script's files.
Wrote(t, m, u) ==
    /\ IsTree(u) /\ DOMAIN u = DOMAIN t \cup {landed[n] : n \in 1..m}
    /\ \A q \in DOMAIN t : u[q] = t[q]
    /\ \A q \in DOMAIN u : q \in DOMAIN t \/ \E n \in 1..m : u[q] = NewFiles[n]

TreeAt(ts, k) ==
    /\ k <= A1 + 1 => ts[k] = Made(k - 1)
    /\ k >= A1 + 1 /\ k <= A2 + 1 => RenInv(Base, renames, k - (A1 + 1), ts[k])
    /\ k >= A2 + 1 /\ k <= A3 + 1 => ts[k] = ts[A2 + 1]
    /\ k >= A3 + 1 => Wrote(ts[A2 + 1], k - (A3 + 1), ts[k])

RunInv ==
    /\ Executable /\ Len(landed) = Len(job.writes) /\ ops = AllOps
    /\ trees \in Seq(Range(trees)) /\ dates \in Seq([Files -> Dates])
    /\ Len(trees) \in 1..(A4 + 1) /\ Len(dates) = Len(trees)
    /\ \A k \in 1..Len(trees) : TreeAt(trees, k)
    /\ \A k \in 1..(Len(trees) - 1) :
          /\ trees[k + 1] = TreeAfter(ops[k], trees[k])
          /\ dates[k + 1] = DateAfter(ops[k], trees[k], dates[k])

PInv ==
    /\ StateInv
    /\ Clean => /\ pc # "refused" => CheckInv
                /\ pc = "order" => OrderInv
                /\ pc \in Planning => SeqInv(renames, finishes, Mov) /\ LandsInv
                /\ pc \in {"write", "run"} => finishes = <<>> /\ DOMAIN lands = Rows /\ WriteInv
                /\ pc = "write" /\ ~Contains(landed, <<>>) => ops = [n \in 1..Len(landed) |-> Writing(n)]
    /\ pc = "run" => RunInv

-----------------------------------------------------------------------------
(* What is asked.                                                          *)

\* The rows are of the listing, each once.
LEMMA JobFacts ==
    ASSUME job \in Jobs
    PROVE  /\ IsTree(job.tree)
           /\ Len(job.rows) \in Nat /\ Rows = 1..Len(job.rows) /\ IsFiniteSet(Rows)
           /\ \A i \in Rows : /\ Source(i) \in DOMAIN job.tree /\ Source(i) \in Paths
                              /\ job.names[i] \in Seq(Names)
                              /\ Way(job, i) \subseteq DOMAIN NewDirs
           /\ \A i, j \in Rows : Source(i) = Source(j) => i = j
           /\ job.writes \in Seq(Paths) /\ Len(job.writes) <= Len(NewFiles)
           /\ FilesIn(job.tree) \cap (Range(NewDirs) \cup Range(NewFiles)) = {}
           /\ job.dated \in BOOLEAN
  <1>1. Asked(job)
    BY JobsAssumption
  <1>2. /\ IsTree(job.tree)
        /\ job.rows \in Seq(DOMAIN job.tree) /\ IsInjective(job.rows)
        /\ job.names \in [DOMAIN job.rows -> Seq(Names)]
        /\ \A i \in DOMAIN job.rows : Way(job, i) \subseteq DOMAIN NewDirs
        /\ job.writes \in Seq(Paths) /\ Len(job.writes) <= Len(NewFiles)
        /\ FilesIn(job.tree) \cap (Range(NewDirs) \cup Range(NewFiles)) = {}
        /\ job.dated \in BOOLEAN
    BY <1>1 DEF Asked
  <1>3. Len(job.rows) \in Nat /\ Rows = 1..Len(job.rows)
    BY <1>2, LenProperties DEF Rows
  <1>4. IsFiniteSet(Rows)
    BY <1>3, FS_Interval
  <1>5. \A i \in Rows : Source(i) \in DOMAIN job.tree
    BY <1>2, <1>3, ElementOfSeq DEF Source
  <1>6. DOMAIN job.tree \subseteq Paths
    BY <1>2 DEF IsTree
  <1>7. \A i, j \in Rows : Source(i) = Source(j) => i = j
    BY <1>2 DEF IsInjective, Source, Rows
  <1>8. \A i \in Rows : job.names[i] \in Seq(Names) /\ Way(job, i) \subseteq DOMAIN NewDirs
    BY <1>2 DEF Rows
  <1> QED BY <1>2, <1>3, <1>4, <1>5, <1>6, <1>7, <1>8

\* The length of all but the last.
LEMMA AllButOne ==
    ASSUME NEW n \in Nat \ {0}, NEW k, k = IF 1 <= n - 1 THEN n - 1 - 1 + 1 ELSE 0
    PROVE  k = n - 1
  OBVIOUS

\* The folder above a path, as a sequence of names.
LEMMA ParentIsSeq ==
    ASSUME NEW p \in Paths
    PROVE  /\ Parent(p) \in Seq(Names) /\ Len(Parent(p)) = Len(p) - 1
           /\ \A n \in 1..(Len(p) - 1) : Parent(p)[n] = p[n]
  <1>1. Len(p) \in Nat \ {0} /\ \A n \in 1..(Len(p) - 1) : p[n] \in Names
    BY PathFacts
  <1>2. /\ SubSeq(p, 1, Len(p) - 1) \in Seq(Names)
        /\ Len(SubSeq(p, 1, Len(p) - 1)) = IF 1 <= Len(p) - 1 THEN Len(p) - 1 - 1 + 1 ELSE 0
        /\ \A n \in 1..(Len(p) - 1 - 1 + 1) : SubSeq(p, 1, Len(p) - 1)[n] = p[1 + n - 1]
    BY <1>1, SubSeqProperties
  <1>3. \A n \in 1..(Len(p) - 1) : n \in 1..(Len(p) - 1 - 1 + 1) /\ 1 + n - 1 = n
    BY <1>1
  <1>4. Len(SubSeq(p, 1, Len(p) - 1)) = Len(p) - 1
    BY <1>1, <1>2, AllButOne, Zenon
  <1> QED BY <1>2, <1>3, <1>4 DEF Parent

\* The path a row asks for: its folder's, and then the names.
LEMMA ToFacts ==
    ASSUME job \in Jobs, NEW i \in Rows, job.names[i] # <<>>
    PROVE  /\ To(i) \in Paths
           /\ Len(To(i)) = Len(Source(i)) - 1 + Len(job.names[i])
           /\ Len(job.names[i]) \in Nat \ {0}
           /\ Len(Source(i)) <= Len(To(i))
           /\ \A n \in 1..(Len(Source(i)) - 1) : To(i)[n] = Source(i)[n]
           /\ \A n \in 1..Len(job.names[i]) : To(i)[Len(Source(i)) - 1 + n] = job.names[i][n]
  <1> DEFINE s == Source(i)
             m == job.names[i]
  <1>1. s \in Paths /\ m \in Seq(Names) /\ Len(s) \in Nat \ {0}
    BY JobFacts, PathFacts
  <1>2. Len(m) \in Nat \ {0}
    BY <1>1, EmptySeq
  <1>3. /\ Parent(s) \in Seq(Names) /\ Len(Parent(s)) = Len(s) - 1
        /\ \A n \in 1..(Len(s) - 1) : Parent(s)[n] = s[n]
    BY <1>1, ParentIsSeq
  <1>4. To(i) = Parent(s) \o m
    BY DEF To, Aimed, Source
  <1> HIDE DEF s, m
  <1>5. /\ To(i) \in Seq(Names) /\ Len(To(i)) = Len(s) - 1 + Len(m)
        /\ \A n \in 1..(Len(s) - 1 + Len(m)) :
              To(i)[n] = IF n <= Len(s) - 1 THEN Parent(s)[n] ELSE m[n - (Len(s) - 1)]
    BY <1>1, <1>3, <1>4, ConcatProperties
  <1>6. To(i) # <<>>
    BY <1>1, <1>2, <1>5, EmptySeq
  <1>7. \A n \in 1..(Len(s) - 1) : To(i)[n] = s[n]
    BY <1>1, <1>2, <1>3, <1>5
  <1>8. \A n \in 1..Len(m) : To(i)[Len(s) - 1 + n] = m[n]
  <2> TAKE n \in 1..Len(m)
  <2>1. /\ Len(s) - 1 + n \in 1..(Len(s) - 1 + Len(m)) /\ ~(Len(s) - 1 + n <= Len(s) - 1)
        /\ Len(s) - 1 + n - (Len(s) - 1) = n
    BY <1>1, <1>2
  <2> QED BY <1>5, <2>1
  <1>9. To(i) \in Paths
    BY <1>5, <1>6 DEF Paths
  <1>10. Len(s) <= Len(To(i))
    BY <1>1, <1>2, <1>5
  <1> QED BY <1>2, <1>5, <1>7, <1>8, <1>9, <1>10 DEF s, m

\* A row's way: the folders above where it goes, but for those it is in.
LEMMA WayFacts ==
    ASSUME job \in Jobs, NEW i \in Rows, job.names[i] # <<>>
    PROVE  /\ \A p \in Way(job, i) : p \in Paths /\ StrictlyUnder(p, To(i)) /\ Len(Source(i)) <= Len(p)
           /\ \A p \in Paths : StrictlyUnder(p, To(i)) /\ Len(Source(i)) <= Len(p) => p \in Way(job, i)
           /\ \A p \in Paths : StrictlyUnder(p, To(i)) => StrictlyUnder(p, Source(i)) \/ p \in Way(job, i)
           /\ \A p \in Paths : StrictlyUnder(p, Source(i)) => StrictlyUnder(p, To(i))
  <1> DEFINE s == Source(i)
             g == To(i)
  <1>1. s \in Paths /\ Len(s) \in Nat \ {0}
    BY JobFacts, PathFacts
  <1>2. /\ g \in Paths /\ Len(g) \in Nat \ {0} /\ Len(s) <= Len(g)
        /\ \A n \in 1..(Len(s) - 1) : g[n] = s[n]
    BY ToFacts, PathFacts
  <1>3. Way(job, i) = {SubSeq(g, 1, n) : n \in Len(s)..(Len(g) - 1)}
    BY DEF Way, To, Source
  <1> HIDE DEF s, g
  <1>4. ASSUME NEW p \in Way(job, i)
        PROVE  p \in Paths /\ StrictlyUnder(p, g) /\ Len(s) <= Len(p)
  <2>1. PICK n \in Len(s)..(Len(g) - 1) : p = SubSeq(g, 1, n)
    BY <1>3, <1>4
  <2>2. n \in 1..Len(g) /\ n < Len(g) /\ Len(s) <= n
    BY <1>1, <1>2
  <2>3. p \in Paths /\ Len(p) = n /\ AtOrUnder(p, g)
    BY <1>2, <2>1, <2>2, PrefixFacts, PrefixUnder
  <2> QED BY <1>2, <2>2, <2>3, AboveFacts
  <1>5. ASSUME NEW p \in Paths, StrictlyUnder(p, g), Len(s) <= Len(p)
        PROVE  p \in Way(job, i)
  <2>1. Len(p) < Len(g) /\ SubSeq(g, 1, Len(p)) = p /\ Len(p) \in Nat \ {0}
    BY <1>2, <1>5, AboveFacts, PathFacts DEF AtOrUnder
  <2>2. Len(p) \in Len(s)..(Len(g) - 1)
    BY <1>1, <1>2, <1>5, <2>1
  <2> QED BY <1>3, <2>1, <2>2
  <1>6. ASSUME NEW p \in Paths, Len(p) < Len(s)
        PROVE  /\ StrictlyUnder(p, g) => StrictlyUnder(p, s)
               /\ StrictlyUnder(p, s) => StrictlyUnder(p, g)
  <2>1. Len(p) \in Nat \ {0} /\ Len(p) < Len(g) /\ \A n \in 1..Len(p) : g[n] = s[n]
    BY <1>1, <1>2, <1>6, PathFacts, SMTT(30)
  <2>2. /\ AtOrUnder(p, g) => \A n \in 1..Len(p) : g[n] = p[n]
        /\ (\A n \in 1..Len(p) : g[n] = p[n]) => AtOrUnder(p, g)
        /\ AtOrUnder(p, s) => \A n \in 1..Len(p) : s[n] = p[n]
        /\ (\A n \in 1..Len(p) : s[n] = p[n]) => AtOrUnder(p, s)
      <3>1. Len(p) <= Len(g) /\ Len(p) <= Len(s)
        BY <1>1, <1>2, <1>6, <2>1
      <3> QED BY <1>1, <1>2, <3>1, UnderFacts
  <2>3. /\ AtOrUnder(p, g) => AtOrUnder(p, s)
        /\ AtOrUnder(p, s) => AtOrUnder(p, g)
    BY <2>1, <2>2
  <2> QED BY <1>1, <1>2, <1>6, <2>1, <2>3, AboveFacts
  <1>7. ASSUME NEW p \in Paths, StrictlyUnder(p, g)
        PROVE  StrictlyUnder(p, s) \/ p \in Way(job, i)
  <2>1. Len(p) \in Nat
    BY PathFacts
  <2> QED BY <1>1, <1>5, <1>6, <1>7, <2>1
  <1>8. ASSUME NEW p \in Paths, StrictlyUnder(p, s)
        PROVE  StrictlyUnder(p, g)
  <2>1. Len(p) < Len(s)
    BY <1>1, <1>8, AboveFacts
  <2> QED BY <1>6, <1>8, <2>1
  <1> QED BY <1>4, <1>5, <1>7, <1>8 DEF s, g

\* A row that goes into itself asks for a folder of its own name.
LEMMA IntoItself ==
    ASSUME job \in Jobs, NEW i \in Rows, job.names[i] # <<>>, To(i) # Source(i),
           AtOrUnder(Source(i), To(i))
    PROVE  Len(job.names[i]) > 1 /\ Head(job.names[i]) = Last(Source(i))
  <1> DEFINE s == Source(i)
             g == To(i)
             m == job.names[i]
  <1>1. s \in Paths /\ Len(s) \in Nat \ {0} /\ m \in Seq(Names)
    BY JobFacts, PathFacts
  <1>2. /\ g \in Paths /\ Len(g) = Len(s) - 1 + Len(m) /\ Len(m) \in Nat \ {0}
        /\ \A n \in 1..Len(m) : g[Len(s) - 1 + n] = m[n]
    BY ToFacts
  <1> HIDE DEF s, g, m
  <1>3. AtOrUnder(s, g) /\ s # g
    BY DEF s, g
  <1>4. Len(s) < Len(g)
    BY <1>1, <1>2, <1>3, AboveFacts DEF StrictlyUnder
  <1>5. Len(m) > 1
    BY <1>1, <1>2, <1>4
  <1>6. g[Len(s)] = s[Len(s)]
  <2>1. Len(s) \in 1..Len(s)
    BY <1>1
  <2> QED BY <1>1, <1>2, <1>3, <2>1, UnderFacts
  <1>7. g[Len(s)] = m[1]
  <2>1. 1 \in 1..Len(m) /\ Len(s) - 1 + 1 = Len(s)
    BY <1>1, <1>2
  <2> QED BY <1>2, <2>1
  <1>8. Head(m) = m[1]
  <2>1. m # <<>>
    BY DEF m
  <2> QED BY <1>1, <2>1
  <1> QED BY <1>5, <1>6, <1>7, <1>8 DEF s, g, m, Last

\* All checks have passed.
Checked ==
    /\ \A i \in Rows : job.names[i] # <<>>
    /\ WaysClear /\ OneEach /\ NamesLeft /\ NoneRenamed /\ FoldersMade /\ WantedInv

\* The folders above where a row goes are there or will be, none is renamed
\* but those it is in, and all are folders.
LEMMA GoesThrough ==
    ASSUME job \in Jobs, Checked, NEW i \in Rows
    PROVE  /\ To(i) \in Paths /\ Source(i) \in DOMAIN job.tree /\ Source(i) \in Paths
           /\ \A p \in Paths : StrictlyUnder(p, To(i)) =>
                 \/ p \in DOMAIN job.tree /\ job.tree[p] \in Dirs
                 \/ p \notin DOMAIN job.tree /\ Contains(wanted, p)
           /\ \A j \in Mov : StrictlyUnder(Source(j), To(i)) <=> StrictlyUnder(Source(j), Source(i))
           /\ \A p \in Paths : StrictlyUnder(p, Source(i)) => p \in DOMAIN job.tree /\ job.tree[p] \in Dirs
  <1>1. /\ job.names[i] # <<>> /\ Source(i) \in DOMAIN job.tree /\ Source(i) \in Paths /\ IsTree(job.tree)
        /\ \A j \in Rows : Source(j) \in Paths
    BY JobFacts DEF Checked
  <1>2. To(i) \in Paths
    BY <1>1, ToFacts
  <1>3. \A p \in Paths : StrictlyUnder(p, Source(i)) => p \in DOMAIN job.tree /\ job.tree[p] \in Dirs
    BY <1>1, TreeFacts
  <1>4. /\ \A p \in Paths : StrictlyUnder(p, To(i)) => StrictlyUnder(p, Source(i)) \/ p \in Way(job, i)
        /\ \A p \in Paths : StrictlyUnder(p, Source(i)) => StrictlyUnder(p, To(i))
    BY <1>1, WayFacts
  <1>5. CASE i \in Mov
  <2>1. \A p \in Way(job, i) : \/ p \in DOMAIN job.tree /\ job.tree[p] \in Dirs
                               \/ p \notin DOMAIN job.tree /\ Contains(wanted, p)
    BY <1>5 DEF Checked, WaysClear, FoldersMade
  <2>2. \A j \in Mov : Source(j) \notin Way(job, i)
    BY <1>5 DEF Checked, NoneRenamed
  <2>3. \A j \in Mov : Source(j) \in Paths
    BY <1>1 DEF Mov
  <2>4. \A p \in Paths : StrictlyUnder(p, To(i)) =>
               \/ p \in DOMAIN job.tree /\ job.tree[p] \in Dirs
               \/ p \notin DOMAIN job.tree /\ Contains(wanted, p)
    BY <1>3, <1>4, <2>1
  <2>5. \A j \in Mov : StrictlyUnder(Source(j), To(i)) <=> StrictlyUnder(Source(j), Source(i))
    BY <1>4, <2>2, <2>3
  <2> QED BY <1>1, <1>2, <1>3, <2>4, <2>5
  <1>6. CASE i \notin Mov
  <2>1. To(i) = Source(i)
    BY <1>6 DEF Mov
  <2> QED BY <1>1, <1>2, <1>3, <2>1
  <1> QED BY <1>5, <1>6

\* A spare name is beside its row, and nothing is below it.
LEMMA SpareFacts ==
    ASSUME job \in Jobs, Checked, NEW i \in Rows, NEW p, Spare(i, p)
    PROVE  /\ p \in Paths /\ p \notin DOMAIN job.tree /\ ~Contains(wanted, p)
           /\ \A k \in Mov : p # To(k) /\ ~StrictlyUnder(p, To(k))
           /\ \A k \in Rows : p # Source(k) /\ ~StrictlyUnder(p, Source(k))
           /\ \A r \in Paths : StrictlyUnder(r, p) <=> StrictlyUnder(r, Source(i))
           /\ Len(p) > 1 => Parent(p) \in DOMAIN job.tree /\ job.tree[Parent(p)] \in Dirs
  <1>1. /\ p \in Paths /\ Len(p) = Len(Source(i)) /\ Parent(p) = Parent(Source(i))
        /\ p \notin DOMAIN job.tree /\ ~Contains(wanted, p)
        /\ \A k \in Mov : p # To(k)
    BY DEF Spare
  <1>2. \A k \in Rows : Source(k) \in DOMAIN job.tree /\ Source(k) \in Paths
    BY JobFacts
  <1>3. \A k \in Rows : p # Source(k) /\ ~StrictlyUnder(p, Source(k))
    BY <1>1, <1>2, GoesThrough
  <1>4. \A k \in Mov : ~StrictlyUnder(p, To(k))
  <2> TAKE k \in Mov
  <2>1. k \in Rows
    BY DEF Mov
  <2> QED BY <1>1, <2>1, GoesThrough
  <1>5. \A r \in Paths : StrictlyUnder(r, p) <=> StrictlyUnder(r, Source(i))
    BY <1>1, <1>2, Siblings
  <1>6. Len(p) > 1 => Parent(p) \in DOMAIN job.tree /\ job.tree[Parent(p)] \in Dirs
    BY <1>1, <1>2, JobFacts, TreeFacts
  <1> QED BY <1>1, <1>3, <1>4, <1>5, <1>6

-----------------------------------------------------------------------------
(* The renames in their order.                                             *)

\* One more at the end.
LEMMA AppendedFacts ==
    ASSUME NEW S, NEW s \in Seq(S), NEW e \in S
    PROVE  /\ Append(s, e) \in Seq(S) /\ Len(s) \in Nat /\ DOMAIN s = 1..Len(s)
           /\ Len(Append(s, e)) = Len(s) + 1
           /\ DOMAIN Append(s, e) = 1..(Len(s) + 1)
           /\ Len(s) + 1 \in DOMAIN Append(s, e) /\ Append(s, e)[Len(s) + 1] = e
           /\ \A n \in DOMAIN s : n \in DOMAIN Append(s, e) /\ Append(s, e)[n] = s[n] /\ n < Len(s) + 1
           /\ \A n \in DOMAIN Append(s, e) : n \in DOMAIN s \/ n = Len(s) + 1
           /\ Append(s, e) # <<>>
  <1>1. Len(s) \in Nat /\ DOMAIN s = 1..Len(s)
    BY LenProperties
  <1>2. /\ Append(s, e) \in Seq(S) /\ Len(Append(s, e)) = Len(s) + 1 /\ Append(s, e) # <<>>
        /\ \A n \in 1..Len(s) : Append(s, e)[n] = s[n]
        /\ Append(s, e)[Len(s) + 1] = e
    BY AppendProperties
  <1>3. DOMAIN Append(s, e) = 1..(Len(s) + 1)
    BY <1>2, LenProperties
  <1> QED BY <1>1, <1>2, <1>3

\* The renames of a list have paths for names.
LEMMA RenameOpsFacts ==
    ASSUME NEW R \in Seq(RenameOps)
    PROVE  /\ Len(R) \in Nat /\ DOMAIN R = 1..Len(R)
           /\ \A n \in DOMAIN R : R[n] \in RenameOps /\ R[n].from \in Paths /\ R[n].to \in Paths
  <1>1. Len(R) \in Nat /\ DOMAIN R = 1..Len(R)
    BY LenProperties
  <1>2. \A n \in DOMAIN R : R[n] \in RenameOps
    BY <1>1, ElementOfSeq
  <1> QED BY <1>1, <1>2 DEF RenameOps

\* A rename of two paths.
LEMMA RenamingFacts ==
    ASSUME NEW f \in Paths, NEW g \in Paths
    PROVE  /\ Renaming(f, g) \in RenameOps
           /\ Renaming(f, g).from = f /\ Renaming(f, g).to = g
  BY DEF Renaming, RenameOps

\* Who leaves its name, to its target or to a spare name, leaves after all
\* that is in it, and after who leaves the name it takes.
LEMMA LeavesLast ==
    ASSUME job \in Jobs, Checked, NEW D \in SUBSET Mov, NEW R \in Seq(RenameOps), NEW y \in Mov \ D,
           \A n \in DOMAIN R : \E i \in D : /\ R[n].from = Source(i)
                                            /\ R[n].to = To(i) \/ Spare(i, R[n].to),
           \A x \in D, z \in Mov : StrictlyUnder(Source(x), Source(z)) => z \in D,
           \A n \in DOMAIN R : \A z \in Mov : R[n].to = Source(z) => z \in D,
           NEW e, e.from = Source(y),
           e.to = To(y) \/ (Spare(y, e.to) /\ \A n \in DOMAIN R : R[n].to # e.to)
    PROVE  \A n \in DOMAIN R : Good(R[n], e)
  <1> TAKE n \in DOMAIN R
  <1>1. PICK i \in D : R[n].from = Source(i) /\ (R[n].to = To(i) \/ Spare(i, R[n].to))
    OBVIOUS
  <1>2. i \in Mov /\ i \in Rows /\ y \in Mov /\ y \in Rows /\ i # y
    BY DEF Mov
  <1>3. /\ Source(i) \in DOMAIN job.tree /\ Source(y) \in DOMAIN job.tree /\ Source(i) # Source(y)
    BY <1>2, JobFacts
  <1>4. To(i) # To(y)
    BY <1>2 DEF Checked, OneEach
  <1>5. R[n].to # e.to
  <2>1. CASE e.to = To(y)
    BY <1>1, <1>2, <1>4, <2>1, SpareFacts
  <2>2. CASE Spare(y, e.to) /\ \A k \in DOMAIN R : R[k].to # e.to
    BY <2>2
  <2> QED BY <2>1, <2>2
  <1>6. ~StrictlyUnder(R[n].from, e.from)
    BY <1>1, <1>2
  <1>7. R[n].to # e.from
    BY <1>2
  <1>8. R[n].from \in DOMAIN job.tree
    BY <1>1, <1>3
  <1> QED BY <1>1, <1>3, <1>5, <1>6, <1>7, <1>8 DEF Good

\* What SeqInv says while no second half is among the renames.
FirstHalves(R, D) ==
    \A n \in DOMAIN R : \E i \in D : R[n].from = Source(i) /\ (R[n].to = To(i) \/ Spare(i, R[n].to))

\* y goes to its target.
LEMMA MoveKeeps ==
    ASSUME job \in Jobs, Checked, NEW D \in SUBSET Mov, NEW R, NEW F, SeqInv(R, F, D), NEW y \in Mov \ D,
           FirstHalves(R, D),
           \A x \in D, z \in Mov : StrictlyUnder(Source(x), Source(z)) => z \in D,
           \A n \in DOMAIN R : \A z \in Mov : R[n].to = Source(z) => z \in D
    PROVE  SeqInv(Append(R, Renaming(Source(y), To(y))), F, D \cup {y})
  <1> DEFINE e == Renaming(Source(y), To(y))
             Q == Append(R, e)
             l == Len(R) + 1
  <1>1. y \in Rows /\ Source(y) \in Paths /\ To(y) \in Paths /\ Source(y) \in DOMAIN job.tree
    BY GoesThrough DEF Mov
  <1>2. e \in RenameOps /\ e.from = Source(y) /\ e.to = To(y)
    BY <1>1, RenamingFacts
  <1>3. R \in Seq(RenameOps) /\ F \in Seq(RenameOps)
    BY DEF SeqInv
  <1> HIDE DEF e
  <1>4. /\ Q \in Seq(RenameOps)
        /\ l \in DOMAIN Q /\ Q[l] = e /\ l \notin DOMAIN R
        /\ \A n \in DOMAIN R : n \in DOMAIN Q /\ Q[n] = R[n] /\ n < l /\ ~(l < n)
        /\ \A n \in DOMAIN Q : n \in DOMAIN R \/ n = l
        /\ ~(l < l)
    BY <1>2, <1>3, AppendedFacts
  <1>5. \A n \in DOMAIN R : Good(R[n], e)
    BY <1>2, <1>3, LeavesLast DEF FirstHalves
  <1> HIDE DEF Q, l
  <1>6. \A m, n \in DOMAIN Q : m < n => Good(Q[m], Q[n])
  <2> TAKE m, n \in DOMAIN Q
  <2> HAVE m < n
  <2>1. CASE m \in DOMAIN R /\ n \in DOMAIN R
    BY <1>4, <2>1 DEF SeqInv
  <2>2. CASE m \in DOMAIN R /\ n = l
    BY <1>4, <1>5, <2>2
  <2>3. CASE m = l
    BY <1>4, <2>3
  <2> QED BY <1>4, <2>1, <2>2, <2>3
  <1>7. \A n \in DOMAIN F : \E i \in D : /\ Finishing(F[n], i) /\ i \in Mov /\ i \in Rows /\ i # y
                                         /\ \E m \in DOMAIN R : R[m].from = Source(i) /\ R[m].to = F[n].from
    BY DEF SeqInv, Mov
  <1>8. \A m \in DOMAIN F : F[m].from # e.from /\ F[m].to # e.to
  <2> TAKE m \in DOMAIN F
  <2>1. PICK i \in D : Finishing(F[m], i) /\ i \in Rows /\ i # y
    BY <1>7
  <2>2. F[m].to = To(i) /\ Spare(i, F[m].from)
    BY <2>1 DEF Finishing
  <2>3. To(i) # To(y)
    BY <1>1, <2>1 DEF Checked, OneEach
  <2> QED BY <1>1, <1>2, <2>1, <2>2, <2>3, SpareFacts
  <1>9. \A m \in DOMAIN F, n \in DOMAIN Q : F[m].from # Q[n].from /\ F[m].to # Q[n].to
  <2> TAKE m \in DOMAIN F, n \in DOMAIN Q
  <2>1. CASE n \in DOMAIN R
      <3>1. F[m].from # R[n].from /\ F[m].to # R[n].to
        BY <2>1 DEF SeqInv
      <3> QED BY <1>4, <2>1, <3>1
  <2>2. CASE n = l
    BY <1>4, <1>8, <2>2
  <2> QED BY <1>4, <2>1, <2>2
  <1>10. \A n \in DOMAIN Q : \E i \in D \cup {y} : Direct(Q[n], i) \/ Staging(Q[n], i) \/ Finishing(Q[n], i)
  <2> TAKE n \in DOMAIN Q
  <2>1. CASE n \in DOMAIN R
    BY <1>4, <2>1 DEF SeqInv
  <2>2. CASE n = l
      <3>1. Direct(Q[n], y)
        BY <1>2, <1>4, <2>2 DEF Direct
      <3> QED BY <3>1
  <2> QED BY <1>4, <2>1, <2>2
  <1>11. \A n \in DOMAIN F : \E i \in D \cup {y} :
              /\ Finishing(F[n], i)
              /\ \E m \in DOMAIN Q : Q[m].from = Source(i) /\ Q[m].to = F[n].from
  <2> TAKE n \in DOMAIN F
  <2>1. PICK i \in D : /\ Finishing(F[n], i)
                       /\ \E m \in DOMAIN R : R[m].from = Source(i) /\ R[m].to = F[n].from
    BY <1>7
  <2>2. \E m \in DOMAIN Q : Q[m].from = Source(i) /\ Q[m].to = F[n].from
    BY <1>4, <2>1
  <2> QED BY <2>1, <2>2
  <1>12. \A i \in D \cup {y} : \E n \in DOMAIN Q :
          /\ Q[n].from = Source(i)
          /\ \/ Q[n].to = To(i)
             \/ \E m \in DOMAIN Q : Q[m].from = Q[n].to /\ Q[m].to = To(i)
             \/ \E m \in DOMAIN F : F[m].from = Q[n].to /\ F[m].to = To(i)
  <2> TAKE i \in D \cup {y}
  <2>1. CASE i \in D
      <3>1. PICK n \in DOMAIN R :
              /\ R[n].from = Source(i)
              /\ \/ R[n].to = To(i)
                 \/ \E m \in DOMAIN R : R[m].from = R[n].to /\ R[m].to = To(i)
                 \/ \E m \in DOMAIN F : F[m].from = R[n].to /\ F[m].to = To(i)
        BY <2>1 DEF SeqInv
      <3>2. n \in DOMAIN Q /\ Q[n] = R[n]
        BY <1>4
      <3>3. (\E m \in DOMAIN R : R[m].from = R[n].to /\ R[m].to = To(i))
              => \E m \in DOMAIN Q : Q[m].from = R[n].to /\ Q[m].to = To(i)
        BY <1>4
      <3> QED BY <3>1, <3>2, <3>3
  <2>2. CASE i = y
    BY <1>2, <1>4, <2>2
  <2> QED BY <2>1, <2>2
  <1>13. \A n \in DOMAIN Q, i \in D \cup {y} : Finishing(Q[n], i) =>
              \E m \in DOMAIN Q : Q[m].from = Source(i) /\ Q[m].to = Q[n].from
  <2> TAKE n \in DOMAIN Q, i \in D \cup {y}
  <2> HAVE Finishing(Q[n], i)
  <2>1. i \in Rows
    BY DEF Mov
  <2>2. \A k \in Rows : Q[n].from # Source(k)
    BY <2>1, SpareFacts DEF Finishing
  <2>3. \E k \in Rows : Q[n].from = Source(k)
      <3>1. CASE n \in DOMAIN R
        <4>1. PICK k \in D : R[n].from = Source(k)
          BY <3>1 DEF FirstHalves
        <4>2. k \in Rows /\ Q[n] = R[n]
          BY <1>4, <3>1 DEF Mov
        <4> QED BY <4>1, <4>2
      <3>2. CASE n = l
        BY <1>1, <1>2, <1>4, <3>2
      <3> QED BY <1>4, <3>1, <3>2
  <2> QED BY <2>2, <2>3
  <1>14. \A m, n \in DOMAIN F : m # n => F[m].from # F[n].from /\ F[m].to # F[n].to
    BY DEF SeqInv
  <1> QED BY <1>3, <1>4, <1>6, <1>9, <1>10, <1>11, <1>12, <1>13, <1>14, Zenon DEF SeqInv, Q, e

\* y goes to a spare name, and from there to its target later.
LEMMA StageKeeps ==
    ASSUME job \in Jobs, Checked, NEW D \in SUBSET Mov, NEW R, NEW F, SeqInv(R, F, D), NEW y \in Mov \ D,
           FirstHalves(R, D),
           \A x \in D, z \in Mov : StrictlyUnder(Source(x), Source(z)) => z \in D,
           \A n \in DOMAIN R : \A z \in Mov : R[n].to = Source(z) => z \in D,
           NEW s, Spare(y, s), \A n \in DOMAIN R : R[n].to # s
    PROVE  SeqInv(Append(R, Renaming(Source(y), s)), Append(F, Renaming(s, To(y))), D \cup {y})
  <1> DEFINE e == Renaming(Source(y), s)
             f == Renaming(s, To(y))
             Q == Append(R, e)
             G == Append(F, f)
             l == Len(R) + 1
             h == Len(F) + 1
  <1>1. /\ y \in Rows /\ Source(y) \in Paths /\ To(y) \in Paths /\ Source(y) \in DOMAIN job.tree
        /\ s \in Paths /\ s \notin DOMAIN job.tree /\ s # To(y)
    BY GoesThrough, SpareFacts DEF Mov
  <1>2. /\ e \in RenameOps /\ e.from = Source(y) /\ e.to = s
        /\ f \in RenameOps /\ f.from = s /\ f.to = To(y)
    BY <1>1, RenamingFacts
  <1>3. R \in Seq(RenameOps) /\ F \in Seq(RenameOps)
    BY DEF SeqInv
  <1> HIDE DEF e, f
  <1>4. /\ Q \in Seq(RenameOps)
        /\ l \in DOMAIN Q /\ Q[l] = e /\ l \notin DOMAIN R
        /\ \A n \in DOMAIN R : n \in DOMAIN Q /\ Q[n] = R[n] /\ n < l /\ ~(l < n)
        /\ \A n \in DOMAIN Q : n \in DOMAIN R \/ n = l
        /\ ~(l < l)
    BY <1>2, <1>3, AppendedFacts
  <1>5. /\ G \in Seq(RenameOps)
        /\ h \in DOMAIN G /\ G[h] = f /\ h \notin DOMAIN F
        /\ \A n \in DOMAIN F : n \in DOMAIN G /\ G[n] = F[n]
        /\ \A n \in DOMAIN G : n \in DOMAIN F \/ n = h
    BY <1>2, <1>3, AppendedFacts
  <1>6. \A n \in DOMAIN R : Good(R[n], e)
    BY <1>2, <1>3, LeavesLast DEF FirstHalves
  <1> HIDE DEF Q, l, G, h
  <1>7. \A m, n \in DOMAIN Q : m < n => Good(Q[m], Q[n])
  <2> TAKE m, n \in DOMAIN Q
  <2> HAVE m < n
  <2>1. CASE m \in DOMAIN R /\ n \in DOMAIN R
    BY <1>4, <2>1 DEF SeqInv
  <2>2. CASE m \in DOMAIN R /\ n = l
    BY <1>4, <1>6, <2>2
  <2>3. CASE m = l
    BY <1>4, <2>3
  <2> QED BY <1>4, <2>1, <2>2, <2>3
  <1>8. \A n \in DOMAIN F : \E i \in D : /\ Finishing(F[n], i) /\ i \in Mov /\ i \in Rows /\ i # y
                                         /\ \E m \in DOMAIN R : R[m].from = Source(i) /\ R[m].to = F[n].from
    BY DEF SeqInv, Mov
  <1>9. \A m \in DOMAIN F : /\ F[m].from # e.from /\ F[m].to # e.to
                            /\ F[m].from # f.from /\ F[m].to # f.to
  <2> TAKE m \in DOMAIN F
  <2>1. PICK i \in D : Finishing(F[m], i) /\ i \in Mov /\ i \in Rows /\ i # y
    BY <1>8
  <2>2. F[m].to = To(i) /\ Spare(i, F[m].from)
    BY <2>1 DEF Finishing
  <2>3. To(i) # To(y)
    BY <1>1, <2>1 DEF Checked, OneEach
  <2>4. F[m].from # s
    BY <1>8
  <2>5. To(i) # s
    BY <1>1, <2>1, SpareFacts
  <2>6. F[m].from # Source(y)
    BY <1>1, <2>1, <2>2, SpareFacts
  <2> QED BY <1>2, <2>2, <2>3, <2>4, <2>5, <2>6
  <1>10. \A n \in DOMAIN R : f.from # R[n].from /\ f.to # R[n].to
  <2> TAKE n \in DOMAIN R
  <2>1. PICK i \in D : R[n].from = Source(i) /\ (R[n].to = To(i) \/ Spare(i, R[n].to))
    BY DEF FirstHalves
  <2>2. i \in Rows /\ i \in Mov /\ i # y
    BY DEF Mov
  <2>3. To(i) # To(y)
    BY <1>1, <2>2 DEF Checked, OneEach
  <2>4. R[n].to # To(y)
    BY <2>1, <2>2, <2>3, SpareFacts
  <2>5. R[n].from # s
    BY <1>1, <2>1, <2>2, SpareFacts
  <2> QED BY <1>2, <2>4, <2>5
  <1>11. \A m \in DOMAIN G, n \in DOMAIN Q : G[m].from # Q[n].from /\ G[m].to # Q[n].to
  <2> TAKE m \in DOMAIN G, n \in DOMAIN Q
  <2>1. CASE m \in DOMAIN F /\ n \in DOMAIN R
      <3>1. F[m].from # R[n].from /\ F[m].to # R[n].to
        BY <2>1 DEF SeqInv
      <3> QED BY <1>4, <1>5, <2>1, <3>1
  <2>2. CASE m \in DOMAIN F /\ n = l
    BY <1>4, <1>5, <1>9, <2>2
  <2>3. CASE m = h /\ n \in DOMAIN R
    BY <1>4, <1>5, <1>10, <2>3
  <2>4. CASE m = h /\ n = l
      <3>1. s # Source(y)
        BY <1>1
      <3> QED BY <1>1, <1>2, <1>4, <1>5, <2>4, <3>1
  <2> QED BY <1>4, <1>5, <2>1, <2>2, <2>3, <2>4
  <1>12. \A m, n \in DOMAIN G : m # n => G[m].from # G[n].from /\ G[m].to # G[n].to
  <2> TAKE m, n \in DOMAIN G
  <2> HAVE m # n
  <2>1. CASE m \in DOMAIN F /\ n \in DOMAIN F
      <3>1. F[m].from # F[n].from /\ F[m].to # F[n].to
        BY <2>1 DEF SeqInv
      <3> QED BY <1>5, <2>1, <3>1
  <2>2. CASE m \in DOMAIN F /\ n = h
    BY <1>5, <1>9, <2>2
  <2>3. CASE m = h /\ n \in DOMAIN F
    BY <1>5, <1>9, <2>3
  <2> QED BY <1>5, <2>1, <2>2, <2>3
  <1>13. \A n \in DOMAIN Q : \E i \in D \cup {y} : Direct(Q[n], i) \/ Staging(Q[n], i) \/ Finishing(Q[n], i)
  <2> TAKE n \in DOMAIN Q
  <2>1. CASE n \in DOMAIN R
    BY <1>4, <2>1 DEF SeqInv
  <2>2. CASE n = l
      <3>1. Staging(Q[n], y)
        BY <1>2, <1>4, <2>2 DEF Staging
      <3> QED BY <3>1
  <2> QED BY <1>4, <2>1, <2>2
  <1>14. \A n \in DOMAIN G : \E i \in D \cup {y} :
              /\ Finishing(G[n], i)
              /\ \E m \in DOMAIN Q : Q[m].from = Source(i) /\ Q[m].to = G[n].from
  <2> TAKE n \in DOMAIN G
  <2>1. CASE n \in DOMAIN F
      <3>1. PICK i \in D : /\ Finishing(F[n], i)
                           /\ \E m \in DOMAIN R : R[m].from = Source(i) /\ R[m].to = F[n].from
        BY <1>8, <2>1
      <3>2. \E m \in DOMAIN Q : Q[m].from = Source(i) /\ Q[m].to = F[n].from
        BY <1>4, <3>1
      <3>3. G[n] = F[n]
        BY <1>5, <2>1
      <3> QED BY <3>1, <3>2, <3>3
  <2>2. CASE n = h
      <3>1. Finishing(G[n], y)
        BY <1>2, <1>5, <2>2 DEF Finishing
      <3>2. Q[l].from = Source(y) /\ Q[l].to = G[n].from
        BY <1>2, <1>4, <1>5, <2>2
      <3> QED BY <1>4, <3>1, <3>2
  <2> QED BY <1>5, <2>1, <2>2
  <1>15. \A i \in D \cup {y} : \E n \in DOMAIN Q :
          /\ Q[n].from = Source(i)
          /\ \/ Q[n].to = To(i)
             \/ \E m \in DOMAIN Q : Q[m].from = Q[n].to /\ Q[m].to = To(i)
             \/ \E m \in DOMAIN G : G[m].from = Q[n].to /\ G[m].to = To(i)
  <2> TAKE i \in D \cup {y}
  <2>1. CASE i \in D
      <3>1. PICK n \in DOMAIN R :
              /\ R[n].from = Source(i)
              /\ \/ R[n].to = To(i)
                 \/ \E m \in DOMAIN R : R[m].from = R[n].to /\ R[m].to = To(i)
                 \/ \E m \in DOMAIN F : F[m].from = R[n].to /\ F[m].to = To(i)
        BY <2>1 DEF SeqInv
      <3>2. n \in DOMAIN Q /\ Q[n] = R[n]
        BY <1>4
      <3>3. (\E m \in DOMAIN R : R[m].from = R[n].to /\ R[m].to = To(i))
              => \E m \in DOMAIN Q : Q[m].from = R[n].to /\ Q[m].to = To(i)
        BY <1>4
      <3>4. (\E m \in DOMAIN F : F[m].from = R[n].to /\ F[m].to = To(i))
              => \E m \in DOMAIN G : G[m].from = R[n].to /\ G[m].to = To(i)
        BY <1>5
      <3> QED BY <3>1, <3>2, <3>3, <3>4
  <2>2. CASE i = y
      <3>1. Q[l].from = Source(i) /\ G[h].from = Q[l].to /\ G[h].to = To(i)
        BY <1>2, <1>4, <1>5, <2>2
      <3> QED BY <1>4, <1>5, <3>1
  <2> QED BY <2>1, <2>2
  <1>16. \A n \in DOMAIN Q, i \in D \cup {y} : Finishing(Q[n], i) =>
              \E m \in DOMAIN Q : Q[m].from = Source(i) /\ Q[m].to = Q[n].from
  <2> TAKE n \in DOMAIN Q, i \in D \cup {y}
  <2> HAVE Finishing(Q[n], i)
  <2>1. i \in Rows
    BY DEF Mov
  <2>2. \A k \in Rows : Q[n].from # Source(k)
    BY <2>1, SpareFacts DEF Finishing
  <2>3. \E k \in Rows : Q[n].from = Source(k)
      <3>1. CASE n \in DOMAIN R
        <4>1. PICK k \in D : R[n].from = Source(k)
          BY <3>1 DEF FirstHalves
        <4>2. k \in Rows /\ Q[n] = R[n]
          BY <1>4, <3>1 DEF Mov
        <4> QED BY <4>1, <4>2
      <3>2. CASE n = l
        BY <1>1, <1>2, <1>4, <3>2
      <3> QED BY <1>4, <3>1, <3>2
  <2> QED BY <2>2, <2>3
  <1> QED BY <1>4, <1>5, <1>7, <1>11, <1>12, <1>13, <1>14, <1>15, <1>16, Zenon DEF SeqInv, Q, e, G, f

\* One more before the k-th.
LEMMA InsertedFacts ==
    ASSUME NEW S, NEW s \in Seq(S), NEW e \in S, NEW k \in 1..Len(s)
    PROVE  /\ InsertAt(s, k, e) \in Seq(S)
           /\ Len(InsertAt(s, k, e)) = Len(s) + 1
           /\ \A n \in 1..(k - 1) : InsertAt(s, k, e)[n] = s[n]
           /\ InsertAt(s, k, e)[k] = e
           /\ \A n \in k..Len(s) : InsertAt(s, k, e)[n + 1] = s[n]
  <1> DEFINE u == SubSeq(s, 1, k - 1)
             v == <<e>>
             w == SubSeq(s, k, Len(s))
  <1>1. Len(s) \in Nat /\ \A n \in 1..Len(s) : s[n] \in S
    BY LenProperties, ElementOfSeq
  <1>2. u \in Seq(S) /\ Len(u) = k - 1 /\ \A n \in 1..(k - 1) : u[n] = s[n]
  <2>1. \A n \in 1..(k - 1) : s[n] \in S
    BY <1>1
  <2>2. /\ u \in Seq(S) /\ Len(u) = IF 1 <= k - 1 THEN k - 1 - 1 + 1 ELSE 0
        /\ \A n \in 1..(k - 1 - 1 + 1) : u[n] = s[1 + n - 1]
    BY <1>1, <2>1, SubSeqProperties
  <2>3. k \in Nat \ {0}
    BY <1>1
  <2>4. Len(u) = k - 1
    BY <2>2, <2>3, AllButOne, Zenon
  <2>5. \A n \in 1..(k - 1) : n \in 1..(k - 1 - 1 + 1) /\ 1 + n - 1 = n
    BY <2>3
  <2> QED BY <2>2, <2>4, <2>5
  <1>3. w \in Seq(S) /\ Len(w) = Len(s) - k + 1 /\ \A n \in 1..(Len(s) - k + 1) : w[n] = s[k + n - 1]
  <2>1. \A n \in k..Len(s) : s[n] \in S
    BY <1>1
  <2>2. k <= Len(s) /\ k \in Int
    BY <1>1
  <2>3. /\ w \in Seq(S) /\ Len(w) = IF k <= Len(s) THEN Len(s) - k + 1 ELSE 0
        /\ \A n \in 1..(Len(s) - k + 1) : w[n] = s[k + n - 1]
    BY <1>1, <2>1, <2>2, SubSeqProperties
  <2> QED BY <2>2, <2>3
  <1>4. v \in Seq(S) /\ Len(v) = 1 /\ v[1] = e
    OBVIOUS
  <1> HIDE DEF u, v, w
  <1>5. /\ u \o v \in Seq(S) /\ Len(u \o v) = k
        /\ \A n \in 1..(k - 1) : (u \o v)[n] = s[n]
        /\ (u \o v)[k] = e
  <2>1. /\ u \o v \in Seq(S) /\ Len(u \o v) = Len(u) + Len(v)
        /\ \A n \in 1..(Len(u) + Len(v)) : (u \o v)[n] = IF n <= Len(u) THEN u[n] ELSE v[n - Len(u)]
    BY <1>2, <1>4, ConcatProperties
  <2>2. /\ Len(u) = k - 1 /\ Len(v) = 1 /\ k \in Nat \ {0}
    BY <1>1, <1>2, <1>4
  <2>3. k \in 1..(Len(u) + Len(v)) /\ ~(k <= Len(u)) /\ k - Len(u) = 1
    BY <2>2
  <2>4. \A n \in 1..(k - 1) : n \in 1..(Len(u) + Len(v)) /\ n <= Len(u)
    BY <2>2
  <2>5. Len(u) + Len(v) = k
    BY <2>2
  <2>6. (u \o v)[k] = e
      <3>1. (u \o v)[k] = v[k - Len(u)]
        BY <2>1, <2>3
      <3> QED BY <1>4, <2>3, <3>1
  <2>7. \A n \in 1..(k - 1) : (u \o v)[n] = s[n]
    BY <1>2, <2>1, <2>4
  <2> QED BY <2>1, <2>5, <2>6, <2>7
  <1>6. InsertAt(s, k, e) = (u \o v) \o w
    BY DEF InsertAt, u, v, w
  <1> DEFINE x == u \o v
  <1> HIDE DEF x
  <1>7. /\ x \o w \in Seq(S) /\ Len(x \o w) = Len(x) + Len(w)
        /\ \A n \in 1..(Len(x) + Len(w)) : (x \o w)[n] = IF n <= Len(x) THEN x[n] ELSE w[n - Len(x)]
  <2>1. x \in Seq(S)
    BY <1>5 DEF x
  <2> QED BY <1>3, <2>1, ConcatProperties
  <1>8. Len(x) = k /\ Len(w) = Len(s) - k + 1 /\ k \in Nat \ {0} /\ k <= Len(s)
    BY <1>1, <1>3, <1>5 DEF x
  <1>9. Len(x \o w) = Len(s) + 1
    BY <1>1, <1>7, <1>8
  <1>10. \A n \in 1..k : n \in 1..(Len(x) + Len(w)) /\ n <= Len(x)
    BY <1>1, <1>8
  <1>11. k \in 1..k /\ \A n \in 1..(k - 1) : n \in 1..k
    BY <1>8
  <1>12. \A n \in k..Len(s) : (x \o w)[n + 1] = s[n]
  <2> TAKE n \in k..Len(s)
  <2>1. /\ n + 1 \in 1..(Len(x) + Len(w)) /\ ~(n + 1 <= Len(x)) /\ n + 1 - Len(x) \in 1..(Len(s) - k + 1)
        /\ k + (n + 1 - Len(x)) - 1 = n
    BY <1>1, <1>8
  <2> DEFINE j == n + 1 - Len(x)
             i == n + 1
  <2>2. i \in 1..(Len(x) + Len(w)) /\ ~(i <= Len(x)) /\ j \in 1..(Len(s) - k + 1) /\ k + j - 1 = n /\ j = i - Len(x)
    BY <2>1
  <2> HIDE DEF i, j
  <2>3. (x \o w)[i] = w[j]
    BY <1>7, <2>2
  <2>4. w[j] = s[n]
    BY <1>3, <2>2
  <2> QED BY <2>3, <2>4 DEF i
  <1>13. (x \o w)[k] = e /\ \A n \in 1..(k - 1) : (x \o w)[n] = s[n]
  <2>1. x[k] = e /\ \A n \in 1..(k - 1) : x[n] = s[n]
    BY <1>5 DEF x
  <2> QED BY <1>7, <1>10, <1>11, <2>1
  <1> QED BY <1>6, <1>7, <1>9, <1>12, <1>13 DEF x

\* A rename inserted into a list of them.
LEMMA InsertedRename ==
    ASSUME NEW R \in Seq(RenameOps), NEW k \in 1..Len(R), NEW f \in RenameOps
    PROVE  /\ InsertAt(R, k, f) \in Seq(RenameOps)
           /\ Len(InsertAt(R, k, f)) = Len(R) + 1
           /\ \A n \in 1..(k - 1) : InsertAt(R, k, f)[n] = R[n]
           /\ InsertAt(R, k, f)[k] = f
           /\ \A n \in k..Len(R) : InsertAt(R, k, f)[n + 1] = R[n]
  <1> DEFINE S == RenameOps
  <1>1. R \in Seq(S) /\ f \in S
    OBVIOUS
  <1> HIDE DEF S
  <1>2. /\ InsertAt(R, k, f) \in Seq(S)
        /\ Len(InsertAt(R, k, f)) = Len(R) + 1
        /\ \A n \in 1..(k - 1) : InsertAt(R, k, f)[n] = R[n]
        /\ InsertAt(R, k, f)[k] = f
        /\ \A n \in k..Len(R) : InsertAt(R, k, f)[n + 1] = R[n]
    BY <1>1, InsertedFacts
  <1> QED BY <1>2 DEF S

\* The place a finish is put: what is before it is not above it, what comes
\* next is.
LEMMA PlacedFacts ==
    ASSUME NEW R \in Seq(RenameOps), NEW f \in RenameOps
    PROVE  /\ Placed(R, f) \in Seq(RenameOps)
           /\ Len(Placed(R, f)) = Len(R) + 1
           /\ \E k \in 1..(Len(R) + 1) :
                 /\ Placed(R, f)[k] = f
                 /\ \A n \in 1..Len(R) : n < k => Placed(R, f)[n] = R[n] /\ ~StrictlyUnder(R[n].from, f.from)
                 /\ \A n \in 1..Len(R) : k <= n => Placed(R, f)[n + 1] = R[n]
                 /\ k <= Len(R) => StrictlyUnder(R[k].from, f.from)
  <1> DEFINE above == {n \in DOMAIN R : StrictlyUnder(R[n].from, f.from)}
  <1>1. Len(R) \in Nat /\ DOMAIN R = 1..Len(R)
    BY RenameOpsFacts
  <1>2. CASE above = {}
  <2>1. Placed(R, f) = Append(R, f)
    BY <1>2 DEF Placed
  <2> DEFINE Q == Append(R, f)
             k == Len(R) + 1
  <2>2. Q \in Seq(RenameOps) /\ Len(Q) = Len(R) + 1 /\ Q[k] = f /\ \A n \in 1..Len(R) : Q[n] = R[n]
    BY AppendProperties
  <2>3. \A n \in 1..Len(R) : ~StrictlyUnder(R[n].from, f.from)
    BY <1>1, <1>2
  <2> HIDE DEF Q
  <2>4. k \in 1..(Len(R) + 1) /\ ~(k <= Len(R)) /\ \A n \in 1..Len(R) : ~(k <= n)
    BY <1>1
  <2> HIDE DEF k
  <2> QED BY <2>1, <2>2, <2>3, <2>4 DEF Q
  <1>3. CASE above # {}
  <2>1. Placed(R, f) = InsertAt(R, Min(above), f)
    BY <1>3 DEF Placed
  <2>2. above \in SUBSET Nat
    BY <1>1
  <2>3. \E m \in above : \A n \in above : m <= n
      <3> HIDE DEF above
      <3> QED BY <1>3, <2>2, Least
  <2> DEFINE k == Min(above)
  <2>4. k \in above /\ \A n \in above : k <= n
      <3> HIDE DEF above
      <3> QED BY <2>3 DEF Min
  <2> HIDE DEF k
  <2>5. k \in 1..Len(R) /\ StrictlyUnder(R[k].from, f.from)
    BY <1>1, <2>4
  <2>6. \A n \in 1..Len(R) : n < k => ~StrictlyUnder(R[n].from, f.from)
      <3> TAKE n \in 1..Len(R)
      <3> HAVE n < k
      <3>1. ~(k <= n)
        BY <2>5
      <3> QED BY <1>1, <2>4, <3>1
  <2> DEFINE Q == InsertAt(R, k, f)
  <2>7. /\ Q \in Seq(RenameOps) /\ Len(Q) = Len(R) + 1
        /\ \A n \in 1..(k - 1) : Q[n] = R[n]
        /\ Q[k] = f
        /\ \A n \in k..Len(R) : Q[n + 1] = R[n]
      <3> HIDE DEF above
      <3>1. k \in 1..Len(R)
        BY <2>5
      <3> QED BY <3>1, InsertedRename
  <2> HIDE DEF Q
  <2>8. Placed(R, f) = Q
    BY <2>1 DEF Q, k
  <2>9. \A n \in 1..Len(R) : /\ n < k => n \in 1..(k - 1)
                             /\ k <= n => n \in k..Len(R)
    BY <1>1, <2>5
  <2>10. k \in 1..(Len(R) + 1)
    BY <1>1, <2>5
  <2> HIDE DEF above
  <2> QED BY <2>5, <2>6, <2>7, <2>8, <2>9, <2>10
  <1> QED BY <1>2, <1>3

\* The first of a list, and the rest.
LEMMA RestFacts ==
    ASSUME NEW S, NEW s \in Seq(S), s # <<>>
    PROVE  /\ Head(s) \in S /\ Tail(s) \in Seq(S)
           /\ 1 \in DOMAIN s /\ Head(s) = s[1]
           /\ \A n \in DOMAIN Tail(s) : n + 1 \in DOMAIN s /\ n + 1 # 1 /\ Tail(s)[n] = s[n + 1]
           /\ \A n \in DOMAIN s : n = 1 \/ (n - 1 \in DOMAIN Tail(s) /\ Tail(s)[n - 1] = s[n])
           /\ Len(Tail(s)) = Len(s) - 1
  <1>1. Len(s) \in Nat \ {0} /\ DOMAIN s = 1..Len(s)
    BY EmptySeq, LenProperties
  <1>2. /\ Head(s) \in S /\ Tail(s) \in Seq(S) /\ Len(Tail(s)) = Len(s) - 1
        /\ \A i \in 1..Len(Tail(s)) : Tail(s)[i] = s[i + 1]
    BY HeadTailProperties
  <1>3. DOMAIN Tail(s) = 1..Len(Tail(s))
    BY <1>2, LenProperties
  <1>4. Head(s) = s[1]
    OBVIOUS
  <1> DEFINE t == Tail(s)
  <1> HIDE DEF t
  <1>5. Len(t) = Len(s) - 1 /\ DOMAIN t = 1..Len(t) /\ \A i \in 1..Len(t) : t[i] = s[i + 1]
    BY <1>2, <1>3 DEF t
  <1>6. \A n \in DOMAIN t : n + 1 \in DOMAIN s /\ n + 1 # 1 /\ t[n] = s[n + 1]
    BY <1>1, <1>5
  <1>7. \A n \in DOMAIN s : n = 1 \/ (n - 1 \in DOMAIN t /\ t[n - 1] = s[n])
  <2> TAKE n \in DOMAIN s
  <2>1. CASE n # 1
      <3>1. n - 1 \in 1..Len(t) /\ n - 1 + 1 = n
        BY <1>1, <1>5, <2>1
      <3> QED BY <1>5, <3>1
  <2> QED BY <2>1
  <1>8. 1 \in DOMAIN s
    BY <1>1
  <1> QED BY <1>2, <1>4, <1>6, <1>7, <1>8 DEF t

\* A finish runs before the first folder above it does.
LEMMA FinishInOrder ==
    ASSUME job \in Jobs, Checked, NEW R, NEW F, SeqInv(R, F, Mov), NEW o \in DOMAIN F,
           NEW n \in DOMAIN R
    PROVE  /\ ~StrictlyUnder(R[n].from, F[o].from) => Good(R[n], F[o])
           /\ \A k \in DOMAIN R : k <= n /\ StrictlyUnder(R[k].from, F[o].from) => Good(F[o], R[n])
  <1> DEFINE f == F[o]
  <1>1. R \in Seq(RenameOps) /\ F \in Seq(RenameOps)
    BY DEF SeqInv
  <1>2. /\ Len(R) \in Nat /\ DOMAIN R = 1..Len(R)
        /\ \A m \in DOMAIN R : R[m].from \in Paths /\ R[m].to \in Paths
        /\ f.from \in Paths /\ f.to \in Paths
    BY <1>1, RenameOpsFacts
  <1>3. PICK v \in Mov : /\ Finishing(f, v)
                         /\ \E m \in DOMAIN R : R[m].from = Source(v) /\ R[m].to = f.from
    BY DEF SeqInv
  <1>4. PICK w \in DOMAIN R : R[w].from = Source(v) /\ R[w].to = f.from
    BY <1>3
  <1>5. PICK i \in Mov : Direct(R[n], i) \/ Staging(R[n], i) \/ Finishing(R[n], i)
    BY DEF SeqInv
  <1>6. v \in Rows /\ i \in Rows
    BY DEF Mov
  <1>7. f.to = To(v) /\ Spare(v, f.from)
    BY <1>3 DEF Finishing
  <1>8. /\ f.from \notin DOMAIN job.tree
        /\ \A k \in Rows : f.from # Source(k) /\ ~StrictlyUnder(f.from, Source(k))
        /\ \A r \in Paths : StrictlyUnder(r, f.from) <=> StrictlyUnder(r, Source(v))
    BY <1>6, <1>7, SpareFacts
  <1>9. f.from # R[n].from /\ f.to # R[n].to
    BY DEF SeqInv
  <1>10. Source(i) \in DOMAIN job.tree /\ Source(v) \in DOMAIN job.tree /\ Source(v) \in Paths /\ Source(i) \in Paths
    BY <1>6, JobFacts
  <1>11. R[n].from = Source(i) \/ (Spare(i, R[n].from) /\ R[n].to = To(i))
    BY <1>5 DEF Direct, Staging, Finishing
  <1>12. To(v) \in Paths /\ \A j \in Mov : StrictlyUnder(Source(j), To(v)) <=> StrictlyUnder(Source(j), Source(v))
    BY <1>6, GoesThrough
  <1>13. \A m \in DOMAIN R : m < n => Good(R[m], R[n])
    BY DEF SeqInv
  <1>14. \A m \in DOMAIN R : m # w => R[m].to # f.from
  <2> TAKE m \in DOMAIN R
  <2> HAVE m # w
  <2>1. m < w \/ w < m
    BY <1>2, <1>4
  <2>2. m < w => Good(R[m], R[w])
    BY <1>4 DEF SeqInv
  <2>3. w < m => Good(R[w], R[m])
    BY <1>4 DEF SeqInv
  <2> QED BY <1>4, <2>1, <2>2, <2>3 DEF Good
  <1> HIDE DEF f
  <1>15. ASSUME ~StrictlyUnder(R[n].from, f.from)
         PROVE  Good(R[n], f)
  <2>1. f.to = R[n].from => R[n].from \in DOMAIN job.tree
      <3>1. Spare(i, R[n].from) => R[n].from # To(v)
        BY <1>6, SpareFacts
      <3> QED BY <1>7, <1>10, <1>11, <3>1
  <2> QED BY <1>8, <1>9, <1>15, <2>1 DEF Good
  <1>16. ASSUME NEW k \in DOMAIN R, k <= n, StrictlyUnder(R[k].from, f.from)
         PROVE  Good(f, R[n])
  <2>1. StrictlyUnder(R[k].from, Source(v))
    BY <1>2, <1>8, <1>16
  <2>2. k = n \/ k < n
    BY <1>2, <1>16
  <2>3. ~StrictlyUnder(R[k].from, R[n].from)
      <3>1. CASE k = n
        BY <3>1 DEF StrictlyUnder
      <3>2. CASE k < n
        BY <1>13, <3>2 DEF Good
      <3> QED BY <2>2, <3>1, <3>2
  <2>4. ~StrictlyUnder(f.from, R[n].from)
      <3>1. Spare(i, R[n].from) => ~StrictlyUnder(f.from, R[n].from)
        BY <1>2, <1>6, <1>8, SpareFacts
      <3> QED BY <1>6, <1>8, <1>11, <3>1
  <2>5. f.to = R[n].from => R[n].from \notin DOMAIN job.tree
      <3> SUFFICES ASSUME f.to = R[n].from, R[n].from \in DOMAIN job.tree PROVE FALSE
        OBVIOUS
      <3>1. PICK j \in Mov : Direct(R[k], j) \/ Staging(R[k], j) \/ Finishing(R[k], j)
        BY DEF SeqInv
      <3>2. j \in Rows
        BY DEF Mov
      <3>3. R[k].from = Source(j)
        <4>1. Spare(j, R[k].from) => ~StrictlyUnder(R[k].from, Source(v))
          BY <1>6, <3>2, SpareFacts
        <4> QED BY <2>1, <3>1, <4>1 DEF Direct, Staging, Finishing
      <3>4. StrictlyUnder(R[k].from, To(v))
        BY <1>12, <2>1, <3>3
      <3> QED BY <1>7, <2>3, <3>4
  <2>6. R[n].to = f.from => f.from \in DOMAIN job.tree
      <3> SUFFICES ASSUME R[n].to = f.from PROVE FALSE
        OBVIOUS
      <3>1. n = w
        BY <1>14
      <3> QED BY <1>4, <2>1, <2>3, <3>1
  <2> QED BY <1>9, <2>4, <2>5, <2>6 DEF Good
  <1> QED BY <1>15, <1>16 DEF f

\* The next finish goes to its place.
LEMMA PlaceKeeps ==
    ASSUME job \in Jobs, Checked, NEW R, NEW F, SeqInv(R, F, Mov), F # <<>>
    PROVE  SeqInv(Placed(R, Head(F)), Tail(F), Mov)
  <1> DEFINE f == Head(F)
             G == Tail(F)
             Q == Placed(R, f)
  <1>1. R \in Seq(RenameOps) /\ F \in Seq(RenameOps)
    BY DEF SeqInv
  <1>2. /\ f \in RenameOps /\ G \in Seq(RenameOps)
        /\ 1 \in DOMAIN F /\ f = F[1]
        /\ \A n \in DOMAIN G : n + 1 \in DOMAIN F /\ n + 1 # 1 /\ G[n] = F[n + 1]
        /\ \A n \in DOMAIN F : n = 1 \/ (n - 1 \in DOMAIN G /\ G[n - 1] = F[n])
    BY <1>1, RestFacts
  <1>3. Len(R) \in Nat /\ DOMAIN R = 1..Len(R)
    BY <1>1, RenameOpsFacts
  <1> HIDE DEF f, G
  <1>4. /\ Q \in Seq(RenameOps) /\ Len(Q) = Len(R) + 1
        /\ \E k \in 1..(Len(R) + 1) :
                 /\ Q[k] = f
                 /\ \A n \in 1..Len(R) : n < k => Q[n] = R[n] /\ ~StrictlyUnder(R[n].from, f.from)
                 /\ \A n \in 1..Len(R) : k <= n => Q[n + 1] = R[n]
                 /\ k <= Len(R) => StrictlyUnder(R[k].from, f.from)
  <2>1. R \in Seq(RenameOps) /\ f \in RenameOps
    BY <1>1, <1>2
  <2> QED BY <2>1, PlacedFacts, Zenon
  <1> HIDE DEF Q
  <1>5. DOMAIN Q = 1..(Len(R) + 1)
    BY <1>4, RenameOpsFacts
  <1>6. PICK k \in 1..(Len(R) + 1) :
                 /\ Q[k] = f
                 /\ \A n \in 1..Len(R) : n < k => Q[n] = R[n] /\ ~StrictlyUnder(R[n].from, f.from)
                 /\ \A n \in 1..Len(R) : k <= n => Q[n + 1] = R[n]
                 /\ k <= Len(R) => StrictlyUnder(R[k].from, f.from)
    BY <1>4
  <1>7. /\ \A n \in DOMAIN R : n < k => /\ n \in DOMAIN Q /\ Q[n] = R[n]
                                        /\ ~StrictlyUnder(R[n].from, f.from)
        /\ \A n \in DOMAIN R : k <= n => /\ n + 1 \in DOMAIN Q /\ Q[n + 1] = R[n]
                                         /\ k \in DOMAIN R /\ StrictlyUnder(R[k].from, f.from)
        /\ k \in DOMAIN Q
  <2>1. /\ \A n \in DOMAIN R : n \in 1..Len(R) /\ n \in DOMAIN Q /\ n + 1 \in DOMAIN Q
        /\ k \in DOMAIN Q /\ k \in Nat \ {0}
    BY <1>3, <1>5
  <2>2. \A n \in DOMAIN R : k <= n => k <= Len(R) /\ k \in DOMAIN R
    BY <1>3, <1>6
  <2>3. ASSUME NEW n \in DOMAIN R, n < k
        PROVE  n \in DOMAIN Q /\ Q[n] = R[n] /\ ~StrictlyUnder(R[n].from, f.from)
    BY <1>6, <2>1, <2>3
  <2>4. ASSUME NEW n \in DOMAIN R, k <= n
        PROVE  /\ n + 1 \in DOMAIN Q /\ Q[n + 1] = R[n]
               /\ k \in DOMAIN R /\ StrictlyUnder(R[k].from, f.from)
    BY <1>6, <2>1, <2>2, <2>4
  <2> QED BY <2>1, <2>3, <2>4
  <1>8. \A n \in DOMAIN R : \E m \in DOMAIN Q : Q[m] = R[n]
  <2> TAKE n \in DOMAIN R
  <2>1. n < k \/ k <= n
    BY <1>3, <1>6
  <2> QED BY <1>7, <2>1
  <1>9. \A m \in DOMAIN Q : \/ m = k
                            \/ m < k /\ m \in DOMAIN R /\ Q[m] = R[m]
                            \/ k < m /\ m - 1 \in DOMAIN R /\ k <= m - 1 /\ Q[m] = R[m - 1]
  <2> TAKE m \in DOMAIN Q
  <2>1. m \in 1..(Len(R) + 1)
    BY <1>5
  <2>2. CASE m < k
      <3>1. m \in DOMAIN R
        BY <1>3, <2>1, <2>2
      <3> QED BY <1>7, <2>2, <3>1
  <2>3. CASE k < m
      <3> DEFINE j == m - 1
      <3>1. j \in DOMAIN R /\ k <= j /\ j + 1 = m
        BY <1>3, <2>1, <2>3
      <3> HIDE DEF j
      <3>2. Q[j + 1] = R[j]
        BY <1>7, <3>1
      <3> QED BY <2>3, <3>1, <3>2 DEF j
  <2> QED BY <1>3, <2>1, <2>2, <2>3
  <1>10. \A m \in DOMAIN Q : Q[m] = f \/ \E n \in DOMAIN R : Q[m] = R[n]
    BY <1>6, <1>9
  <1>11. \A n \in DOMAIN R :
            /\ ~StrictlyUnder(R[n].from, f.from) => Good(R[n], f)
            /\ \A j \in DOMAIN R : j <= n /\ StrictlyUnder(R[j].from, f.from) => Good(f, R[n])
    BY <1>2, FinishInOrder
  <1>12. \A m, n \in DOMAIN Q : m < n => Good(Q[m], Q[n])
  <2> TAKE m, n \in DOMAIN Q
  <2> HAVE m < n
  <2>1. m \in Nat /\ n \in Nat /\ k \in Nat
    BY <1>3, <1>5
  <2>2. \A i, j \in DOMAIN R : i < j => Good(R[i], R[j])
    BY DEF SeqInv
  <2>3. CASE m < k /\ n < k
      <3>1. m \in DOMAIN R /\ n \in DOMAIN R /\ Q[m] = R[m] /\ Q[n] = R[n]
        BY <1>9, <2>1, <2>3
      <3> QED BY <2>2, <3>1
  <2>4. CASE m < k /\ n = k
      <3>1. m \in DOMAIN R /\ Q[m] = R[m]
        BY <1>9, <2>1, <2>4
      <3> QED BY <1>6, <1>7, <1>11, <2>4, <3>1
  <2>5. CASE m < k /\ k < n
      <3>1. m \in DOMAIN R /\ Q[m] = R[m] /\ n - 1 \in DOMAIN R /\ Q[n] = R[n - 1] /\ k <= n - 1
        BY <1>9, <2>1, <2>5
      <3>2. m < n - 1
        BY <2>1, <2>5, <3>1
      <3>3. Good(R[m], R[n - 1])
        BY <2>2, <3>1, <3>2
      <3> QED BY <3>1, <3>3
  <2>6. CASE m = k /\ k < n
      <3>1. n - 1 \in DOMAIN R /\ Q[n] = R[n - 1] /\ k <= n - 1
        BY <1>9, <2>1, <2>6
      <3>2. k \in DOMAIN R /\ StrictlyUnder(R[k].from, f.from)
        BY <1>7, <3>1
      <3>3. Good(f, R[n - 1])
        BY <1>11, <3>1, <3>2
      <3> QED BY <1>6, <2>6, <3>1, <3>3
  <2>7. CASE k < m
      <3>1. /\ m - 1 \in DOMAIN R /\ Q[m] = R[m - 1]
            /\ n - 1 \in DOMAIN R /\ Q[n] = R[n - 1]
        BY <1>9, <2>1, <2>7
      <3>2. m - 1 < n - 1
        BY <2>1
      <3>3. Good(R[m - 1], R[n - 1])
        BY <2>2, <3>1, <3>2
      <3> QED BY <3>1, <3>3
  <2> QED BY <2>1, <2>3, <2>4, <2>5, <2>6, <2>7
  <1>13. \A m \in DOMAIN G, n \in DOMAIN Q : G[m].from # Q[n].from /\ G[m].to # Q[n].to
  <2> TAKE m \in DOMAIN G, n \in DOMAIN Q
  <2> DEFINE o == m + 1
  <2>1. o \in DOMAIN F /\ o # 1 /\ G[m] = F[o]
    BY <1>2
  <2> HIDE DEF o
  <2>2. CASE Q[n] = f
      <3>1. F[o].from # F[1].from /\ F[o].to # F[1].to
        BY <1>2, <2>1 DEF SeqInv
      <3> QED BY <1>2, <2>1, <2>2, <3>1
  <2>3. CASE \E i \in DOMAIN R : Q[n] = R[i]
      <3>1. PICK i \in DOMAIN R : Q[n] = R[i]
        BY <2>3
      <3>2. F[o].from # R[i].from /\ F[o].to # R[i].to
        BY <2>1 DEF SeqInv
      <3> QED BY <2>1, <3>1, <3>2
  <2> QED BY <1>10, <2>2, <2>3
  <1>14. \A m, n \in DOMAIN G : m # n => G[m].from # G[n].from /\ G[m].to # G[n].to
  <2> TAKE m, n \in DOMAIN G
  <2> HAVE m # n
  <2> DEFINE i == m + 1
             j == n + 1
  <2>1. i \in DOMAIN F /\ G[m] = F[i] /\ j \in DOMAIN F /\ G[n] = F[j]
    BY <1>2
  <2>2. i # j
      <3>1. DOMAIN G = 1..Len(G)
        BY <1>2, RenameOpsFacts
      <3> QED BY <3>1
  <2> HIDE DEF i, j
  <2>3. F[i].from # F[j].from /\ F[i].to # F[j].to
    BY <2>1, <2>2 DEF SeqInv
  <2> QED BY <2>1, <2>3
  <1>15. \A n \in DOMAIN F : \E i \in Mov : /\ Finishing(F[n], i)
                                            /\ \E m \in DOMAIN R : R[m].from = Source(i) /\ R[m].to = F[n].from
    BY DEF SeqInv
  <1>16. \A n \in DOMAIN Q : \E i \in Mov : Direct(Q[n], i) \/ Staging(Q[n], i) \/ Finishing(Q[n], i)
  <2> TAKE n \in DOMAIN Q
  <2>1. CASE Q[n] = f
      <3>1. \E i \in Mov : Finishing(f, i)
        BY <1>2, <1>15
      <3> QED BY <2>1, <3>1
  <2>2. CASE \E m \in DOMAIN R : Q[n] = R[m]
    BY <2>2 DEF SeqInv
  <2> QED BY <1>10, <2>1, <2>2
  <1>17. \A n \in DOMAIN G : \E i \in Mov : /\ Finishing(G[n], i)
                                            /\ \E m \in DOMAIN Q : Q[m].from = Source(i) /\ Q[m].to = G[n].from
  <2> TAKE n \in DOMAIN G
  <2> DEFINE o == n + 1
  <2>1. o \in DOMAIN F /\ G[n] = F[o]
    BY <1>2
  <2> HIDE DEF o
  <2>2. PICK i \in Mov : /\ Finishing(F[o], i)
                         /\ \E m \in DOMAIN R : R[m].from = Source(i) /\ R[m].to = F[o].from
    BY <1>15, <2>1
  <2>3. \E m \in DOMAIN Q : Q[m].from = Source(i) /\ Q[m].to = F[o].from
    BY <1>8, <2>2
  <2> QED BY <2>1, <2>2, <2>3
  <1>18. \A i \in Mov : \E n \in DOMAIN Q :
          /\ Q[n].from = Source(i)
          /\ \/ Q[n].to = To(i)
             \/ \E m \in DOMAIN Q : Q[m].from = Q[n].to /\ Q[m].to = To(i)
             \/ \E m \in DOMAIN G : G[m].from = Q[n].to /\ G[m].to = To(i)
  <2> TAKE i \in Mov
  <2>1. PICK n \in DOMAIN R :
          /\ R[n].from = Source(i)
          /\ \/ R[n].to = To(i)
             \/ \E m \in DOMAIN R : R[m].from = R[n].to /\ R[m].to = To(i)
             \/ \E m \in DOMAIN F : F[m].from = R[n].to /\ F[m].to = To(i)
    BY DEF SeqInv
  <2>2. PICK l \in DOMAIN Q : Q[l] = R[n]
    BY <1>8
  <2>3. CASE R[n].to = To(i)
    BY <2>1, <2>2, <2>3
  <2>4. CASE \E m \in DOMAIN R : R[m].from = R[n].to /\ R[m].to = To(i)
      <3>1. \E m \in DOMAIN Q : Q[m].from = Q[l].to /\ Q[m].to = To(i)
        BY <1>8, <2>2, <2>4
      <3> QED BY <2>1, <2>2, <3>1
  <2>5. CASE \E m \in DOMAIN F : F[m].from = R[n].to /\ F[m].to = To(i)
      <3>1. PICK m \in DOMAIN F : F[m].from = R[n].to /\ F[m].to = To(i)
        BY <2>5
      <3>2. CASE m = 1
        <4>1. Q[k].from = Q[l].to /\ Q[k].to = To(i)
          BY <1>2, <1>6, <2>2, <3>1, <3>2
        <4> QED BY <1>7, <2>1, <2>2, <4>1
      <3>3. CASE m # 1
        <4> DEFINE j == m - 1
        <4>1. j \in DOMAIN G /\ G[j] = F[m]
          BY <1>2, <3>3
        <4> HIDE DEF j
        <4>2. \E h \in DOMAIN G : G[h].from = Q[l].to /\ G[h].to = To(i)
          BY <2>2, <3>1, <4>1
        <4> QED BY <2>1, <2>2, <4>2
      <3> QED BY <3>2, <3>3
  <2> QED BY <2>1, <2>3, <2>4, <2>5
  <1>19. \A n \in DOMAIN Q, i \in Mov : Finishing(Q[n], i) =>
              \E m \in DOMAIN Q : Q[m].from = Source(i) /\ Q[m].to = Q[n].from
  <2> TAKE n \in DOMAIN Q, i \in Mov
  <2> HAVE Finishing(Q[n], i)
  <2>1. \E m \in DOMAIN R : R[m].from = Source(i) /\ R[m].to = Q[n].from
      <3>1. CASE Q[n] = f
        <4>1. PICK v \in Mov : /\ Finishing(f, v)
                               /\ \E m \in DOMAIN R : R[m].from = Source(v) /\ R[m].to = f.from
          BY <1>2, <1>15
        <4>2. i \in Rows /\ v \in Rows /\ To(i) = To(v)
          BY <3>1, <4>1 DEF Mov, Finishing
        <4>3. i = v
          BY <4>2 DEF Checked, OneEach
        <4> QED BY <3>1, <4>1, <4>3
      <3>2. CASE \E m \in DOMAIN R : Q[n] = R[m]
        <4>1. PICK j \in DOMAIN R : Q[n] = R[j]
          BY <3>2
        <4>2. Finishing(R[j], i)
          BY <4>1
        <4>3. \E m \in DOMAIN R : R[m].from = Source(i) /\ R[m].to = R[j].from
          BY <4>2 DEF SeqInv
        <4> QED BY <4>1, <4>3
      <3> QED BY <1>10, <3>1, <3>2
  <2> QED BY <1>8, <2>1
  <1> QED BY <1>2, <1>4, <1>12, <1>13, <1>14, <1>16, <1>17, <1>18, <1>19, Zenon DEF SeqInv, Q, f, G

-----------------------------------------------------------------------------
(* The volume with the folders made.                                       *)

\* What a folder to be made is.
LEMMA WantedFacts ==
    ASSUME job \in Jobs, Checked
    PROVE  /\ Len(wanted) \in Nat /\ DOMAIN wanted = 1..Len(wanted)
           /\ \A n \in 1..Len(wanted) :
                 /\ wanted[n] \in Paths /\ wanted[n] \notin DOMAIN job.tree
                 /\ wanted[n] \in DOMAIN NewDirs
                 /\ NewDirs[wanted[n]] \in Dirs \ Strangers /\ NewDirs[wanted[n]] \in Files
                 /\ NewDirs[wanted[n]] \notin FilesIn(job.tree)
                 /\ Len(wanted[n]) > 1 =>
                       \/ Parent(wanted[n]) \in DOMAIN job.tree /\ job.tree[Parent(wanted[n])] \in Dirs
                       \/ \E m \in 1..Len(wanted) : m < n /\ wanted[m] = Parent(wanted[n])
           /\ \A m, n \in 1..Len(wanted) : NewDirs[wanted[m]] = NewDirs[wanted[n]] => m = n
           /\ \A m, n \in 1..Len(wanted) : wanted[m] = wanted[n] => m = n
  <1>1. /\ wanted \in Seq(Paths)
        /\ \A m, n \in DOMAIN wanted : wanted[m] = wanted[n] => m = n
        /\ \A n \in DOMAIN wanted :
              /\ wanted[n] \notin DOMAIN job.tree
              /\ \E i \in Mov : wanted[n] \in Way(job, i)
              /\ Len(wanted[n]) > 1 => \/ Parent(wanted[n]) \in DOMAIN job.tree
                                       \/ \E m \in DOMAIN wanted : m < n /\ wanted[m] = Parent(wanted[n])
    BY DEF Checked, WantedInv
  <1>2. Len(wanted) \in Nat /\ DOMAIN wanted = 1..Len(wanted) /\ \A n \in 1..Len(wanted) : wanted[n] \in Paths
    BY <1>1, LenProperties, ElementOfSeq
  <1>3. \A p \in DOMAIN NewDirs : /\ NewDirs[p] \in Dirs \ Strangers /\ NewDirs[p] \in Files
                                  /\ NewDirs[p] \notin FilesIn(job.tree)
  <2>1. FilesIn(job.tree) \cap (Range(NewDirs) \cup Range(NewFiles)) = {}
    BY JobFacts
  <2> QED BY <2>1, ValuesAssumption, DirsAssumption DEF Range
  <1>4. \A p, q \in DOMAIN NewDirs : NewDirs[p] = NewDirs[q] => p = q
    BY ValuesAssumption DEF IsInjective
  <1>5. \A n \in 1..Len(wanted) : wanted[n] \in DOMAIN NewDirs
  <2> TAKE n \in 1..Len(wanted)
  <2>1. PICK i \in Mov : wanted[n] \in Way(job, i)
    BY <1>1, <1>2
  <2>2. i \in Rows
    BY DEF Mov
  <2> QED BY <2>1, <2>2, JobFacts
  <1>6. ASSUME NEW n \in 1..Len(wanted), Len(wanted[n]) > 1
        PROVE  \/ Parent(wanted[n]) \in DOMAIN job.tree /\ job.tree[Parent(wanted[n])] \in Dirs
               \/ \E m \in 1..Len(wanted) : m < n /\ wanted[m] = Parent(wanted[n])
  <2>1. PICK i \in Mov : wanted[n] \in Way(job, i)
    BY <1>1, <1>2
  <2>2. i \in Rows /\ job.names[i] # <<>>
    BY DEF Mov, Checked
  <2>3. StrictlyUnder(wanted[n], To(i)) /\ To(i) \in Paths
    BY <2>1, <2>2, WayFacts, ToFacts
  <2>4. StrictlyUnder(Parent(wanted[n]), wanted[n]) /\ Parent(wanted[n]) \in Paths
    BY <1>2, <1>6, ParentFacts
  <2>5. StrictlyUnder(Parent(wanted[n]), To(i))
      <3> DEFINE p == Parent(wanted[n])
                 q == wanted[n]
      <3>1. /\ p \in Paths /\ q \in Paths /\ To(i) \in Paths
            /\ AtOrUnder(p, q) /\ AtOrUnder(q, To(i)) /\ Len(p) < Len(q) /\ Len(q) < Len(To(i))
        BY <1>2, <2>3, <2>4, AboveFacts
      <3> HIDE DEF p, q
      <3>2. Len(p) \in Nat /\ Len(q) \in Nat /\ Len(To(i)) \in Nat
        BY <3>1, PathFacts
      <3>3. AtOrUnder(p, To(i)) /\ Len(p) < Len(To(i))
        BY <3>1, <3>2, UnderTransitive
      <3>4. StrictlyUnder(p, To(i))
        BY <3>1, <3>3, AboveFacts
      <3> QED BY <3>4 DEF p
  <2>6. Parent(wanted[n]) \in DOMAIN job.tree => job.tree[Parent(wanted[n])] \in Dirs
    BY <2>2, <2>4, <2>5, GoesThrough
  <2> QED BY <1>1, <1>2, <1>6, <2>6
  <1>7. \A m, n \in 1..Len(wanted) : wanted[m] = wanted[n] => m = n
    BY <1>1, <1>2
  <1>8. \A m, n \in 1..Len(wanted) : NewDirs[wanted[m]] = NewDirs[wanted[n]] => m = n
    BY <1>4, <1>5, <1>7
  <1> QED BY <1>1, <1>2, <1>3, <1>5, <1>6, <1>7, <1>8

\* What the volume holds once some of them are made.
LEMMA MadeFacts ==
    ASSUME job \in Jobs, Checked, NEW m \in 0..Len(wanted)
    PROVE  /\ DOMAIN Made(m) = DOMAIN job.tree \cup {wanted[n] : n \in 1..m}
           /\ \A p \in DOMAIN job.tree : p \in DOMAIN Made(m) /\ Made(m)[p] = job.tree[p]
           /\ \A n \in 1..m : /\ n \in 1..Len(wanted)
                              /\ wanted[n] \in DOMAIN Made(m) /\ Made(m)[wanted[n]] = NewDirs[wanted[n]]
           /\ \A p \in DOMAIN Made(m) : p \in DOMAIN job.tree \/ \E n \in 1..m : p = wanted[n]
           /\ FilesIn(Made(m)) = FilesIn(job.tree) \cup {NewDirs[wanted[n]] : n \in 1..m}
  <1>1. Len(wanted) \in Nat /\ \A n \in 1..m : n \in 1..Len(wanted) /\ wanted[n] \notin DOMAIN job.tree
    BY WantedFacts
  <1>2. DOMAIN Made(m) = DOMAIN job.tree \cup {wanted[n] : n \in 1..m}
    BY DEF Made
  <1>3. \A p \in DOMAIN job.tree : p \in DOMAIN Made(m) /\ Made(m)[p] = job.tree[p]
    BY DEF Made
  <1>4. \A n \in 1..m : wanted[n] \in DOMAIN Made(m) /\ Made(m)[wanted[n]] = NewDirs[wanted[n]]
    BY <1>1 DEF Made
  <1>5. \A p \in DOMAIN Made(m) : p \in DOMAIN job.tree \/ \E n \in 1..m : p = wanted[n]
    BY <1>2
  <1>6. FilesIn(Made(m)) = FilesIn(job.tree) \cup {NewDirs[wanted[n]] : n \in 1..m}
    BY <1>3, <1>4, <1>5 DEF FilesIn
  <1> QED BY <1>1, <1>2, <1>3, <1>4, <1>5, <1>6

\* Making the next one, which can be made.
LEMMA MadeStep ==
    ASSUME job \in Jobs, Checked, NEW m \in Nat, m + 1 \in 1..Len(wanted)
    PROVE  /\ CanCreate(Made(m), wanted[m + 1])
           /\ Made(m + 1) = Created(Made(m), wanted[m + 1], NewDirs[wanted[m + 1]])
           /\ NewDirs[wanted[m + 1]] \notin FilesIn(Made(m))
  <1> DEFINE w == wanted[m + 1]
  <1>1. /\ Len(wanted) \in Nat /\ m \in 0..Len(wanted) /\ m + 1 \in 0..Len(wanted)
        /\ \A n \in 1..m : n \in 1..Len(wanted) /\ n # m + 1
        /\ \A n \in 1..(m + 1) : n \in 1..m \/ n = m + 1
        /\ m + 1 \in 1..(m + 1) /\ \A n \in 1..m : n \in 1..(m + 1)
    BY WantedFacts
  <1>2. /\ w \in Paths /\ w \notin DOMAIN job.tree /\ NewDirs[w] \notin FilesIn(job.tree)
        /\ Len(w) > 1 => \/ Parent(w) \in DOMAIN job.tree /\ job.tree[Parent(w)] \in Dirs
                         \/ \E k \in 1..Len(wanted) : k < m + 1 /\ wanted[k] = Parent(w)
        /\ \A n \in 1..m : wanted[n] # w /\ NewDirs[wanted[n]] # NewDirs[w]
        /\ \A n \in 1..Len(wanted) : NewDirs[wanted[n]] \in Dirs
    BY <1>1, WantedFacts
  <1>3. /\ DOMAIN Made(m) = DOMAIN job.tree \cup {wanted[n] : n \in 1..m}
        /\ \A p \in DOMAIN job.tree : p \in DOMAIN Made(m) /\ Made(m)[p] = job.tree[p]
        /\ \A n \in 1..m : wanted[n] \in DOMAIN Made(m) /\ Made(m)[wanted[n]] = NewDirs[wanted[n]]
        /\ FilesIn(Made(m)) = FilesIn(job.tree) \cup {NewDirs[wanted[n]] : n \in 1..m}
    BY <1>1, MadeFacts
  <1>4. w \notin DOMAIN Made(m)
    BY <1>2, <1>3
  <1>5. NewDirs[w] \notin FilesIn(Made(m))
    BY <1>2, <1>3
  <1>6. HasRoom(Made(m), w)
  <2> SUFFICES ASSUME Len(w) > 1 PROVE Parent(w) \in DOMAIN Made(m) /\ Made(m)[Parent(w)] \in Dirs
    BY DEF HasRoom, Exists
  <2>1. CASE Parent(w) \in DOMAIN job.tree /\ job.tree[Parent(w)] \in Dirs
    BY <1>3, <2>1
  <2>2. CASE \E k \in 1..Len(wanted) : k < m + 1 /\ wanted[k] = Parent(w)
      <3>1. PICK k \in 1..Len(wanted) : k < m + 1 /\ wanted[k] = Parent(w)
        BY <2>2
      <3>2. k \in 1..m
        BY <1>1, <3>1
      <3> QED BY <1>2, <1>3, <3>1, <3>2
  <2> QED BY <1>2, <2>1, <2>2
  <1>7. Made(m + 1) = Created(Made(m), w, NewDirs[w])
  <2>1. DOMAIN job.tree \cup {wanted[n] : n \in 1..(m + 1)} = DOMAIN Made(m) \cup {w}
    BY <1>1, <1>3
  <2>2. \A p \in DOMAIN Made(m) \cup {w} :
           (IF p \in DOMAIN job.tree THEN job.tree[p] ELSE NewDirs[p])
              = (IF p = w THEN NewDirs[w] ELSE Made(m)[p])
      <3> TAKE p \in DOMAIN Made(m) \cup {w}
      <3>1. CASE p = w
        BY <1>2, <3>1
      <3>2. CASE p # w
        <4>1. p \in DOMAIN Made(m)
          BY <3>2
        <4> QED BY <3>2, <4>1 DEF Made
      <3> QED BY <3>1, <3>2
  <2>3. Made(m + 1) = [p \in DOMAIN Made(m) \cup {w} |-> IF p \in DOMAIN job.tree THEN job.tree[p] ELSE NewDirs[p]]
    BY <2>1 DEF Made
  <2> QED BY <2>2, <2>3 DEF Created
  <1> QED BY <1>4, <1>5, <1>6, <1>7 DEF CanCreate, Exists

\* Before the first is made it is the volume that was listed.
LEMMA MadeNone ==
    ASSUME job \in Jobs, Checked
    PROVE  Made(0) = job.tree
  <1>1. 1..0 = {} /\ 0 \in 0..Len(wanted)
  <2>1. Len(wanted) \in Nat
    BY WantedFacts
  <2> QED BY <2>1
  <1>2. job.tree = [p \in DOMAIN job.tree |-> job.tree[p]]
    BY JobFacts DEF IsTree
  <1>3. DOMAIN job.tree \cup {wanted[n] : n \in 1..0} = DOMAIN job.tree
    BY <1>1
  <1>4. Made(0) = [p \in DOMAIN job.tree |-> IF p \in DOMAIN job.tree THEN job.tree[p] ELSE NewDirs[p]]
    BY <1>3 DEF Made
  <1>5. [p \in DOMAIN job.tree |-> IF p \in DOMAIN job.tree THEN job.tree[p] ELSE NewDirs[p]]
          = [p \in DOMAIN job.tree |-> job.tree[p]]
    OBVIOUS
  <1> QED BY <1>2, <1>4, <1>5

\* All the way it is a volume.
LEMMA MadeIsTree ==
    ASSUME job \in Jobs, Checked, NEW m \in 0..Len(wanted)
    PROVE  IsTree(Made(m))
  <1> DEFINE T == {n \in 0..Len(wanted) : ~IsTree(Made(n))}
  <1>1. Len(wanted) \in Nat
    BY WantedFacts
  <1>2. SUFFICES ASSUME T # {} PROVE FALSE
    OBVIOUS
  <1>3. T \in SUBSET Nat
    BY <1>1
  <1>4. PICK n \in T : \A k \in T : n <= k
  <2> HIDE DEF T
  <2> QED BY <1>2, <1>3, Least
  <1>5. n # 0
    BY <1>4, MadeNone, JobFacts
  <1> DEFINE k == n - 1
  <1>6. k \in Nat /\ k + 1 = n /\ k + 1 \in 1..Len(wanted) /\ k \in 0..Len(wanted) /\ ~(n <= k)
    BY <1>1, <1>4, <1>5
  <1>7. IsTree(Made(k))
    BY <1>4, <1>6
  <1> HIDE DEF k, T
  <1>8. /\ CanCreate(Made(k), wanted[k + 1])
        /\ Made(k + 1) = Created(Made(k), wanted[k + 1], NewDirs[wanted[k + 1]])
        /\ NewDirs[wanted[k + 1]] \notin FilesIn(Made(k))
    BY <1>6, MadeStep
  <1>9. wanted[k + 1] \in Paths /\ NewDirs[wanted[k + 1]] \in Files
    BY <1>6, WantedFacts
  <1>10. IsTree(Made(k + 1))
    BY <1>7, <1>8, <1>9, CreatedIsTree
  <1> QED BY <1>4, <1>6, <1>10 DEF T

\* The volume the renames start from.
LEMMA BaseFacts ==
    ASSUME job \in Jobs, Checked
    PROVE  /\ IsTree(Base) /\ Len(wanted) \in 0..Len(wanted)
           /\ \A p : p \in DOMAIN Base <=> p \in DOMAIN job.tree \/ Contains(wanted, p)
           /\ \A p \in DOMAIN job.tree : Base[p] = job.tree[p]
           /\ \A p \in DOMAIN Base : p \notin DOMAIN job.tree => Base[p] \in Dirs
           /\ FilesIn(Base) = FilesIn(job.tree) \cup {NewDirs[wanted[n]] : n \in 1..Len(wanted)}
  <1>1. Len(wanted) \in 0..Len(wanted) /\ \A n \in 1..Len(wanted) : NewDirs[wanted[n]] \in Dirs
    BY WantedFacts
  <1>2. /\ IsTree(Base)
        /\ DOMAIN Base = DOMAIN job.tree \cup {wanted[n] : n \in 1..Len(wanted)}
        /\ \A p \in DOMAIN job.tree : Base[p] = job.tree[p]
        /\ \A n \in 1..Len(wanted) : Base[wanted[n]] = NewDirs[wanted[n]]
        /\ \A p \in DOMAIN Base : p \in DOMAIN job.tree \/ \E n \in 1..Len(wanted) : p = wanted[n]
        /\ FilesIn(Base) = FilesIn(job.tree) \cup {NewDirs[wanted[n]] : n \in 1..Len(wanted)}
    BY <1>1, MadeIsTree, MadeFacts DEF Base
  <1>3. \A p : p \in DOMAIN Base <=> p \in DOMAIN job.tree \/ Contains(wanted, p)
    BY <1>2 DEF Contains
  <1>4. \A p \in DOMAIN Base : p \notin DOMAIN job.tree => Base[p] \in Dirs
    BY <1>1, <1>2
  <1> QED BY <1>1, <1>2, <1>3, <1>4

\* What one of the renames is.
LEMMA EntryFacts ==
    ASSUME job \in Jobs, Checked, NEW R, SeqInv(R, <<>>, Mov), NEW n \in DOMAIN R
    PROVE  \E i \in Mov : /\ i \in Rows
                          /\ \/ R[n].from = Source(i) /\ R[n].to = To(i)
                             \/ R[n].from = Source(i) /\ Spare(i, R[n].to)
                             \/ Spare(i, R[n].from) /\ R[n].to = To(i)
  BY DEF SeqInv, Direct, Staging, Finishing, Mov

\* Who leaves its name leaves it in one of the renames, to its target or to a
\* spare name it leaves for its target.
LEMMA LeavesFacts ==
    ASSUME job \in Jobs, Checked, NEW R, SeqInv(R, <<>>, Mov), NEW i \in Mov
    PROVE  \E n \in DOMAIN R : /\ R[n].from = Source(i)
                               /\ \/ R[n].to = To(i)
                                  \/ \E m \in DOMAIN R : R[m].from = R[n].to /\ R[m].to = To(i)
  <1>1. DOMAIN <<>> = {}
    OBVIOUS
  <1> QED BY <1>1 DEF SeqInv

\* The renames of a plan are a scheme of the volume with its folders made.
LEMMA PlanIsScheme ==
    ASSUME job \in Jobs, Checked, NEW R, SeqInv(R, <<>>, Mov)
    PROVE  Scheme(Base, R)
  <1>1. R \in Seq(RenameOps)
    BY DEF SeqInv
  <1>2. /\ Len(R) \in Nat /\ DOMAIN R = 1..Len(R)
        /\ \A n \in DOMAIN R : R[n].from \in Paths /\ R[n].to \in Paths
    BY <1>1, RenameOpsFacts
  <1>3. \A m, n \in DOMAIN R : m < n => Good(R[m], R[n])
    BY DEF SeqInv
  <1>4. \A i \in Rows : /\ To(i) \in Paths /\ Source(i) \in DOMAIN job.tree /\ Source(i) \in Paths
                        /\ job.names[i] # <<>>
    BY GoesThrough DEF Checked
  <1>5. \A p : p \in DOMAIN Base <=> p \in DOMAIN job.tree \/ Contains(wanted, p)
    BY BaseFacts
  <1>6. \A p \in DOMAIN job.tree : Base[p] = job.tree[p]
    BY BaseFacts
  <1>7. \A p \in DOMAIN Base : p \notin DOMAIN job.tree => Base[p] \in Dirs
    BY BaseFacts
  <1>8. ASSUME NEW n \in DOMAIN R
        PROVE  /\ R[n].from # R[n].to /\ ~StrictlyUnder(R[n].from, R[n].to)
               /\ Len(R[n].to) > 1 =>
                     Parent(R[n].to) \in DOMAIN Base /\ Base[Parent(R[n].to)] \in Dirs
               /\ R[n].to \in DOMAIN Base => \E m \in DOMAIN R : m < n /\ R[m].from = R[n].to
               /\ \/ R[n].from \in DOMAIN Base
                  \/ \E m \in DOMAIN R : /\ m < n /\ R[m].to = R[n].from
                                         /\ R[m].from \in DOMAIN Base /\ R[m].to \notin DOMAIN Base
  <2>1. PICK i \in Mov : /\ i \in Rows
                         /\ \/ R[n].from = Source(i) /\ R[n].to = To(i)
                            \/ R[n].from = Source(i) /\ Spare(i, R[n].to)
                            \/ Spare(i, R[n].from) /\ R[n].to = To(i)
    BY EntryFacts
  <2> DEFINE s == Source(i)
             g == To(i)
  <2>2. s \in DOMAIN job.tree /\ s \in Paths /\ g \in Paths /\ s # g /\ ~AtOrUnder(s, g) /\ s \in DOMAIN Base
    BY <1>4, <1>5, <2>1 DEF Mov, Checked, WaysClear
  <2>3. Len(g) > 1 => Parent(g) \in DOMAIN Base /\ Base[Parent(g)] \in Dirs
      <3> HAVE Len(g) > 1
      <3>1. Parent(g) \in Paths /\ StrictlyUnder(Parent(g), g)
        BY <2>2, ParentFacts
      <3>2. \/ Parent(g) \in DOMAIN job.tree /\ job.tree[Parent(g)] \in Dirs
            \/ Parent(g) \notin DOMAIN job.tree /\ Contains(wanted, Parent(g))
        BY <2>1, <3>1, GoesThrough
      <3> QED BY <1>5, <1>6, <1>7, <3>2
  <2>4. R[n].to = g /\ g \in DOMAIN Base => \E m \in DOMAIN R : m < n /\ R[m].from = g
      <3> HAVE R[n].to = g /\ g \in DOMAIN Base
      <3>1. ~Contains(wanted, g)
        BY <2>1 DEF Checked, FoldersMade
      <3>2. g \in DOMAIN job.tree
        BY <1>5, <3>1
      <3>3. PICK k \in Mov : Source(k) = g
        BY <2>1, <3>2 DEF Checked, NamesLeft
      <3>4. PICK m \in DOMAIN R : R[m].from = g
        BY <3>3, LeavesFacts
      <3>5. ~(n < m)
        <4> SUFFICES ASSUME n < m PROVE FALSE
          OBVIOUS
        <4>1. Good(R[n], R[m])
          BY <1>3
        <4> QED BY <3>2, <3>4, <4>1 DEF Good
      <3>6. n # m
        <4>1. CASE R[n].from = s
          BY <2>2, <3>4, <4>1
        <4>2. CASE Spare(i, R[n].from)
          BY <2>1, <3>4, <4>2, SpareFacts
        <4> QED BY <2>1, <4>1, <4>2
      <3>7. m < n
        BY <1>2, <3>5, <3>6
      <3> QED BY <3>4, <3>7
  <2>5. CASE R[n].from = s /\ R[n].to = g
    BY <2>2, <2>3, <2>4, <2>5 DEF StrictlyUnder
  <2>6. CASE R[n].from = s /\ Spare(i, R[n].to)
      <3>1. /\ R[n].to \in Paths /\ R[n].to \notin DOMAIN job.tree /\ ~Contains(wanted, R[n].to)
            /\ StrictlyUnder(s, R[n].to) <=> StrictlyUnder(s, s)
            /\ Len(R[n].to) > 1 => Parent(R[n].to) \in DOMAIN job.tree /\ job.tree[Parent(R[n].to)] \in Dirs
        BY <2>1, <2>2, <2>6, SpareFacts
      <3>2. ~StrictlyUnder(s, s)
        BY DEF StrictlyUnder
      <3>3. R[n].to \notin DOMAIN Base
        BY <1>5, <3>1
      <3> QED BY <1>5, <1>6, <2>2, <2>6, <3>1, <3>2, <3>3
  <2>7. CASE Spare(i, R[n].from) /\ R[n].to = g
      <3>1. /\ R[n].from \notin DOMAIN job.tree /\ ~Contains(wanted, R[n].from)
            /\ R[n].from # g /\ ~StrictlyUnder(R[n].from, g)
        BY <2>1, <2>7, SpareFacts
      <3>2. Finishing(R[n], i)
        BY <2>7 DEF Finishing
      <3>3. PICK m \in DOMAIN R : R[m].from = s /\ R[m].to = R[n].from
        BY <2>1, <3>2 DEF SeqInv
      <3>4. ~(n < m)
        <4> SUFFICES ASSUME n < m PROVE FALSE
          OBVIOUS
        <4>1. Good(R[n], R[m])
          BY <1>3
        <4> QED BY <3>1, <3>3, <4>1 DEF Good
      <3>5. n # m
        BY <2>1, <2>7, <3>3, SpareFacts
      <3>6. m < n
        BY <1>2, <3>4, <3>5
      <3>7. R[m].to \notin DOMAIN Base
        BY <1>5, <3>1, <3>3
      <3> QED BY <2>2, <2>3, <2>4, <2>7, <3>1, <3>3, <3>6, <3>7
  <2> QED BY <2>1, <2>5, <2>6, <2>7
  <1>9. ASSUME NEW m \in DOMAIN R, NEW n \in DOMAIN R, m < n
        PROVE  /\ ~AtOrUnder(R[m].from, R[n].from)
               /\ ~StrictlyUnder(R[m].from, R[n].to)
               /\ R[m].to # R[n].to
  <2>1. Good(R[m], R[n])
    BY <1>3, <1>9
  <2>2. ~AtOrUnder(R[m].from, R[n].from) /\ R[m].to # R[n].to /\ ~StrictlyUnder(R[m].from, R[n].from)
    BY <2>1 DEF Good, StrictlyUnder
  <2>3. PICK i \in Mov : /\ i \in Rows
                         /\ \/ R[n].from = Source(i) /\ R[n].to = To(i)
                            \/ R[n].from = Source(i) /\ Spare(i, R[n].to)
                            \/ Spare(i, R[n].from) /\ R[n].to = To(i)
    BY EntryFacts
  <2>4. PICK j \in Mov : j \in Rows /\ (R[m].from = Source(j) \/ Spare(j, R[m].from))
    BY EntryFacts
  <2>5. ~StrictlyUnder(R[m].from, Source(i))
      <3>1. Spare(i, R[n].from) => (StrictlyUnder(R[m].from, R[n].from) <=> StrictlyUnder(R[m].from, Source(i)))
        BY <1>2, <2>3, SpareFacts
      <3> QED BY <2>2, <2>3, <3>1
  <2>6. ~StrictlyUnder(R[m].from, To(i))
      <3>1. CASE R[m].from = Source(j)
        BY <2>3, <2>4, <2>5, <3>1, GoesThrough
      <3>2. CASE Spare(j, R[m].from)
        BY <2>3, <2>4, <3>2, SpareFacts
      <3> QED BY <2>4, <3>1, <3>2
  <2>7. ~StrictlyUnder(R[m].from, R[n].to)
      <3>1. Spare(i, R[n].to) => (StrictlyUnder(R[m].from, R[n].to) <=> StrictlyUnder(R[m].from, Source(i)))
        BY <1>2, <2>3, SpareFacts
      <3> QED BY <2>3, <2>5, <2>6, <3>1
  <2> QED BY <2>2, <2>7
  <1>10. IsTree(Base)
    BY BaseFacts
  <1> QED BY <1>1, <1>8, <1>9, <1>10, Zenon DEF Scheme, RenameOps

\* What every file is called in the end, the folders above it apart: what its
\* row asks for, or what it is called.
LEMMA FinFacts ==
    ASSUME job \in Jobs, Checked
    PROVE  /\ FinOf \in [DOMAIN Base -> Paths]
           /\ \A i \in Rows : Source(i) \in DOMAIN Base /\ FinOf[Source(i)] = To(i)
           /\ \A p \in DOMAIN Base : (\A i \in Rows : Source(i) # p) => FinOf[p] = p
           /\ \A m \in Moved(FinOf) : m \in DOMAIN Base /\ \E i \in Mov : Source(i) = m
           /\ \A i \in Mov : Source(i) \in Moved(FinOf)
           /\ Shaped(FinOf)
  <1>1. /\ \A i \in Rows : Source(i) \in DOMAIN job.tree /\ Source(i) \in Paths
        /\ \A i, j \in Rows : Source(i) = Source(j) => i = j
        /\ \A i \in Rows : job.names[i] # <<>>
    BY JobFacts DEF Checked
  <1>2. \A i \in Rows : Source(i) \in DOMAIN Base
    BY <1>1, BaseFacts
  <1>3. DOMAIN Base \subseteq Paths
    BY BaseFacts DEF IsTree
  <1>4. /\ DOMAIN FinOf = DOMAIN Base
        /\ \A p \in DOMAIN Base : FinOf[p] =
              IF \E i \in Rows : Asks(p, i) THEN To(CHOOSE i \in Rows : Asks(p, i)) ELSE p
        /\ FinOf = [p \in DOMAIN Base |-> FinOf[p]]
    BY DEF FinOf
  <1>5. ASSUME NEW i \in Rows
        PROVE  FinOf[Source(i)] = To(i)
  <2> DEFINE p == Source(i)
             j == CHOOSE k \in Rows : Asks(p, k)
  <2>1. Asks(p, i)
    BY DEF Asks
  <2>2. j \in Rows /\ Asks(p, j)
    BY <2>1
  <2> HIDE DEF j
  <2>3. j = i
    BY <1>1, <2>2 DEF Asks
  <2>4. FinOf[p] = To(j)
    BY <1>2, <1>4, <2>1 DEF j
  <2> QED BY <2>3, <2>4
  <1>6. ASSUME NEW p \in DOMAIN Base, \A i \in Rows : Source(i) # p
        PROVE  FinOf[p] = p
    BY <1>4, <1>6 DEF Asks
  <1>7. \A p \in DOMAIN Base : FinOf[p] \in Paths
  <2> TAKE p \in DOMAIN Base
  <2>1. CASE \E i \in Rows : Source(i) = p
    BY <2>1, <1>1, <1>5, ToFacts
  <2>2. CASE \A i \in Rows : Source(i) # p
    BY <2>2, <1>3, <1>6
  <2> QED BY <2>1, <2>2
  <1>8. FinOf \in [DOMAIN Base -> Paths]
    BY <1>4, <1>7
  <1>9. \A m \in Moved(FinOf) : m \in DOMAIN Base /\ \E i \in Mov : Source(i) = m
  <2> TAKE m \in Moved(FinOf)
  <2>1. m \in DOMAIN Base /\ FinOf[m] # m
    BY <1>4 DEF Moved
  <2>2. PICK i \in Rows : Source(i) = m
    BY <1>6, <2>1
  <2>3. To(i) # Source(i)
    BY <1>5, <2>1, <2>2
  <2> QED BY <2>1, <2>2, <2>3 DEF Mov
  <1>10. \A i \in Mov : Source(i) \in Moved(FinOf)
    BY <1>2, <1>4, <1>5 DEF Moved, Mov
  <1>11. Shaped(FinOf)
  <2>1. ASSUME NEW p \in DOMAIN FinOf, NEW m \in Moved(FinOf)
        PROVE  StrictlyUnder(m, FinOf[p]) <=> StrictlyUnder(m, p)
      <3>1. PICK j \in Mov : Source(j) = m
        BY <1>9
      <3>2. CASE \E i \in Rows : Source(i) = p
        <4>1. PICK i \in Rows : Source(i) = p
          BY <3>2
        <4>2. StrictlyUnder(Source(j), To(i)) <=> StrictlyUnder(Source(j), Source(i))
          BY GoesThrough
        <4> QED BY <1>5, <3>1, <4>1, <4>2
      <3>3. CASE \A i \in Rows : Source(i) # p
        BY <1>4, <1>6, <3>3
      <3> QED BY <3>2, <3>3
  <2>2. ASSUME NEW p \in Moved(FinOf)
        PROVE  ~AtOrUnder(p, FinOf[p]) /\ Len(p) <= Len(FinOf[p])
      <3>1. PICK i \in Mov : Source(i) = p
        BY <1>9
      <3>2. i \in Rows /\ ~AtOrUnder(Source(i), To(i))
        BY DEF Mov, Checked, WaysClear
      <3>3. Len(Source(i)) <= Len(To(i))
        BY <1>1, <3>2, ToFacts
      <3> QED BY <1>5, <3>1, <3>2, <3>3
  <2> QED BY <2>1, <2>2 DEF Shaped
  <1> QED BY <1>2, <1>5, <1>6, <1>8, <1>9, <1>10, <1>11

\* Once all renames are done, that is what it is called.
LEMMA CoordIsFin ==
    ASSUME job \in Jobs, Checked, NEW R, SeqInv(R, <<>>, Mov), NEW p \in DOMAIN Base, NEW c,
           Coord(R, Len(R), p, c)
    PROVE  c = FinOf[p]
  <1>1. Scheme(Base, R)
    BY PlanIsScheme
  <1>2. /\ Len(R) \in Nat /\ DOMAIN R = 1..Len(R)
        /\ \A n \in DOMAIN R : R[n].from \in Paths /\ R[n].to \in Paths
        /\ \A m, n \in DOMAIN R : R[m].from = R[n].from => m = n
        /\ \A m, n \in DOMAIN R : R[m].to = R[n].to => m = n
        /\ \A m, n \in DOMAIN R : m < n /\ R[m].to = R[n].from => R[m].to \notin DOMAIN Base
    BY <1>1, SchemeFacts
  <1>3. /\ \A i \in Rows : Source(i) \in DOMAIN Base /\ FinOf[Source(i)] = To(i)
        /\ \A q \in DOMAIN Base : (\A i \in Rows : Source(i) # q) => FinOf[q] = q
    BY FinFacts
  <1>4. \A q \in DOMAIN Base : q \in DOMAIN job.tree \/ Contains(wanted, q)
    BY BaseFacts
  <1>5. ASSUME NEW i \in Rows, NEW s, Spare(i, s)
        PROVE  s \notin DOMAIN Base
    BY <1>4, <1>5 DEF Spare
  <1>7. ASSUME NEW i \in Mov
        PROVE  i \in Rows /\ \E n \in 1..Len(R) : R[n].from = Source(i)
    BY <1>2, LeavesFacts DEF Mov
  <1>8. CASE c = p /\ \A m \in 1..Len(R) : R[m].from # p
  <2>1. CASE \E i \in Rows : Source(i) = p
      <3>1. PICK i \in Rows : Source(i) = p
        BY <2>1
      <3>2. i \notin Mov
        BY <1>7, <1>8, <3>1
      <3>3. To(i) = p
        BY <3>1, <3>2 DEF Mov
      <3> QED BY <1>3, <1>8, <3>1, <3>3
  <2>2. CASE \A i \in Rows : Source(i) # p
    BY <1>3, <1>8, <2>2
  <2> QED BY <2>1, <2>2
  <1>9. CASE \E m \in 1..Len(R) : R[m].from = p /\ R[m].to = c
                                  /\ \A n \in 1..Len(R) : m < n => R[n].from # c
  <2>1. PICK m \in 1..Len(R) : R[m].from = p /\ R[m].to = c
                                /\ \A n \in 1..Len(R) : m < n => R[n].from # c
    BY <1>9
  <2>2. PICK i \in Mov : /\ i \in Rows
                         /\ \/ R[m].from = Source(i) /\ R[m].to = To(i)
                            \/ R[m].from = Source(i) /\ Spare(i, R[m].to)
                            \/ Spare(i, R[m].from) /\ R[m].to = To(i)
    BY <1>2, EntryFacts
  <2>3. CASE R[m].from = Source(i) /\ R[m].to = To(i)
    BY <1>3, <2>1, <2>2, <2>3
  <2>4. CASE R[m].from = Source(i) /\ Spare(i, R[m].to)
      <3>1. PICK n \in DOMAIN R : /\ R[n].from = Source(i)
                                  /\ \/ R[n].to = To(i)
                                     \/ \E l \in DOMAIN R : R[l].from = R[n].to /\ R[l].to = To(i)
        BY LeavesFacts
      <3>2. n = m
        BY <1>2, <2>4, <3>1
      <3>3. R[m].to # To(i)
        BY <2>2, <2>4 DEF Spare
      <3>4. PICK l \in DOMAIN R : R[l].from = R[m].to /\ R[l].to = To(i)
        BY <3>1, <3>2, <3>3
      <3>5. R[l].from \notin DOMAIN Base
        BY <1>5, <2>2, <2>4, <3>4
      <3>6. PICK h \in DOMAIN R : h < l /\ R[h].to = R[l].from
        BY <1>1, <3>5 DEF Scheme
      <3>7. h = m
        BY <1>2, <3>4, <3>6
      <3> QED BY <1>2, <2>1, <3>4, <3>6, <3>7
  <2>5. CASE Spare(i, R[m].from) /\ R[m].to = To(i)
    BY <1>5, <2>1, <2>2, <2>5
  <2> QED BY <2>2, <2>3, <2>4, <2>5
  <1>10. CASE \E m, n \in 1..Len(R) : m < n /\ R[m].from = p /\ R[m].to = R[n].from /\ R[n].to = c
  <2>1. PICK m, n \in 1..Len(R) : m < n /\ R[m].from = p /\ R[m].to = R[n].from /\ R[n].to = c
    BY <1>10
  <2>2. m \in DOMAIN R /\ n \in DOMAIN R
    BY <1>2
  <2>3. R[n].from \notin DOMAIN Base
    BY <1>2, <2>1, <2>2
  <2>4. PICK i \in Mov : /\ i \in Rows
                         /\ \/ R[n].from = Source(i) /\ R[n].to = To(i)
                            \/ R[n].from = Source(i) /\ Spare(i, R[n].to)
                            \/ Spare(i, R[n].from) /\ R[n].to = To(i)
    BY <2>2, EntryFacts
  <2>5. Spare(i, R[n].from) /\ R[n].to = To(i)
    BY <1>3, <2>3, <2>4
  <2>6. Finishing(R[n], i)
    BY <2>5 DEF Finishing
  <2>7. PICK k \in DOMAIN R : R[k].from = Source(i) /\ R[k].to = R[n].from
    BY <2>2, <2>4, <2>6 DEF SeqInv
  <2>8. k = m
    BY <1>2, <2>1, <2>2, <2>7
  <2> QED BY <1>3, <2>1, <2>4, <2>5, <2>7, <2>8
  <1> QED BY <1>8, <1>9, <1>10 DEF Coord

\* When they are done everything is settled.
LEMMA PlanSettles ==
    ASSUME job \in Jobs, Checked, NEW R, SeqInv(R, <<>>, Mov), NEW t, RenInv(Base, R, Len(R), t)
    PROVE  Settled(Base, FinOf, t)
  <1>1. IsTree(Base) /\ FinOf \in [DOMAIN Base -> Paths]
    BY BaseFacts, FinFacts
  <1>2. /\ IsTree(t) /\ FilesIn(t) = FilesIn(Base)
        /\ \A q \in DOMAIN t : \E p, c \in Paths : Called(Base, R, Len(R), t, q, p, c)
    BY DEF RenInv
  <1>3. ASSUME NEW q \in DOMAIN t
        PROVE  \E p \in DOMAIN Base :
                  /\ Base[p] = t[q]
                  /\ q[Len(q)] = FinOf[p][Len(FinOf[p])]
                  /\ Len(q) > 1 => Len(FinOf[p]) > 1
                  /\ Len(FinOf[p]) > 1 => /\ Len(q) > 1
                                          /\ Parent(FinOf[p]) \in DOMAIN Base
                                          /\ t[Parent(q)] = Base[Parent(FinOf[p])]
  <2>1. PICK p, c \in Paths : Called(Base, R, Len(R), t, q, p, c)
    BY <1>2
  <2>2. /\ p \in DOMAIN Base /\ Base[p] = t[q] /\ Coord(R, Len(R), p, c)
        /\ q[Len(q)] = c[Len(c)]
        /\ Len(q) > 1 => Len(c) > 1
        /\ Len(c) > 1 => Len(q) > 1
        /\ Len(c) > 1 => Parent(c) \in DOMAIN Base /\ t[Parent(q)] = Base[Parent(c)]
    BY <2>1 DEF Called
  <2>3. c = FinOf[p]
    BY <2>2, CoordIsFin
  <2> HIDE DEF FinOf
  <2> QED BY <2>2, <2>3
  <1> QED BY <1>1, <1>2, <1>3 DEF Settled

\* What is in a folder that was not itself renamed is carried as that folder
\* is, when no renamed folder lies between.
LEMMA CarriedThrough ==
    ASSUME NEW base, NEW fin, NEW t, Settled(base, fin, t), NEW c \in Paths, NEW h \in Paths,
           h \notin Moved(fin), StrictlyUnder(h, c),
           \A m \in Moved(fin) : StrictlyUnder(m, c) => Len(m) <= Len(h),
           NEW r, Carries(base, fin, t, h, r)
    PROVE  Carries(base, fin, t, c, Rebase(c, h, r))
  <1>1. \A m \in Moved(fin) : m \in DOMAIN base /\ m \in Paths
    BY DEF Settled, IsTree, Moved
  <1>2. \A m \in Moved(fin) : StrictlyUnder(m, c) <=> StrictlyUnder(m, h)
  <2> TAKE m \in Moved(fin)
  <2>1. m \in Paths /\ m # h
    BY <1>1
  <2>2. ASSUME StrictlyUnder(m, c) PROVE StrictlyUnder(m, h)
      <3>1. AtOrUnder(m, c) /\ AtOrUnder(h, c) /\ Len(m) <= Len(h)
        BY <2>2 DEF StrictlyUnder
      <3>2. AtOrUnder(m, h)
        BY <2>1, <3>1, AboveFacts
      <3> QED BY <2>1, <3>2 DEF StrictlyUnder
  <2>3. ASSUME StrictlyUnder(m, h) PROVE StrictlyUnder(m, c)
      <3>1. Len(m) \in Nat /\ Len(h) \in Nat /\ Len(c) \in Nat
        BY <2>1, PathFacts
      <3>2. AtOrUnder(m, h) /\ Len(m) < Len(h) /\ AtOrUnder(h, c) /\ Len(h) < Len(c)
        BY <2>1, <2>3, AboveFacts
      <3>3. AtOrUnder(m, c) /\ Len(m) < Len(c)
        BY <2>1, <3>1, <3>2, AboveFacts
      <3> QED BY <2>1, <3>3, AboveFacts
  <2> QED BY <2>2, <2>3
  <1>3. AtOrUnder(h, c)
    BY DEF StrictlyUnder
  <1>4. CASE r = h /\ \A m \in Moved(fin) : ~StrictlyUnder(m, h)
  <2>1. Rebase(c, h, h) = c
    BY <1>3, CarriedTwice
  <2> QED BY <1>2, <1>4, <2>1 DEF Carries
  <1>5. CASE \E j \in Moved(fin) : Nearest(fin, h, j) /\ r = Rebase(h, j, Home(t, base[j]))
  <2>1. PICK j \in Moved(fin) : Nearest(fin, h, j) /\ r = Rebase(h, j, Home(t, base[j]))
    BY <1>5
  <2>2. j \in DOMAIN base /\ j \in Paths
    BY <1>1
  <2>3. Home(t, base[j]) \in Paths
    BY <2>2, PlaceFacts
  <2>4. Nearest(fin, c, j)
    BY <1>2, <2>1 DEF Nearest
  <2>5. AtOrUnder(j, h) /\ AtOrUnder(j, c)
      <3>1. StrictlyUnder(j, h) /\ StrictlyUnder(j, c)
        BY <2>1, <2>4 DEF Nearest
      <3> QED BY <3>1 DEF StrictlyUnder
  <2>6. Rebase(c, h, r) = Rebase(c, j, Home(t, base[j]))
    BY <1>3, <2>1, <2>2, <2>3, <2>5, CarriedTwice
  <2> QED BY <2>4, <2>6 DEF Carries
  <1> QED BY <1>4, <1>5 DEF Carries

\* A row's target is where the run leaves its file.
LEMMA LandsResolve ==
    ASSUME job \in Jobs, Checked, Standing = Rows, TargetInv, LandsInv, DOMAIN lands = Rows,
           NEW t, Settled(Base, FinOf, t)
    PROVE  Resolved(Base, FinOf, t)
  <1> DEFINE Odd(i) == lands[i] # Home(t, Base[Source(i)])
             T == {n \in Nat : \E i \in Rows : Odd(i) /\ Len(Source(i)) = n}
  <1>1. /\ \A i \in Rows : Source(i) \in DOMAIN Base /\ FinOf[Source(i)] = To(i)
        /\ \A m \in Moved(FinOf) : m \in DOMAIN Base /\ \E i \in Mov : Source(i) = m
        /\ \A i \in Mov : Source(i) \in Moved(FinOf)
    BY FinFacts
  <1>2. \A i \in Rows : Source(i) \in Paths /\ job.names[i] # <<>> /\ To(i) \in Paths
    BY JobFacts, GoesThrough DEF Checked
  <1>3. \A i \in Rows : Len(Source(i)) \in Nat
    BY <1>2, PathFacts
  <1>4. SUFFICES ASSUME NEW i0 \in Rows, Odd(i0) PROVE FALSE
  <2>1. \A i \in Rows : target[i] = lands[i]
    BY DEF TargetInv
  <2> QED BY <1>1, <1>4, <2>1 DEF Resolved, Mov
  <1>5. \E n \in T : \A k \in T : n <= k
  <2>1. T \in SUBSET Nat /\ T # {}
    BY <1>3, <1>4
  <2> HIDE DEF T
  <2> QED BY <2>1, Least
  <1>6. PICK n \in T : \A k \in T : n <= k
    BY <1>5
  <1>7. PICK i \in Rows : Odd(i) /\ Len(Source(i)) = n
    BY <1>6
  <1>8. \A j \in Rows : Len(Source(j)) < Len(Source(i)) => ~Odd(j)
  <2> TAKE j \in Rows
  <2> HAVE Len(Source(j)) < Len(Source(i))
  <2> SUFFICES ASSUME Odd(j) PROVE FALSE
    OBVIOUS
  <2>1. Len(Source(j)) \in T
    BY <1>3
  <2>2. n <= Len(Source(j)) /\ n \in Nat
    BY <1>6, <2>1
  <2> QED BY <1>3, <1>7, <2>2
  <1> DEFINE c == To(i)
  <1>9. Carries(Base, FinOf, t, c, Home(t, Base[Source(i)]))
    BY <1>1, Rests
  <1>10. SUFFICES Carries(Base, FinOf, t, c, lands[i])
    BY <1>2, <1>7, <1>9, CarriesFacts
  <1>11. \A m \in Moved(FinOf) : StrictlyUnder(m, c) => \E k \in Mov : Source(k) = m /\ StrictlyUnder(m, Source(i))
  <2> TAKE m \in Moved(FinOf)
  <2> HAVE StrictlyUnder(m, c)
  <2>1. PICK k \in Mov : Source(k) = m
    BY <1>1
  <2>2. StrictlyUnder(Source(k), To(i)) <=> StrictlyUnder(Source(k), Source(i))
    BY GoesThrough
  <2> QED BY <2>1, <2>2
  <1> DEFINE above == {j \in Rows : StrictlyUnder(Source(j), Source(i))}
  <1>12. /\ above = {} => lands[i] = To(i)
         /\ above # {} => \E j \in above : /\ \A k \in above : Len(Source(k)) <= Len(Source(j))
                                           /\ lands[i] = Rebase(To(i), Source(j), lands[j])
    BY DEF LandsInv
  <1>13. CASE above = {}
  <2>1. \A m \in Moved(FinOf) : ~StrictlyUnder(m, c)
    BY <1>11, <1>13 DEF Mov
  <2> QED BY <1>12, <1>13, <2>1 DEF Carries
  <1>14. CASE above # {}
  <2>1. PICK j \in above : /\ \A k \in above : Len(Source(k)) <= Len(Source(j))
                           /\ lands[i] = Rebase(To(i), Source(j), lands[j])
    BY <1>12, <1>14
  <2>2. j \in Rows /\ StrictlyUnder(Source(j), Source(i))
    OBVIOUS
  <2>3. StrictlyUnder(Source(j), c)
    BY <1>2, <2>2, WayFacts
  <2>4. Len(Source(j)) < Len(Source(i))
    BY <1>2, <2>2, AboveFacts
  <2>5. lands[j] = Home(t, Base[Source(j)])
    BY <1>8, <2>2, <2>4
  <2>6. \A m \in Moved(FinOf) : StrictlyUnder(m, c) => Len(m) <= Len(Source(j))
    BY <1>11, <2>1 DEF Mov
  <2>7. CASE j \in Mov
      <3>1. Nearest(FinOf, c, Source(j))
        BY <1>1, <2>3, <2>6, <2>7 DEF Nearest
      <3>2. Source(j) \in Moved(FinOf)
        BY <1>1, <2>7
      <3> QED BY <2>1, <2>5, <3>1, <3>2 DEF Carries
  <2>8. CASE j \notin Mov
      <3>1. To(j) = Source(j)
        BY <2>2, <2>8 DEF Mov
      <3>2. Source(j) \notin Moved(FinOf)
        BY <1>1, <2>2, <3>1 DEF Moved
      <3>3. Carries(Base, FinOf, t, Source(j), lands[j])
        <4>1. Carries(Base, FinOf, t, FinOf[Source(j)], Home(t, Base[Source(j)]))
          BY <1>1, <2>2, Rests
        <4> QED BY <1>1, <2>2, <2>5, <3>1, <4>1
      <3>4. Source(j) \in Paths /\ c \in Paths
        BY <1>2, <2>2
      <3> HIDE DEF c
      <3>5. Carries(Base, FinOf, t, c, Rebase(c, Source(j), lands[j]))
        BY <2>3, <2>6, <3>2, <3>3, <3>4, CarriedThrough
      <3>6. lands[i] = Rebase(c, Source(j), lands[j])
        BY <2>1 DEF c
      <3> QED BY <3>5, <3>6
  <2> QED BY <2>7, <2>8
  <1> QED BY <1>13, <1>14

-----------------------------------------------------------------------------
(* The script's files.                                                     *)

\* Where a script may write there is its file when the renames are done, or
\* room for a new one.
LEMMA WriteFacts ==
    ASSUME job \in Jobs, Checked, NEW t, Settled(Base, FinOf, t), Resolved(Base, FinOf, t),
           NEW p \in Paths, MayAlone(p)
    PROVE  /\ Landing(p) \in Paths
           /\ p \in DOMAIN job.tree => /\ Landing(p) \in DOMAIN t /\ t[Landing(p)] = job.tree[p]
                                       /\ t[Landing(p)] \notin Dirs
           /\ p \notin DOMAIN job.tree => CanCreate(t, Landing(p))
  <1> DEFINE q == Landing(p)
  <1>1. /\ \A m \in Moved(FinOf) : m \in DOMAIN Base /\ \E i \in Mov : Source(i) = m
        /\ \A i \in Rows : Source(i) \in DOMAIN Base /\ FinOf[Source(i)] = To(i)
        /\ FinOf \in [DOMAIN Base -> Paths]
    BY FinFacts
  <1>2. p \notin Moved(FinOf)
    BY <1>1 DEF MayAlone
  <1>3. Carries(Base, FinOf, t, p, q)
  <2>1. Shaped(FinOf)
    BY FinFacts
  <2> QED BY <1>2, <2>1, LandingIsCarried
  <1> HIDE DEF q
  <1>4. q \in Paths
    BY <1>3, CarriesFacts, Zenon
  <1>5. /\ IsTree(Base)
        /\ \A z : z \in DOMAIN Base <=> z \in DOMAIN job.tree \/ Contains(wanted, z)
        /\ \A z \in DOMAIN job.tree : Base[z] = job.tree[z]
    BY BaseFacts
  <1>6. ASSUME p \in DOMAIN job.tree
        PROVE  q \in DOMAIN t /\ t[q] = job.tree[p] /\ t[q] \notin Dirs
  <2>1. p \in DOMAIN Base /\ Base[p] = job.tree[p]
    BY <1>5, <1>6
  <2>2. FinOf[p] = p
    BY <1>1, <1>2, <2>1 DEF Moved
  <2>3. Carries(Base, FinOf, t, p, Home(t, Base[p]))
      <3>1. Carries(Base, FinOf, t, FinOf[p], Home(t, Base[p]))
        BY <2>1, Rests
      <3> QED BY <2>2, <3>1
  <2>4. q = Home(t, Base[p])
    BY <1>3, <2>3, CarriesFacts
  <2>5. q \in DOMAIN t /\ t[q] = Base[p]
    BY <2>1, <2>4, PlaceFacts
  <2> QED BY <1>6, <2>1, <2>5 DEF MayAlone
  <1>7. ASSUME p \notin DOMAIN job.tree
        PROVE  CanCreate(t, q)
  <2>1. p \notin DOMAIN Base
    BY <1>5, <1>7 DEF MayAlone
  <2>2. Len(p) > 1 => Parent(p) \in DOMAIN Base /\ Base[Parent(p)] \in Dirs
      <3> SUFFICES ASSUME Len(p) > 1 PROVE Parent(p) \in DOMAIN Base /\ Base[Parent(p)] \in Dirs
        OBVIOUS
      <3>1. PICK i \in Rows : Parent(p) = Parent(Source(i))
        BY DEF MayAlone
      <3>2. Source(i) \in DOMAIN job.tree /\ Source(i) \in Paths /\ IsTree(job.tree)
        BY JobFacts
      <3>3. Len(Parent(p)) = Len(p) - 1 /\ Len(Parent(Source(i))) = Len(Source(i)) - 1
        BY <3>2, ParentIsSeq
      <3>4. Len(p) \in Nat /\ Len(Source(i)) \in Nat
        BY <3>2, PathFacts
      <3>5. Len(Source(i)) > 1
        BY <3>1, <3>3, <3>4
      <3>6. Parent(Source(i)) \in DOMAIN job.tree /\ job.tree[Parent(Source(i))] \in Dirs
        BY <3>2, <3>5, TreeFacts
      <3> QED BY <1>5, <3>1, <3>6
  <2>3. Len(p) > 1 /\ FinOf[Parent(p)] = Parent(p) =>
            Carries(Base, FinOf, t, Parent(p), Home(t, Base[Parent(p)]))
      <3> SUFFICES ASSUME Len(p) > 1, FinOf[Parent(p)] = Parent(p)
                   PROVE  Carries(Base, FinOf, t, Parent(p), Home(t, Base[Parent(p)]))
        OBVIOUS
      <3>1. Parent(p) \in DOMAIN Base
        BY <2>2
      <3>2. Carries(Base, FinOf, t, FinOf[Parent(p)], Home(t, Base[Parent(p)]))
        BY <3>1, Rests
      <3> QED BY <3>2
  <2>4. Len(p) > 1 => Parent(p) \in DOMAIN Base
    BY <2>2
  <2>5. /\ q[Len(q)] = p[Len(p)]
        /\ Len(q) > 1 => Len(p) > 1
        /\ Len(p) > 1 => /\ Len(q) > 1 /\ Parent(q) \in DOMAIN t
                         /\ t[Parent(q)] = Base[Parent(p)]
    BY <1>3, <2>3, <2>4, CarriedFolder
  <2>6. HasRoom(t, q)
    BY <2>2, <2>5 DEF HasRoom, Exists
  <2>7. ASSUME q \in DOMAIN t PROVE FALSE
      <3>1. PICK z \in DOMAIN Base :
               /\ Base[z] = t[q]
               /\ q[Len(q)] = FinOf[z][Len(FinOf[z])]
               /\ Len(q) > 1 => Len(FinOf[z]) > 1
               /\ Len(FinOf[z]) > 1 => /\ Len(q) > 1
                                       /\ Parent(FinOf[z]) \in DOMAIN Base
                                       /\ t[Parent(q)] = Base[Parent(FinOf[z])]
        BY <2>7 DEF Settled
      <3> DEFINE c == FinOf[z]
      <3>2. c \in Paths
        BY <1>1
      <3> HIDE DEF c
      <3>3. p[Len(p)] = c[Len(c)]
        BY <2>5, <3>1 DEF c
      <3>4. p = c
        <4>1. CASE Len(p) > 1
          <5>1. Len(c) > 1 /\ Parent(c) \in DOMAIN Base /\ Base[Parent(c)] = Base[Parent(p)]
            BY <2>5, <3>1, <4>1 DEF c
          <5>2. Parent(c) = Parent(p)
            BY <1>5, <2>4, <4>1, <5>1, TreeFacts
          <5> QED BY <3>2, <3>3, <4>1, <5>1, <5>2, SameParent
        <4>2. CASE ~(Len(p) > 1)
          <5>1. ~(Len(c) > 1)
            BY <2>5, <3>1, <4>2 DEF c
          <5> QED BY <3>2, <3>3, <4>2, <5>1, OneName
        <4> QED BY <4>1, <4>2
      <3>5. CASE z \in Moved(FinOf)
        <4>1. PICK i \in Mov : Source(i) = z
          BY <1>1, <3>5
        <4>2. p = To(i)
          BY <1>1, <3>4, <4>1 DEF c, Mov
        <4> QED BY <4>2 DEF MayAlone
      <3>6. CASE z \notin Moved(FinOf)
        <4>1. c = z
          BY <1>1, <3>6 DEF c, Moved
        <4> QED BY <2>1, <3>4, <4>1
      <3> QED BY <3>5, <3>6
  <2> QED BY <2>6, <2>7 DEF CanCreate, Exists
  <1> QED BY <1>4, <1>6, <1>7 DEF q

\* The files a script makes are none that were there, and no folders.
LEMMA NewFilesFacts ==
    ASSUME job \in Jobs, NEW n \in 1..Len(job.writes)
    PROVE  /\ job.writes[n] \in Paths
           /\ NewFiles[n] \in Files /\ NewFiles[n] \notin Dirs /\ NewFiles[n] \notin Strangers
           /\ NewFiles[n] \notin FilesIn(job.tree)
           /\ \A m \in 1..Len(job.writes) : NewFiles[m] = NewFiles[n] => m = n
  <1>1. /\ job.writes \in Seq(Paths) /\ Len(job.writes) <= Len(NewFiles)
        /\ FilesIn(job.tree) \cap (Range(NewDirs) \cup Range(NewFiles)) = {}
    BY JobFacts
  <1>2. NewFiles \in Seq(Files \ (Dirs \cup Strangers)) /\ IsInjective(NewFiles)
    BY ValuesAssumption
  <1>3. /\ Len(NewFiles) \in Nat /\ DOMAIN NewFiles = 1..Len(NewFiles)
        /\ \A m \in 1..Len(NewFiles) : NewFiles[m] \in Files \ (Dirs \cup Strangers)
    BY <1>2, LenProperties, ElementOfSeq
  <1>4. Len(job.writes) \in Nat /\ \A m \in 1..Len(job.writes) : job.writes[m] \in Paths
    BY <1>1, LenProperties, ElementOfSeq
  <1>5. \A m \in 1..Len(job.writes) : m \in 1..Len(NewFiles)
    BY <1>1, <1>3, <1>4
  <1>6. NewFiles[n] \in Range(NewFiles)
    BY <1>3, <1>5 DEF Range
  <1>7. \A m \in 1..Len(job.writes) : NewFiles[m] = NewFiles[n] => m = n
    BY <1>2, <1>3, <1>5 DEF IsInjective
  <1>8. NewFiles[n] \in Files \ (Dirs \cup Strangers)
    BY <1>3, <1>5
  <1> QED BY <1>1, <1>4, <1>6, <1>7, <1>8

\* The next of the script's files can be written, and the others are as they
\* were.
LEMMA WroteStep ==
    ASSUME job \in Jobs, Checked, NEW t, Settled(Base, FinOf, t), Resolved(Base, FinOf, t),
           WriteInv, ~Contains(landed, <<>>), Len(landed) = Len(job.writes),
           NEW m \in Nat, m + 1 \in 1..Len(job.writes), NEW u, Wrote(t, m, u)
    PROVE  /\ CanDo(Writing(m + 1), u)
           /\ Wrote(t, m + 1, TreeAfter(Writing(m + 1), u))
           /\ Writing(m + 1).kind = "overwrite" => Exists(u, Writing(m + 1).path)
  <1> DEFINE n == m + 1
             p == job.writes[n]
             q == Landing(p)
             o == Writing(n)
  <1>1. /\ p \in Paths
        /\ NewFiles[n] \in Files /\ NewFiles[n] \notin Dirs
        /\ NewFiles[n] \notin FilesIn(job.tree)
        /\ \A k \in 1..Len(job.writes) : NewFiles[k] = NewFiles[n] => k = n
    BY NewFilesFacts
  <1>2. /\ \A k \in 1..Len(job.writes) : landed[k] = Landing(job.writes[k]) /\ MayAlone(job.writes[k])
        /\ \A k, l \in 1..Len(job.writes) : landed[k] = landed[l] => k = l
    BY DEF WriteInv
  <1>3. landed[n] = q /\ MayAlone(p)
    BY <1>2
  <1>4. /\ q \in Paths
        /\ p \in DOMAIN job.tree => q \in DOMAIN t /\ t[q] \notin Dirs
        /\ p \notin DOMAIN job.tree => CanCreate(t, q)
    BY <1>1, <1>3, WriteFacts
  <1>5. /\ IsTree(u) /\ DOMAIN u = DOMAIN t \cup {landed[k] : k \in 1..m}
        /\ \A z \in DOMAIN t : u[z] = t[z]
        /\ \A z \in DOMAIN u : z \in DOMAIN t \/ \E k \in 1..m : u[z] = NewFiles[k]
    BY DEF Wrote
  <1>6. /\ o.kind = IF p \in DOMAIN job.tree THEN "overwrite" ELSE "write"
        /\ o.path = q /\ o.file = NewFiles[n] /\ o.text = "text"
    BY DEF Writing, Exists
  <1>7. /\ \A k \in 1..m : k \in 1..Len(job.writes) /\ k # n /\ k \in 1..n
        /\ \A k \in 1..n : k \in 1..m \/ k = n
        /\ n \in 1..n
  <2>1. Len(job.writes) \in Nat
    BY JobFacts, LenProperties
  <2> QED BY <2>1
  <1> HIDE DEF n, p, q, o
  <1>8. CASE p \in DOMAIN job.tree
  <2>1. o.kind = "overwrite" /\ Exists(u, q) /\ u[q] \notin Dirs
    BY <1>4, <1>5, <1>6, <1>8 DEF Exists
  <2>2. CanDo(o, u)
    BY <1>6, <2>1 DEF CanDo
  <2>3. TreeAfter(o, u) = u
    BY <1>6, <2>1 DEF TreeAfter, Creates
  <2>4. DOMAIN u = DOMAIN t \cup {landed[k] : k \in 1..n}
    BY <1>3, <1>4, <1>5, <1>7, <1>8
  <2>5. Wrote(t, n, u)
    BY <1>5, <1>7, <2>4 DEF Wrote
  <2> QED BY <1>6, <2>1, <2>2, <2>3, <2>5 DEF o, n
  <1>9. CASE p \notin DOMAIN job.tree
  <2>1. o.kind = "write" /\ q \notin DOMAIN t /\ HasRoom(t, q)
    BY <1>4, <1>6, <1>9 DEF CanCreate, Exists
  <2>2. q \notin DOMAIN u
    BY <1>2, <1>3, <1>5, <1>7, <2>1 DEF n
  <2>3. HasRoom(u, q)
    BY <1>5, <2>1 DEF HasRoom, Exists
  <2>4. CanCreate(u, q)
    BY <2>2, <2>3 DEF CanCreate, Exists
  <2>5. CanDo(o, u)
    BY <1>6, <2>1, <2>4 DEF CanDo, Creates
  <2>6. TreeAfter(o, u) = Created(u, q, NewFiles[n])
    BY <1>6, <2>1, <2>2 DEF TreeAfter, Creates, Exists
  <2>7. NewFiles[n] \notin FilesIn(u)
      <3> SUFFICES ASSUME NEW z \in DOMAIN u, u[z] = NewFiles[n] PROVE FALSE
        BY DEF FilesIn
      <3>1. CASE z \in DOMAIN t
        <4>5. FilesIn(t) = FilesIn(Base)
          BY DEF Settled
        <4>1. NewFiles[n] \in FilesIn(Base)
          <5>1. t[z] \in FilesIn(t) /\ t[z] = NewFiles[n]
            BY <1>5, <3>1 DEF FilesIn
          <5> QED BY <4>5, <5>1
        <4>2. PICK k \in 1..Len(wanted) : NewFiles[n] = NewDirs[wanted[k]]
          BY <1>1, <4>1, BaseFacts
        <4>3. NewDirs[wanted[k]] \in Dirs
          BY WantedFacts
        <4> QED BY <1>1, <4>2, <4>3
      <3>2. CASE \E k \in 1..m : u[z] = NewFiles[k]
        BY <1>1, <1>7, <3>2
      <3> QED BY <1>5, <3>1, <3>2
  <2> DEFINE v == Created(u, q, NewFiles[n])
  <2>8. IsTree(v)
    BY <1>1, <1>4, <1>5, <2>4, <2>7, CreatedIsTree
  <2>9. DOMAIN v = DOMAIN u \cup {q} /\ \A z \in DOMAIN v : v[z] = IF z = q THEN NewFiles[n] ELSE u[z]
    BY DEF Created
  <2> HIDE DEF v
  <2>10. DOMAIN v = DOMAIN t \cup {landed[k] : k \in 1..n}
    BY <1>3, <1>5, <1>7, <2>9
  <2>11. \A z \in DOMAIN t : v[z] = t[z]
    BY <1>5, <2>1, <2>9
  <2>12. \A z \in DOMAIN v : z \in DOMAIN t \/ \E k \in 1..n : v[z] = NewFiles[k]
    BY <1>5, <1>7, <2>9
  <2>13. Wrote(t, n, v)
    BY <2>8, <2>10, <2>11, <2>12 DEF Wrote
  <2>14. TreeAfter(o, u) = v
    BY <2>6 DEF v
  <2>15. CanDo(o, u) /\ Wrote(t, n, TreeAfter(o, u)) /\ o.kind # "overwrite"
    BY <2>1, <2>5, <2>13, <2>14
  <2> QED BY <2>15 DEF o, n
  <1> QED BY <1>8, <1>9

-----------------------------------------------------------------------------
(* The operations of a plan, kind by kind.                                 *)

\* Where each of two lists is in their concatenation.
LEMMA TwoJoined ==
    ASSUME NEW S, NEW a \in Seq(S), NEW b \in Seq(S)
    PROVE  /\ a \o b \in Seq(S) /\ Len(a) \in Nat /\ Len(b) \in Nat
           /\ Len(a \o b) = Len(a) + Len(b)
           /\ \A k \in 1..Len(a) : (a \o b)[k] = a[k]
           /\ \A k \in (Len(a) + 1)..(Len(a) + Len(b)) : (a \o b)[k] = b[k - Len(a)]
  <1>1. Len(a) \in Nat /\ Len(b) \in Nat
    BY LenProperties
  <1>2. /\ a \o b \in Seq(S) /\ Len(a \o b) = Len(a) + Len(b)
        /\ \A i \in 1..(Len(a) + Len(b)) : (a \o b)[i] = IF i <= Len(a) THEN a[i] ELSE b[i - Len(a)]
    BY ConcatProperties
  <1>3. ASSUME NEW k \in 1..Len(a) PROVE (a \o b)[k] = a[k]
  <2>1. k \in 1..(Len(a) + Len(b)) /\ k <= Len(a)
    BY <1>1
  <2> QED BY <1>2, <2>1
  <1>4. ASSUME NEW k \in (Len(a) + 1)..(Len(a) + Len(b)) PROVE (a \o b)[k] = b[k - Len(a)]
  <2>1. k \in 1..(Len(a) + Len(b)) /\ ~(k <= Len(a))
    BY <1>1
  <2> QED BY <1>2, <2>1
  <1> QED BY <1>1, <1>2, <1>3, <1>4

\* A function on the first numbers is a sequence.
LEMMA FunctionIsSeq ==
    ASSUME NEW n \in Nat, NEW S, NEW s \in [1..n -> S]
    PROVE  s \in Seq(S) /\ Len(s) = n
  <1>1. s \in Seq(S)
    BY SeqDef
  <1>2. Len(s) \in Nat /\ DOMAIN s = 1..Len(s)
    BY <1>1, LenProperties
  <1>3. DOMAIN s = 1..n
    OBVIOUS
  <1> DEFINE m == Len(s)
  <1> HIDE DEF m
  <1>4. m \in Nat /\ 1..m = 1..n
    BY <1>2, <1>3 DEF m
  <1>5. ASSUME m < n PROVE FALSE
  <2>1. n \in 1..n /\ n \notin 1..m
    BY <1>4, <1>5
  <2> QED BY <1>4, <2>1
  <1>6. ASSUME n < m PROVE FALSE
  <2>1. m \in 1..m /\ m \notin 1..n
    BY <1>4, <1>6
  <2> QED BY <1>4, <2>1
  <1>7. m = n
    BY <1>4, <1>5, <1>6
  <1> QED BY <1>1, <1>7 DEF m

\* The lists a plan is made of.
LEMMA ListsFacts ==
    ASSUME job \in Jobs, Checked, renames \in Seq(RenameOps)
    PROVE  /\ Len(CreateDirs) = A1 /\ Len(WOps) = Len(job.writes)
           /\ A1 \in Nat /\ Len(renames) \in Nat /\ Len(Acts) \in Nat /\ Len(job.writes) \in Nat
           /\ \A k \in 1..A1 : CreateDirs[k] = [kind |-> "mkdir", path |-> wanted[k],
                                                file |-> NewDirs[wanted[k]]]
           /\ \A k \in 1..Len(Acts) : /\ k \in Rows /\ job.dated
                                      /\ Acts[k] = [kind |-> "date", path |-> ActAt(k), value |-> 1]
           /\ \A k \in 1..Len(job.writes) : WOps[k] = Writing(k)
           /\ \E S : /\ CreateDirs \in Seq(S) /\ renames \in Seq(S)
                     /\ Acts \in Seq(S) /\ WOps \in Seq(S)
  <1> DEFINE Dated == [i \in Rows |-> [kind |-> "date", path |-> ActAt(i), value |-> 1]]
             S == RenameOps \cup {CreateDirs[n] : n \in 1..A1}
                     \cup {Dated[n] : n \in Rows} \cup {Writing(n) : n \in 1..Len(job.writes)}
  <1>1. DOMAIN wanted = 1..A1 /\ A1 \in Nat
    BY WantedFacts DEF A1
  <1>2. Len(job.writes) \in Nat /\ Rows = 1..Len(job.rows) /\ Len(job.rows) \in Nat
    BY JobFacts, LenProperties
  <1>3. Len(renames) \in Nat
    BY LenProperties
  <1>4. /\ CreateDirs \in Seq(S) /\ Len(CreateDirs) = A1
        /\ \A k \in 1..A1 : CreateDirs[k] = [kind |-> "mkdir", path |-> wanted[k],
                                             file |-> NewDirs[wanted[k]]]
  <2>1. CreateDirs = [n \in 1..A1 |-> [kind |-> "mkdir", path |-> wanted[n],
                                       file |-> NewDirs[wanted[n]]]]
    BY <1>1 DEF CreateDirs
  <2>2. DOMAIN CreateDirs = 1..A1 /\ \A n \in 1..A1 : CreateDirs[n] \in S
    BY <2>1
  <2>3. CreateDirs \in [1..A1 -> S]
      <3> HIDE DEF S
      <3>1. CreateDirs = [n \in 1..A1 |-> CreateDirs[n]]
        BY <2>1
      <3> QED BY <2>2, <3>1
  <2> HIDE DEF S
  <2> QED BY <1>1, <2>1, <2>3, FunctionIsSeq
  <1>5. /\ WOps \in Seq(S) /\ Len(WOps) = Len(job.writes)
        /\ \A k \in 1..Len(job.writes) : WOps[k] = Writing(k)
  <2>1. WOps = [n \in 1..Len(job.writes) |-> Writing(n)]
    BY DEF WOps
  <2>2. \A n \in 1..Len(job.writes) : Writing(n) \in S
    OBVIOUS
  <2> HIDE DEF S
  <2>4. WOps \in [1..Len(job.writes) -> S]
    BY <2>1, <2>2
  <2> QED BY <1>2, <2>1, <2>4, FunctionIsSeq
  <1>6. renames \in Seq(S)
  <2>1. RenameOps \subseteq S
    OBVIOUS
  <2>2. renames \in [1..Len(renames) -> RenameOps]
    BY LenProperties, ElementOfSeq
  <2> HIDE DEF S
  <2>3. renames \in [1..Len(renames) -> S]
    BY <2>1, <2>2
  <2> QED BY <1>3, <2>3, SeqDef
  <1>7. /\ Acts \in Seq(S) /\ Len(Acts) \in Nat
        /\ \A k \in 1..Len(Acts) : /\ k \in Rows /\ job.dated
                                   /\ Acts[k] = [kind |-> "date", path |-> ActAt(k), value |-> 1]
  <2>1. CASE job.dated
      <3>1. Acts = Dated
        BY <2>1 DEF Acts
      <3>2. DOMAIN Dated = 1..Len(job.rows) /\ \A n \in 1..Len(job.rows) : Dated[n] \in S
        BY <1>2
      <3>3. \A n \in Rows : Dated[n] = [kind |-> "date", path |-> ActAt(n), value |-> 1]
        OBVIOUS
      <3>4. Dated = [n \in 1..Len(job.rows) |-> Dated[n]]
        BY <1>2
      <3> HIDE DEF S, Dated
      <3>5. Dated \in [1..Len(job.rows) -> S]
        BY <3>2, <3>4
      <3>6. Len(Dated) = Len(job.rows) /\ Dated \in Seq(S)
        BY <1>2, <3>5, FunctionIsSeq
      <3> QED BY <1>2, <2>1, <3>1, <3>3, <3>6
  <2>2. CASE ~job.dated
      <3>1. Acts = <<>>
        BY <2>2 DEF Acts
      <3> HIDE DEF S
      <3>2. <<>> \in Seq(S) /\ Len(<<>>) = 0
        BY EmptySeq
      <3>3. \A k : k \notin 1..0
        OBVIOUS
      <3> QED BY <3>1, <3>2, <3>3
  <2> QED BY <2>1, <2>2
  <1> HIDE DEF S
  <1> QED BY <1>1, <1>2, <1>3, <1>4, <1>5, <1>6, <1>7

\* One length after another.
LEMMA NextLength ==
    ASSUME NEW a1 \in Nat, NEW x \in Nat, NEW a2, a2 = a1 + x
    PROVE  /\ a2 \in Nat /\ a1 <= a2
           /\ \A k \in 1..a1 : k \in 1..a2
           /\ \A k \in (a1 + 1)..a2 : k \in 1..a2 /\ k - a1 \in 1..x
  OBVIOUS

\* Which operation comes where.
LEMMA OpsFacts ==
    ASSUME job \in Jobs, Checked, renames \in Seq(RenameOps)
    PROVE  /\ A1 \in Nat /\ A2 \in Nat /\ A3 \in Nat /\ A4 \in Nat /\ A1 <= A2 /\ A2 <= A3 /\ A3 <= A4
           /\ A2 = A1 + Len(renames) /\ A4 = A3 + Len(job.writes) /\ Len(renames) \in Nat
           /\ Len(job.writes) \in Nat
           /\ Len(AllOps) = A4 /\ DOMAIN AllOps = 1..A4 /\ \E S : AllOps \in Seq(S)
           /\ \A k \in 1..A1 : AllOps[k] = [kind |-> "mkdir", path |-> wanted[k],
                                            file |-> NewDirs[wanted[k]]]
           /\ \A k \in (A1 + 1)..A2 : k - A1 \in 1..Len(renames) /\ AllOps[k] = renames[k - A1]
           /\ \A k \in (A2 + 1)..A3 : /\ k - A2 \in Rows /\ job.dated
                                      /\ AllOps[k] = [kind |-> "date", path |-> ActAt(k - A2), value |-> 1]
           /\ \A k \in (A3 + 1)..A4 : k - A3 \in 1..Len(job.writes) /\ AllOps[k] = Writing(k - A3)
  <1> DEFINE a == CreateDirs
             b == renames
             c == Acts
             d == WOps
             ab == a \o b
             abc == ab \o c
  <1>1. /\ Len(a) = A1 /\ Len(d) = Len(job.writes)
        /\ A1 \in Nat /\ Len(b) \in Nat /\ Len(c) \in Nat /\ Len(job.writes) \in Nat
        /\ \A k \in 1..A1 : a[k] = [kind |-> "mkdir", path |-> wanted[k],
                                    file |-> NewDirs[wanted[k]]]
        /\ \A k \in 1..Len(c) : /\ k \in Rows /\ job.dated
                                /\ c[k] = [kind |-> "date", path |-> ActAt(k), value |-> 1]
        /\ \A k \in 1..Len(job.writes) : d[k] = Writing(k)
        /\ \E S : a \in Seq(S) /\ b \in Seq(S) /\ c \in Seq(S) /\ d \in Seq(S)
    BY ListsFacts
  <1>2. AllOps = abc \o d
    BY DEF AllOps
  <1>3. A2 = A1 + Len(b) /\ A3 = A2 + Len(c) /\ A4 = A3 + Len(job.writes)
    BY DEF A2, A3, A4
  <1> HIDE DEF a, b, c, d, ab, abc, A1, A2, A3, A4
  <1>4. PICK S : a \in Seq(S) /\ b \in Seq(S) /\ c \in Seq(S) /\ d \in Seq(S)
    BY <1>1
  <1>5. /\ ab \in Seq(S) /\ Len(ab) = A2
        /\ \A k \in 1..A1 : ab[k] = a[k]
        /\ \A k \in (A1 + 1)..A2 : ab[k] = b[k - A1]
  <2>1. /\ a \o b \in Seq(S) /\ Len(a \o b) = Len(a) + Len(b)
        /\ \A k \in 1..Len(a) : (a \o b)[k] = a[k]
        /\ \A k \in (Len(a) + 1)..(Len(a) + Len(b)) : (a \o b)[k] = b[k - Len(a)]
    BY <1>4, TwoJoined
  <2> QED BY <1>1, <1>3, <2>1 DEF ab
  <1>6. /\ abc \in Seq(S) /\ Len(abc) = A3
        /\ \A k \in 1..A2 : abc[k] = ab[k]
        /\ \A k \in (A2 + 1)..A3 : abc[k] = c[k - A2]
  <2>1. /\ ab \o c \in Seq(S) /\ Len(ab \o c) = Len(ab) + Len(c)
        /\ \A k \in 1..Len(ab) : (ab \o c)[k] = ab[k]
        /\ \A k \in (Len(ab) + 1)..(Len(ab) + Len(c)) : (ab \o c)[k] = c[k - Len(ab)]
    BY <1>4, <1>5, TwoJoined
  <2> QED BY <1>3, <1>5, <2>1 DEF abc
  <1>7. /\ AllOps \in Seq(S) /\ Len(AllOps) = A4
        /\ \A k \in 1..A3 : AllOps[k] = abc[k]
        /\ \A k \in (A3 + 1)..A4 : AllOps[k] = d[k - A3]
  <2>1. /\ abc \o d \in Seq(S) /\ Len(abc \o d) = Len(abc) + Len(d)
        /\ \A k \in 1..Len(abc) : (abc \o d)[k] = abc[k]
        /\ \A k \in (Len(abc) + 1)..(Len(abc) + Len(d)) : (abc \o d)[k] = d[k - Len(abc)]
    BY <1>4, <1>6, TwoJoined
  <2> QED BY <1>1, <1>2, <1>3, <1>6, <2>1
  <1>19. /\ Len(d) = Len(job.writes) /\ A1 \in Nat /\ Len(b) \in Nat /\ Len(c) \in Nat
         /\ Len(job.writes) \in Nat
    BY <1>1
  <1>20. /\ A2 \in Nat /\ A1 <= A2
         /\ \A k \in 1..A1 : k \in 1..A2
         /\ \A k \in (A1 + 1)..A2 : k \in 1..A2 /\ k - A1 \in 1..Len(b)
    BY <1>3, <1>19, NextLength, Zenon
  <1>21. /\ A3 \in Nat /\ A2 <= A3
         /\ \A k \in 1..A2 : k \in 1..A3
         /\ \A k \in (A2 + 1)..A3 : k \in 1..A3 /\ k - A2 \in 1..Len(c)
  <2>1. A2 \in Nat /\ Len(c) \in Nat /\ A3 = A2 + Len(c)
    BY <1>3, <1>19, <1>20
  <2> QED BY <2>1, NextLength, Zenon
  <1>22. /\ A4 \in Nat /\ A3 <= A4
         /\ \A k \in 1..A3 : k \in 1..A4
         /\ \A k \in (A3 + 1)..A4 : k \in 1..A4 /\ k - A3 \in 1..Len(job.writes)
  <2> DEFINE x == Len(job.writes)
  <2>1. A3 \in Nat /\ x \in Nat /\ A4 = A3 + x
    BY <1>3, <1>19, <1>21
  <2> HIDE DEF x
  <2>2. /\ A4 \in Nat /\ A3 <= A4
        /\ \A k \in 1..A3 : k \in 1..A4
        /\ \A k \in (A3 + 1)..A4 : k \in 1..A4 /\ k - A3 \in 1..x
    BY <2>1, NextLength, Zenon
  <2> QED BY <2>2, Zenon DEF x
  <1>8. /\ A2 \in Nat /\ A3 \in Nat /\ A4 \in Nat /\ A1 <= A2 /\ A2 <= A3 /\ A3 <= A4
        /\ \A k \in 1..A1 : k \in 1..A2 /\ k \in 1..A3
        /\ \A k \in (A1 + 1)..A2 : k \in 1..A2 /\ k \in 1..A3 /\ k - A1 \in 1..Len(b)
        /\ \A k \in (A2 + 1)..A3 : k \in 1..A3 /\ k - A2 \in 1..Len(c)
        /\ \A k \in (A3 + 1)..A4 : k - A3 \in 1..Len(job.writes)
    BY <1>20, <1>21, <1>22, Zenon
  <1>9. ASSUME NEW k \in 1..A1 PROVE AllOps[k] = a[k]
  <2>1. k \in 1..A2 /\ k \in 1..A3
    BY <1>8
  <2> QED BY <1>5, <1>6, <1>7, <2>1
  <1>10. ASSUME NEW k \in (A1 + 1)..A2 PROVE k - A1 \in 1..Len(b) /\ AllOps[k] = b[k - A1]
  <2>1. k \in 1..A2 /\ k \in 1..A3 /\ k - A1 \in 1..Len(b)
    BY <1>8
  <2> QED BY <1>5, <1>6, <1>7, <2>1
  <1>11. ASSUME NEW k \in (A2 + 1)..A3 PROVE k - A2 \in 1..Len(c) /\ AllOps[k] = c[k - A2]
  <2>1. k \in 1..A3 /\ k - A2 \in 1..Len(c)
    BY <1>8
  <2> QED BY <1>6, <1>7, <2>1
  <1>12. ASSUME NEW k \in (A3 + 1)..A4 PROVE k - A3 \in 1..Len(job.writes) /\ AllOps[k] = d[k - A3]
  <2>1. k - A3 \in 1..Len(job.writes)
    BY <1>8
  <2> QED BY <1>7, <2>1
  <1>13. DOMAIN AllOps = 1..A4
    BY <1>7, LenProperties
  <1>14. \A k \in 1..A1 : AllOps[k] = [kind |-> "mkdir", path |-> wanted[k], file |-> NewDirs[wanted[k]]]
    BY <1>1, <1>9
  <1>15. \A k \in (A1 + 1)..A2 : k - A1 \in 1..Len(renames) /\ AllOps[k] = renames[k - A1]
    BY <1>10 DEF b
  <1>16. \A k \in (A2 + 1)..A3 : /\ k - A2 \in Rows /\ job.dated
                                 /\ AllOps[k] = [kind |-> "date", path |-> ActAt(k - A2), value |-> 1]
    BY <1>1, <1>11
  <1>17. \A k \in (A3 + 1)..A4 : k - A3 \in 1..Len(job.writes) /\ AllOps[k] = Writing(k - A3)
    BY <1>1, <1>12
  <1>18. A2 = A1 + Len(renames) /\ Len(renames) \in Nat
    BY <1>1, <1>3 DEF b
  <1> QED BY <1>1, <1>3, <1>7, <1>8, <1>13, <1>14, <1>15, <1>16, <1>17, <1>18

-----------------------------------------------------------------------------
(* The run.                                                                *)

\* A plan that is executable.
Runnable ==
    /\ Checked /\ Standing = Rows
    /\ SeqInv(renames, <<>>, Mov)
    /\ TargetInv /\ LandsInv /\ DOMAIN lands = Rows
    /\ WriteInv /\ ~Contains(landed, <<>>) /\ Len(landed) = Len(job.writes)

\* Its renames leave every file where the plan says.
LEMMA RenamesDone ==
    ASSUME job \in Jobs, Runnable, NEW t, RenInv(Base, renames, Len(renames), t)
    PROVE  /\ Settled(Base, FinOf, t) /\ Resolved(Base, FinOf, t)
           /\ Scheme(Base, renames) /\ renames \in Seq(RenameOps)
  <1>1. Checked /\ SeqInv(renames, <<>>, Mov)
    BY DEF Runnable
  <1>2. Settled(Base, FinOf, t)
    BY <1>1, PlanSettles
  <1>3. Standing = Rows /\ TargetInv /\ LandsInv /\ DOMAIN lands = Rows
    BY DEF Runnable
  <1>4. Resolved(Base, FinOf, t)
    BY <1>1, <1>2, <1>3, LandsResolve
  <1>5. Scheme(Base, renames)
    BY <1>1, PlanIsScheme
  <1>6. renames \in Seq(RenameOps)
    BY <1>1 DEF SeqInv
  <1> QED BY <1>2, <1>4, <1>5, <1>6

\* Where one kind of operation ends the next begins.
LEMMA TreeEdge ==
    ASSUME job \in Jobs, Runnable, NEW ts, NEW k \in 1..(A4 + 1),
           k <= A1 + 1 => ts[k] = Made(k - 1),
           k > A1 + 1 /\ k <= A2 + 1 => RenInv(Base, renames, k - (A1 + 1), ts[k]),
           k > A2 + 1 => IsTree(ts[A2 + 1]),
           k > A2 + 1 /\ k <= A3 + 1 => ts[k] = ts[A2 + 1],
           k > A3 + 1 => Wrote(ts[A2 + 1], k - (A3 + 1), ts[k])
    PROVE  TreeAt(ts, k)
  <1>1. Checked /\ renames \in Seq(RenameOps) /\ Scheme(Base, renames)
    BY PlanIsScheme DEF Runnable, SeqInv
  <1>2. A1 \in Nat /\ A2 \in Nat /\ A3 \in Nat /\ A4 \in Nat /\ A1 <= A2 /\ A2 <= A3 /\ A3 <= A4
    BY <1>1, OpsFacts
  <1>3. Base = Made(A1)
    BY DEF Base, A1
  <1>4. k \in Nat
    BY <1>2
  <1>5. k >= A1 + 1 /\ k <= A2 + 1 => RenInv(Base, renames, k - (A1 + 1), ts[k])
  <2> SUFFICES ASSUME k >= A1 + 1, k <= A2 + 1 PROVE RenInv(Base, renames, k - (A1 + 1), ts[k])
    OBVIOUS
  <2>1. CASE k = A1 + 1
      <3>1. k - 1 = A1 /\ k - (A1 + 1) = 0 /\ k <= A1 + 1
        BY <1>2, <2>1
      <3>2. ts[k] = Base
        BY <1>3, <3>1
      <3>3. RenInv(Base, renames, 0, Base)
        BY <1>1, RenStart
      <3> QED BY <3>1, <3>2, <3>3
  <2>2. CASE k # A1 + 1
      <3>1. k > A1 + 1
        BY <1>2, <1>4, <2>2
      <3> QED BY <3>1
  <2> QED BY <2>1, <2>2
  <1>6. k >= A2 + 1 /\ k <= A3 + 1 => ts[k] = ts[A2 + 1]
  <2> SUFFICES ASSUME k >= A2 + 1, k <= A3 + 1 PROVE ts[k] = ts[A2 + 1]
    OBVIOUS
  <2>1. CASE k = A2 + 1
    BY <2>1
  <2>2. CASE k # A2 + 1
      <3>1. k > A2 + 1
        BY <1>2, <1>4, <2>2
      <3> QED BY <3>1
  <2> QED BY <2>1, <2>2
  <1>7. k >= A3 + 1 => Wrote(ts[A2 + 1], k - (A3 + 1), ts[k])
  <2> SUFFICES ASSUME k >= A3 + 1 PROVE Wrote(ts[A2 + 1], k - (A3 + 1), ts[k])
    OBVIOUS
  <2>1. CASE k = A3 + 1
      <3>1. k - (A3 + 1) = 0 /\ k >= A2 + 1 /\ k <= A3 + 1
        BY <1>2, <2>1
      <3>2. ts[k] = ts[A2 + 1]
        BY <1>6, <3>1
      <3>3. IsTree(ts[A2 + 1])
        <4>1. CASE k > A2 + 1
          BY <4>1
        <4>2. CASE ~(k > A2 + 1)
          <5>1. k <= A2 + 1 /\ k >= A1 + 1
            BY <1>2, <1>4, <3>1, <4>2
          <5>2. RenInv(Base, renames, k - (A1 + 1), ts[k])
            BY <1>5, <5>1
          <5> QED BY <3>2, <5>2 DEF RenInv
        <4> QED BY <4>1, <4>2
      <3> DEFINE t == ts[A2 + 1]
      <3> HIDE DEF t
      <3>4. Wrote(t, 0, t)
        <4>1. \A n : n \notin 1..0
          OBVIOUS
        <4> QED BY <3>3, <4>1 DEF Wrote, t
      <3> QED BY <3>1, <3>2, <3>4 DEF t
  <2>2. CASE k # A3 + 1
      <3>1. k > A3 + 1
        BY <1>2, <1>4, <2>2
      <3> QED BY <3>1
  <2> QED BY <2>1, <2>2
  <1> QED BY <1>5, <1>6, <1>7 DEF TreeAt

\* Every operation finds what it needs, and leaves what the next one needs.
LEMMA TreeNext ==
    ASSUME job \in Jobs, Runnable, NEW ts, NEW k \in 1..A4, \A l \in 1..k : TreeAt(ts, l)
    PROVE  /\ CanDo(AllOps[k], ts[k])
           /\ AllOps[k].kind = "overwrite" => Exists(ts[k], AllOps[k].path)
           /\ ts[k + 1] = TreeAfter(AllOps[k], ts[k]) => TreeAt(ts, k + 1)
  <1> DEFINE o == AllOps[k]
             t == ts[k]
             B == ts[A2 + 1]
  <1>1. Checked /\ renames \in Seq(RenameOps) /\ Scheme(Base, renames)
    BY PlanIsScheme DEF Runnable, SeqInv
  <1>2. /\ A1 \in Nat /\ A2 \in Nat /\ A3 \in Nat /\ A4 \in Nat /\ A1 <= A2 /\ A2 <= A3 /\ A3 <= A4
        /\ A2 = A1 + Len(renames) /\ A4 = A3 + Len(job.writes) /\ Len(renames) \in Nat
        /\ Len(job.writes) \in Nat
    BY <1>1, OpsFacts
  <1>3. /\ \A n \in 1..A1 : AllOps[n] = [kind |-> "mkdir", path |-> wanted[n],
                                         file |-> NewDirs[wanted[n]]]
        /\ \A n \in (A1 + 1)..A2 : n - A1 \in 1..Len(renames) /\ AllOps[n] = renames[n - A1]
        /\ \A n \in (A2 + 1)..A3 : /\ n - A2 \in Rows /\ job.dated
                                   /\ AllOps[n] = [kind |-> "date", path |-> ActAt(n - A2), value |-> 1]
        /\ \A n \in (A3 + 1)..A4 : n - A3 \in 1..Len(job.writes) /\ AllOps[n] = Writing(n - A3)
    BY <1>1, OpsFacts
  <1>4. k \in Nat /\ k \in 1..k /\ k >= 1 /\ k <= A4 /\ k + 1 \in 1..(A4 + 1)
    BY <1>2
  <1>5. /\ k <= A1 + 1 => t = Made(k - 1)
        /\ k >= A1 + 1 /\ k <= A2 + 1 => RenInv(Base, renames, k - (A1 + 1), t)
        /\ k >= A2 + 1 /\ k <= A3 + 1 => t = B
        /\ k >= A3 + 1 => Wrote(B, k - (A3 + 1), t)
  <2>1. TreeAt(ts, k)
    BY <1>4
  <2> QED BY <2>1 DEF TreeAt
\* the volume when the renames are done
  <1>6. k > A2 => Settled(Base, FinOf, B) /\ Resolved(Base, FinOf, B) /\ IsTree(B)
  <2> SUFFICES ASSUME k > A2 PROVE Settled(Base, FinOf, B) /\ Resolved(Base, FinOf, B) /\ IsTree(B)
    OBVIOUS
  <2> DEFINE q == A2 + 1
  <2>1. q \in 1..k /\ q >= A1 + 1 /\ q <= A2 + 1 /\ q - (A1 + 1) = Len(renames)
    BY <1>2, <1>4
  <2>2. B = ts[q]
    OBVIOUS
  <2> HIDE DEF q, B
  <2>3. RenInv(Base, renames, q - (A1 + 1), B)
      <3>1. TreeAt(ts, q)
        BY <2>1
      <3>2. RenInv(Base, renames, q - (A1 + 1), ts[q])
        BY <2>1, <3>1 DEF TreeAt
      <3> QED BY <2>2, <3>2
  <2>4. RenInv(Base, renames, Len(renames), B)
    BY <2>1, <2>3
  <2>5. Settled(Base, FinOf, B) /\ Resolved(Base, FinOf, B)
    BY <2>4, RenamesDone
  <2> QED BY <2>4, <2>5 DEF RenInv
  <1> HIDE DEF o, t, B
  <1>7. k \in 1..A1 \/ k \in (A1 + 1)..A2 \/ k \in (A2 + 1)..A3 \/ k \in (A3 + 1)..A4
    BY <1>2, <1>4
  <1> DEFINE K == k + 1
  <1>8. SUFFICES ASSUME TRUE
                 PROVE  /\ CanDo(o, t)
                        /\ o.kind = "overwrite" => Exists(t, o.path)
                        /\ ts[K] = TreeAfter(o, t) =>
                              /\ K <= A1 + 1 => ts[K] = Made(K - 1)
                              /\ K > A1 + 1 /\ K <= A2 + 1 => RenInv(Base, renames, K - (A1 + 1), ts[K])
                              /\ K > A2 + 1 => IsTree(B)
                              /\ K > A2 + 1 /\ K <= A3 + 1 => ts[K] = B
                              /\ K > A3 + 1 => Wrote(B, K - (A3 + 1), ts[K])
  <2>1. K \in 1..(A4 + 1)
    BY <1>4
  <2> HIDE DEF K
  <2>2. ts[K] = TreeAfter(o, t) => TreeAt(ts, K)
      <3> SUFFICES ASSUME ts[K] = TreeAfter(o, t) PROVE TreeAt(ts, K)
        OBVIOUS
      <3>1. /\ K <= A1 + 1 => ts[K] = Made(K - 1)
            /\ K > A1 + 1 /\ K <= A2 + 1 => RenInv(Base, renames, K - (A1 + 1), ts[K])
            /\ K > A2 + 1 => IsTree(ts[A2 + 1])
            /\ K > A2 + 1 /\ K <= A3 + 1 => ts[K] = ts[A2 + 1]
            /\ K > A3 + 1 => Wrote(ts[A2 + 1], K - (A3 + 1), ts[K])
        BY <1>8 DEF B
      <3> QED BY <2>1, <3>1, TreeEdge, Zenon
  <2> QED BY <1>8, <2>2 DEF o, t, K
  <1>9. CASE k \in 1..A1
  <2> DEFINE m == k - 1
  <2>1. m \in Nat /\ m + 1 = k /\ m + 1 \in 1..Len(wanted) /\ k <= A1 + 1 /\ K - 1 = k /\ m = k - 1
    BY <1>2, <1>4, <1>9 DEF A1
  <2>2. K <= A1 + 1 /\ ~(K > A1 + 1) /\ ~(K > A2 + 1) /\ ~(K > A3 + 1)
    BY <1>2, <1>4, <1>9
  <2> HIDE DEF m, K
  <2>3. /\ CanCreate(Made(m), wanted[m + 1])
        /\ Made(m + 1) = Created(Made(m), wanted[m + 1], NewDirs[wanted[m + 1]])
    BY <1>1, <2>1, MadeStep
  <2>4. o.kind = "mkdir" /\ o.path = wanted[k] /\ o.file = NewDirs[wanted[k]] /\ t = Made(m)
      <3>1. o = [kind |-> "mkdir", path |-> wanted[k], file |-> NewDirs[wanted[k]]]
        BY <1>3, <1>9 DEF o
      <3>2. t = Made(k - 1)
        BY <1>5, <2>1
      <3>3. k - 1 = m
        BY <2>1
      <3> QED BY <3>1, <3>2, <3>3
  <2>5. CanCreate(t, o.path) /\ Made(k) = Created(t, o.path, o.file)
      <3>1. m + 1 = k
        BY <2>1
      <3> QED BY <2>3, <2>4, <3>1
  <2>6. CanDo(o, t)
    BY <2>4, <2>5 DEF CanDo, Creates
  <2>7. TreeAfter(o, t) = Made(k)
    BY <2>4, <2>5 DEF TreeAfter, Creates, CanCreate
  <2>8. o.kind # "overwrite"
    BY <2>4
  <2> QED BY <2>1, <2>2, <2>6, <2>7, <2>8
  <1>10. CASE k \in (A1 + 1)..A2
  <2> DEFINE m == k - (A1 + 1)
  <2>1. /\ m \in Nat /\ m + 1 = k - A1 /\ m + 1 \in 1..Len(renames) /\ k >= A1 + 1 /\ k <= A2 + 1
        /\ K - (A1 + 1) = m + 1
    BY <1>2, <1>4, <1>10
  <2>2. ~(K <= A1 + 1) /\ ~(K > A2 + 1) /\ ~(K > A3 + 1)
    BY <1>2, <1>4, <1>10
  <2>3. RenInv(Base, renames, m, t)
    BY <1>5, <2>1
  <2>4. o = renames[m + 1]
    BY <1>3, <1>10, <2>1 DEF o
  <2> HIDE DEF m, K
  <2>5. /\ CanRename(t, renames[m + 1].from, renames[m + 1].to)
        /\ RenInv(Base, renames, m + 1, Renamed(t, renames[m + 1].from, renames[m + 1].to))
    BY <1>1, <2>1, <2>3, RenCan, RenStep
  <2>6. o.kind = "rename"
      <3>1. renames[m + 1] \in RenameOps
        BY <1>1, <2>1, ElementOfSeq
      <3> QED BY <2>4, <3>1 DEF RenameOps
  <2>7. CanDo(o, t)
    BY <2>4, <2>5, <2>6 DEF CanDo
  <2>8. TreeAfter(o, t) = Renamed(t, o.from, o.to)
    BY <2>6 DEF TreeAfter
  <2>9. RenInv(Base, renames, K - (A1 + 1), TreeAfter(o, t))
    BY <2>1, <2>4, <2>5, <2>8
  <2>10. o.kind # "overwrite"
    BY <2>6
  <2> QED BY <2>2, <2>7, <2>9, <2>10
  <1>11. CASE k \in (A2 + 1)..A3
  <2>1. k > A2 /\ k >= A2 + 1 /\ k <= A3 + 1
    BY <1>2, <1>4, <1>11
  <2>2. ~(K <= A1 + 1) /\ ~(K <= A2 + 1) /\ ~(K > A3 + 1)
    BY <1>2, <1>4, <1>11
  <2> DEFINE i == k - A2
  <2>3. i \in Rows /\ o = [kind |-> "date", path |-> ActAt(i), value |-> 1]
    BY <1>3, <1>11 DEF o
  <2> HIDE DEF i, K
  <2>4. t = B /\ Settled(Base, FinOf, B) /\ Resolved(Base, FinOf, B) /\ IsTree(B)
    BY <1>5, <1>6, <2>1
  <2>5. ActAt(i) \in DOMAIN B
      <3>1. Source(i) \in DOMAIN Base /\ target[i] = Home(B, Base[Source(i)]) /\ Standing = Rows
        BY <2>3, <2>4 DEF Resolved
      <3>2. target[i] \in DOMAIN B
        BY <2>4, <3>1, PlaceFacts
      <3> QED BY <2>3, <3>1, <3>2 DEF ActAt
  <2>6. o.kind = "date" /\ o.path = ActAt(i)
    BY <2>3
  <2>7. CanDo(o, t)
    BY <2>4, <2>5, <2>6 DEF CanDo, Exists
  <2>8. TreeAfter(o, t) = B
    BY <2>4, <2>6 DEF TreeAfter, Creates
  <2>9. o.kind # "overwrite"
    BY <2>6
  <2> QED BY <2>2, <2>4, <2>7, <2>8, <2>9
  <1>12. CASE k \in (A3 + 1)..A4
  <2> DEFINE m == k - (A3 + 1)
  <2>1. /\ m \in Nat /\ m + 1 = k - A3 /\ m + 1 \in 1..Len(job.writes) /\ k >= A3 + 1 /\ k > A2
        /\ K - (A3 + 1) = m + 1
    BY <1>2, <1>4, <1>12
  <2>2. ~(K <= A1 + 1) /\ ~(K <= A2 + 1) /\ ~(K <= A3 + 1)
    BY <1>2, <1>4, <1>12
  <2>3. Wrote(B, m, t)
    BY <1>5, <2>1
  <2>4. o = Writing(m + 1)
    BY <1>3, <1>12, <2>1 DEF o
  <2> HIDE DEF m, K
  <2>5. Settled(Base, FinOf, B) /\ Resolved(Base, FinOf, B) /\ IsTree(B)
    BY <1>6, <2>1
  <2>6. WriteInv /\ ~Contains(landed, <<>>) /\ Len(landed) = Len(job.writes)
    BY DEF Runnable
  <2>7. /\ CanDo(Writing(m + 1), t)
        /\ Wrote(B, m + 1, TreeAfter(Writing(m + 1), t))
        /\ Writing(m + 1).kind = "overwrite" => Exists(t, Writing(m + 1).path)
    BY <1>1, <2>1, <2>3, <2>5, <2>6, WroteStep
  <2> QED BY <2>1, <2>2, <2>4, <2>5, <2>7
  <1> QED BY <1>7, <1>9, <1>10, <1>11, <1>12

\* What each operation of a plan is.
LEMMA OpKinds ==
    ASSUME job \in Jobs, Runnable, NEW k \in 1..A4
    PROVE  \/ /\ k \in 1..A1 /\ AllOps[k].kind = "mkdir" /\ Creates(AllOps[k])
              /\ Phase(AllOps[k]) = 1
              /\ AllOps[k].path = wanted[k] /\ AllOps[k].file = NewDirs[wanted[k]]
           \/ /\ k \in (A1 + 1)..A2 /\ AllOps[k].kind = "rename" /\ ~Creates(AllOps[k])
              /\ Phase(AllOps[k]) = 2
           \/ /\ k \in (A2 + 1)..A3 /\ AllOps[k].kind = "date" /\ ~Creates(AllOps[k])
              /\ Phase(AllOps[k]) = 3
           \/ /\ k \in (A3 + 1)..A4 /\ k - A3 \in 1..Len(job.writes)
              /\ AllOps[k].kind = "write" \/ AllOps[k].kind = "overwrite"
              /\ Creates(AllOps[k]) /\ Phase(AllOps[k]) = 4
              /\ AllOps[k].path = landed[k - A3] /\ AllOps[k].file = NewFiles[k - A3]
  <1> DEFINE o == AllOps[k]
  <1>1. Checked /\ renames \in Seq(RenameOps)
    BY DEF Runnable, SeqInv
  <1>2. /\ A1 \in Nat /\ A2 \in Nat /\ A3 \in Nat /\ A4 \in Nat /\ A1 <= A2 /\ A2 <= A3 /\ A3 <= A4
    BY <1>1, OpsFacts
  <1>3. /\ \A n \in 1..A1 : AllOps[n] = [kind |-> "mkdir", path |-> wanted[n],
                                         file |-> NewDirs[wanted[n]]]
        /\ \A n \in (A1 + 1)..A2 : n - A1 \in 1..Len(renames) /\ AllOps[n] = renames[n - A1]
        /\ \A n \in (A2 + 1)..A3 : /\ n - A2 \in Rows /\ job.dated
                                   /\ AllOps[n] = [kind |-> "date", path |-> ActAt(n - A2), value |-> 1]
        /\ \A n \in (A3 + 1)..A4 : n - A3 \in 1..Len(job.writes) /\ AllOps[n] = Writing(n - A3)
    BY <1>1, OpsFacts
  <1>4. k \in 1..A1 \/ k \in (A1 + 1)..A2 \/ k \in (A2 + 1)..A3 \/ k \in (A3 + 1)..A4
    BY <1>2
  <1> HIDE DEF o
  <1>5. CASE k \in 1..A1
  <2>1. o = [kind |-> "mkdir", path |-> wanted[k], file |-> NewDirs[wanted[k]]]
    BY <1>3, <1>5 DEF o
  <2>2. o.kind = "mkdir" /\ o.path = wanted[k] /\ o.file = NewDirs[wanted[k]]
    BY <2>1
  <2>3. Creates(o) /\ Phase(o) = 1
    BY <2>2 DEF Creates, Phase
  <2> QED BY <1>5, <2>2, <2>3 DEF o
  <1>6. CASE k \in (A1 + 1)..A2
  <2>1. k - A1 \in 1..Len(renames) /\ o = renames[k - A1]
    BY <1>3, <1>6 DEF o
  <2>2. o \in RenameOps
    BY <1>1, <2>1, ElementOfSeq
  <2>3. o.kind = "rename"
    BY <2>2 DEF RenameOps
  <2>4. ~Creates(o) /\ Phase(o) = 2
    BY <2>3 DEF Creates, Phase
  <2> QED BY <1>6, <2>3, <2>4 DEF o
  <1>7. CASE k \in (A2 + 1)..A3
  <2>1. o.kind = "date"
      <3>1. o = [kind |-> "date", path |-> ActAt(k - A2), value |-> 1]
        BY <1>3, <1>7, Zenon DEF o
      <3> QED BY <3>1
  <2>2. ~Creates(o) /\ Phase(o) = 3
    BY <2>1 DEF Creates, Phase
  <2> QED BY <1>7, <2>1, <2>2 DEF o
  <1>8. CASE k \in (A3 + 1)..A4
  <2> DEFINE n == k - A3
  <2>1. n \in 1..Len(job.writes) /\ o = Writing(n)
    BY <1>3, <1>8 DEF o
  <2> HIDE DEF n
  <2>2. /\ o.kind = "write" \/ o.kind = "overwrite"
        /\ o.path = Landing(job.writes[n]) /\ o.file = NewFiles[n]
    BY <2>1 DEF Writing
  <2>3. landed[n] = Landing(job.writes[n])
    BY <2>1 DEF Runnable, WriteInv
  <2>4. Creates(o) /\ Phase(o) = 4
    BY <2>2 DEF Creates, Phase
  <2> QED BY <1>8, <2>1, <2>2, <2>3, <2>4 DEF o, n
  <1> QED BY <1>4, <1>5, <1>6, <1>7, <1>8

\* The volume is a volume all the way.
LEMMA TreeAtIsTree ==
    ASSUME job \in Jobs, Runnable, NEW ts, NEW k \in 1..(A4 + 1), TreeAt(ts, k),
           TreeAt(ts, A2 + 1)
    PROVE  IsTree(ts[k])
  <1>1. Checked /\ renames \in Seq(RenameOps)
    BY DEF Runnable, SeqInv
  <1>2. /\ A1 \in Nat /\ A2 \in Nat /\ A3 \in Nat /\ A4 \in Nat /\ A1 <= A2 /\ A2 <= A3 /\ A3 <= A4
    BY <1>1, OpsFacts
  <1> DEFINE q == A2 + 1
  <1>3. q >= A1 + 1 /\ q <= A2 + 1 /\ TreeAt(ts, q) /\ ts[A2 + 1] = ts[q]
    BY <1>2
  <1> HIDE DEF q
  <1>4. RenInv(Base, renames, q - (A1 + 1), ts[q])
    BY <1>3 DEF TreeAt
  <1>5. IsTree(ts[A2 + 1])
    BY <1>3, <1>4 DEF RenInv
  <1>6. k <= A1 + 1 \/ (k >= A1 + 1 /\ k <= A2 + 1) \/ (k >= A2 + 1 /\ k <= A3 + 1) \/ k >= A3 + 1
    BY <1>2
  <1>7. CASE k <= A1 + 1
  <2>1. ts[k] = Made(k - 1)
    BY <1>7 DEF TreeAt
  <2>2. k - 1 \in 0..Len(wanted)
    BY <1>2, <1>7 DEF A1
  <2> QED BY <1>1, <2>1, <2>2, MadeIsTree
  <1>8. CASE k >= A1 + 1 /\ k <= A2 + 1
  <2>1. RenInv(Base, renames, k - (A1 + 1), ts[k])
    BY <1>8 DEF TreeAt
  <2> QED BY <2>1 DEF RenInv
  <1>9. CASE k >= A2 + 1 /\ k <= A3 + 1
    BY <1>5, <1>9 DEF TreeAt
  <1>10. CASE k >= A3 + 1
  <2>1. Wrote(ts[A2 + 1], k - (A3 + 1), ts[k])
    BY <1>10 DEF TreeAt
  <2> QED BY <2>1 DEF Wrote
  <1> QED BY <1>6, <1>7, <1>8, <1>9, <1>10

\* The operations are such as the executor takes.
LEMMA OpsAreOps ==
    ASSUME job \in Jobs, Runnable, NEW t, Settled(Base, FinOf, t), Resolved(Base, FinOf, t)
    PROVE  AllOps \in Seq(Ops)
  <1>1. Checked /\ renames \in Seq(RenameOps)
    BY DEF Runnable, SeqInv
  <1>2. /\ A1 \in Nat /\ A2 \in Nat /\ A3 \in Nat /\ A4 \in Nat
        /\ Len(AllOps) = A4 /\ DOMAIN AllOps = 1..A4 /\ \E S : AllOps \in Seq(S)
    BY <1>1, OpsFacts
  <1>3. /\ \A n \in 1..A1 : AllOps[n] = [kind |-> "mkdir", path |-> wanted[n],
                                         file |-> NewDirs[wanted[n]]]
        /\ \A n \in (A1 + 1)..A2 : n - A1 \in 1..Len(renames) /\ AllOps[n] = renames[n - A1]
        /\ \A n \in (A2 + 1)..A3 : /\ n - A2 \in Rows /\ job.dated
                                   /\ AllOps[n] = [kind |-> "date", path |-> ActAt(n - A2), value |-> 1]
        /\ \A n \in (A3 + 1)..A4 : n - A3 \in 1..Len(job.writes) /\ AllOps[n] = Writing(n - A3)
    BY <1>1, OpsFacts
  <1>4. ASSUME NEW k \in 1..A4
        PROVE  AllOps[k] \in Ops
  <2> DEFINE o == AllOps[k]
  <2>1. k \in 1..A1 \/ k \in (A1 + 1)..A2 \/ k \in (A2 + 1)..A3 \/ k \in (A3 + 1)..A4
    BY OpKinds
  <2> HIDE DEF o
  <2>2. CASE k \in 1..A1
      <3>1. o = [kind |-> "mkdir", path |-> wanted[k], file |-> NewDirs[wanted[k]]]
        BY <1>3, <2>2 DEF o
      <3>2. k \in 1..Len(wanted)
        BY <2>2 DEF A1
      <3>3. wanted[k] \in Paths /\ NewDirs[wanted[k]] \in Dirs
        BY <1>1, <3>2, WantedFacts
      <3>4. o \in [kind : {"mkdir"}, path : Paths, file : Dirs]
        BY <3>1, <3>3
      <3> QED BY <3>4 DEF o, Ops
  <2>3. CASE k \in (A1 + 1)..A2
      <3>1. k - A1 \in 1..Len(renames) /\ o = renames[k - A1]
        BY <1>3, <2>3 DEF o
      <3>2. o \in [kind : {"rename"}, from : Paths, to : Paths]
        BY <1>1, <3>1, ElementOfSeq DEF RenameOps
      <3> QED BY <3>2 DEF o, Ops
  <2>4. CASE k \in (A2 + 1)..A3
      <3> DEFINE i == k - A2
      <3>1. i \in Rows /\ o = [kind |-> "date", path |-> ActAt(i), value |-> 1]
        BY <1>3, <2>4 DEF o
      <3> HIDE DEF i
      <3>2. Source(i) \in DOMAIN Base /\ target[i] = Home(t, Base[Source(i)]) /\ Standing = Rows
        BY <3>1 DEF Resolved
      <3>3. ActAt(i) \in Paths
        BY <3>1, <3>2, PlaceFacts DEF ActAt
      <3>4. 1 \in Dates
        BY ValuesAssumption
      <3>5. o \in [kind : {"date"}, path : Paths, value : Dates]
        BY <3>1, <3>3, <3>4
      <3> QED BY <3>5 DEF o, Ops
  <2>5. CASE k \in (A3 + 1)..A4
      <3> DEFINE n == k - A3
      <3>1. n \in 1..Len(job.writes) /\ o = Writing(n)
        BY <1>3, <2>5 DEF o
      <3> HIDE DEF n
      <3>2. job.writes[n] \in Paths /\ NewFiles[n] \in Files \ Dirs
        BY <3>1, NewFilesFacts
      <3>3. MayAlone(job.writes[n])
        BY <3>1 DEF Runnable, WriteInv
      <3>4. Landing(job.writes[n]) \in Paths
        BY <1>1, <3>2, <3>3, WriteFacts
      <3>5. "text" \in Texts
        BY ValuesAssumption
      <3>6. o \in [kind : {"write", "overwrite"}, path : Paths, file : Files \ Dirs, text : Texts]
        BY <3>1, <3>2, <3>4, <3>5 DEF Writing
      <3> QED BY <3>6 DEF o, Ops
  <2> QED BY <2>1, <2>2, <2>3, <2>4, <2>5 DEF o
  <1>5. AllOps = [k \in 1..A4 |-> AllOps[k]]
  <2>1. PICK S : AllOps \in Seq(S)
    BY <1>2
  <2>2. AllOps \in [1..Len(AllOps) -> S]
    BY <2>1, LenProperties
  <2> QED BY <1>2, <2>2
  <1>6. AllOps \in [1..A4 -> Ops]
    BY <1>4, <1>5
  <1> QED BY <1>2, <1>6, FunctionIsSeq

\* A run that is over went through the tree its renames made, in which its
\* actions were carried out, and to which a script's files were added.
LEMMA RunOver ==
    ASSUME job \in Jobs, Runnable, RunInv, Carried
    PROVE  /\ Settled(Base, FinOf, trees[A2 + 1]) /\ Resolved(Base, FinOf, trees[A2 + 1])
           /\ Wrote(trees[A2 + 1], Len(job.writes), Now)
           /\ \A k \in 1..(A4 + 1) : TreeAt(trees, k)
           /\ ops = AllOps
  <1>1. Checked /\ renames \in Seq(RenameOps)
    BY DEF Runnable, SeqInv
  <1>2. /\ A1 \in Nat /\ A2 \in Nat /\ A3 \in Nat /\ A4 \in Nat /\ A1 <= A2 /\ A2 <= A3 /\ A3 <= A4
        /\ A4 = A3 + Len(job.writes) /\ A2 = A1 + Len(renames) /\ Len(renames) \in Nat
        /\ Len(AllOps) = A4
    BY <1>1, OpsFacts
  <1>3. /\ ops = AllOps /\ Len(trees) \in 1..(A4 + 1)
        /\ \A k \in 1..Len(trees) : TreeAt(trees, k)
    BY DEF RunInv
  <1>4. Now = trees[Len(trees)]
    BY DEF Now, Last
  <1> DEFINE l == Len(trees)
  <1> HIDE DEF l
  <1>5. l = A4 + 1
    BY <1>2, <1>3 DEF l, Carried
  <1>6. \A k \in 1..(A4 + 1) : TreeAt(trees, k)
    BY <1>3, <1>5 DEF l
  <1> DEFINE B == trees[A2 + 1]
  <1>7. Settled(Base, FinOf, B) /\ Resolved(Base, FinOf, B)
  <2> DEFINE q == A2 + 1
  <2>1. q \in 1..(A4 + 1) /\ q >= A1 + 1 /\ q <= A2 + 1 /\ q - (A1 + 1) = Len(renames)
    BY <1>2
  <2>2. B = trees[q]
    OBVIOUS
  <2> HIDE DEF q, B
  <2>3. TreeAt(trees, q)
    BY <1>6, <2>1
  <2>4. RenInv(Base, renames, q - (A1 + 1), trees[q])
    BY <2>1, <2>3 DEF TreeAt
  <2> QED BY <2>1, <2>2, <2>4, RenamesDone
  <1> HIDE DEF B
  <1>8. Wrote(B, Len(job.writes), Now)
  <2> DEFINE q == A4 + 1
  <2>1. q \in 1..(A4 + 1) /\ q >= A3 + 1 /\ q - (A3 + 1) = Len(job.writes) /\ Len(trees) = q
      <3>1. Len(job.writes) \in Nat
        BY JobFacts, LenProperties
      <3> QED BY <1>2, <1>5, <3>1 DEF l
  <2> HIDE DEF q
  <2>2. TreeAt(trees, q)
    BY <1>6, <2>1
  <2>3. Wrote(trees[A2 + 1], q - (A3 + 1), trees[q])
    BY <2>1, <2>2 DEF TreeAt
  <2> QED BY <1>4, <2>1, <2>3 DEF B
  <1> QED BY <1>3, <1>7, <1>8, <1>6 DEF B

\* In a run that is going on, or over, every operation can be done, and in
\* the end the plan is what the executor takes for granted.
LEMMA RunSound ==
    ASSUME job \in Jobs, Runnable, RunInv, pc = "run"
    PROVE  PlanIsSound /\ PreviewIsTrue
  <1>1. Checked /\ renames \in Seq(RenameOps)
    BY DEF Runnable, SeqInv
  <1>2. /\ A1 \in Nat /\ A2 \in Nat /\ A3 \in Nat /\ A4 \in Nat /\ A1 <= A2 /\ A2 <= A3 /\ A3 <= A4
        /\ A4 = A3 + Len(job.writes) /\ A2 = A1 + Len(renames) /\ Len(renames) \in Nat
        /\ Len(AllOps) = A4
    BY <1>1, OpsFacts
  <1>3. /\ ops = AllOps
        /\ trees \in Seq(Range(trees)) /\ dates \in Seq([Files -> Dates])
        /\ Len(trees) \in 1..(A4 + 1) /\ Len(dates) = Len(trees)
        /\ \A k \in 1..Len(trees) : TreeAt(trees, k)
        /\ \A k \in 1..(Len(trees) - 1) :
              /\ trees[k + 1] = TreeAfter(ops[k], trees[k])
              /\ dates[k + 1] = DateAfter(ops[k], trees[k], dates[k])
    BY DEF RunInv
  <1>4. Now = trees[Len(trees)]
    BY DEF Now, Last
  <1> DEFINE l == Len(trees)
  <1> HIDE DEF l
  <1>5. ASSUME NEW k \in 1..A4, k <= l
        PROVE  /\ CanDo(ops[k], trees[k])
               /\ ops[k].kind = "overwrite" => Exists(trees[k], ops[k].path)
  <2>1. \A n \in 1..k : n \in 1..l
    BY <1>2, <1>3, <1>5 DEF l
  <2>2. \A n \in 1..k : TreeAt(trees, n)
    BY <1>3, <2>1 DEF l
  <2> QED BY <1>3, <2>2, TreeNext
  <1>6. Goes \/ Carried
  <2>1. CASE l = A4 + 1
    BY <1>2, <1>3, <2>1 DEF l, Carried
  <2>2. CASE l # A4 + 1
      <3>1. l \in 1..A4 /\ l <= l
        BY <1>2, <1>3, <2>2 DEF l
      <3>2. CanDo(ops[l], trees[l])
        BY <1>5, <3>1
      <3>3. l <= Len(ops)
        BY <1>2, <1>3, <3>1
      <3> QED BY <1>4, <3>2, <3>3 DEF l, Goes
  <2> QED BY <2>1, <2>2
\* the run is over
  <1>7. SUFFICES ASSUME Carried PROVE Planned(PlannedBatch) /\ PreviewIsTrue
    BY <1>6 DEF PlanIsSound, PreviewIsTrue
  <1>8. l = A4 + 1
    BY <1>2, <1>3, <1>7 DEF l, Carried
  <1>9. \A k \in 1..(A4 + 1) : TreeAt(trees, k)
    BY <1>3, <1>8 DEF l
  <1>10. \A k \in 1..(A4 + 1) : IsTree(trees[k])
  <2>1. A2 + 1 \in 1..(A4 + 1)
    BY <1>2
  <2>2. TreeAt(trees, A2 + 1)
    BY <1>9, <2>1, Zenon
  <2> QED BY <1>9, <2>2, TreeAtIsTree
  <1> DEFINE B == trees[A2 + 1]
  <1>11. Settled(Base, FinOf, B) /\ Resolved(Base, FinOf, B) /\ Wrote(B, Len(job.writes), Now)
    BY <1>7, RunOver
  <1> HIDE DEF B
  <1>13. PreviewIsTrue
  <2> SUFFICES ASSUME NEW i \in Rows
               PROVE  Exists(Now, target[i]) /\ Now[target[i]] = job.tree[Source(i)]
    BY DEF PreviewIsTrue
  <2>1. Source(i) \in DOMAIN Base /\ target[i] = Home(B, Base[Source(i)])
    BY <1>11 DEF Resolved
  <2>2. target[i] \in DOMAIN B /\ B[target[i]] = Base[Source(i)]
    BY <1>11, <2>1, PlaceFacts
  <2>3. Base[Source(i)] = job.tree[Source(i)]
    BY <1>1, JobFacts, BaseFacts
  <2>4. target[i] \in DOMAIN Now /\ Now[target[i]] = B[target[i]]
    BY <1>11, <2>2 DEF Wrote
  <2> QED BY <2>2, <2>3, <2>4 DEF Exists
  <1>14. trees[1] = job.tree
  <2> DEFINE q == 1
  <2>1. q \in 1..(A4 + 1) /\ q <= A1 + 1 /\ q - 1 = 0
    BY <1>2
  <2> HIDE DEF q
  <2>2. TreeAt(trees, q)
    BY <1>9, <2>1
  <2>3. trees[q] = Made(0)
    BY <2>1, <2>2 DEF TreeAt
  <2> QED BY <1>1, <2>3, MadeNone DEF q
  <1>15. ASSUME NEW k \in 1..A4, Creates(ops[k])
         PROVE  ops[k].file \notin FilesIn(job.tree) \cup Strangers
  <2>1. CASE k \in 1..A1 /\ ops[k].file = NewDirs[wanted[k]]
      <3>1. k \in 1..Len(wanted)
        BY <2>1 DEF A1
      <3> QED BY <1>1, <2>1, <3>1, WantedFacts
  <2>2. CASE k - A3 \in 1..Len(job.writes) /\ ops[k].file = NewFiles[k - A3]
    BY <2>2, NewFilesFacts
  <2> QED BY <1>3, <1>15, <2>1, <2>2, OpKinds
  <1>16. ASSUME NEW i \in 1..A4, NEW j \in 1..A4, i < j
         PROVE  Phase(ops[i]) <= Phase(ops[j])
  <2>1. \/ i \in 1..A1 /\ Phase(ops[i]) = 1
        \/ i \in (A1 + 1)..A2 /\ Phase(ops[i]) = 2
        \/ i \in (A2 + 1)..A3 /\ Phase(ops[i]) = 3
        \/ i \in (A3 + 1)..A4 /\ Phase(ops[i]) = 4
    BY <1>3, OpKinds
  <2>2. \/ j \in 1..A1 /\ Phase(ops[j]) = 1
        \/ j \in (A1 + 1)..A2 /\ Phase(ops[j]) = 2
        \/ j \in (A2 + 1)..A3 /\ Phase(ops[j]) = 3
        \/ j \in (A3 + 1)..A4 /\ Phase(ops[j]) = 4
    BY <1>3, OpKinds
  <2> DEFINE x == Phase(ops[i])
             y == Phase(ops[j])
  <2> HIDE DEF x, y
  <2>3. \/ i \in 1..A1 /\ x = 1
        \/ i \in (A1 + 1)..A2 /\ x = 2
        \/ i \in (A2 + 1)..A3 /\ x = 3
        \/ i \in (A3 + 1)..A4 /\ x = 4
    BY <2>1 DEF x
  <2>4. \/ j \in 1..A1 /\ y = 1
        \/ j \in (A1 + 1)..A2 /\ y = 2
        \/ j \in (A2 + 1)..A3 /\ y = 3
        \/ j \in (A3 + 1)..A4 /\ y = 4
    BY <2>2 DEF y
  <2>5. x <= y
    BY <1>2, <1>16, <2>3, <2>4
  <2> QED BY <2>5 DEF x, y
  <1>17. ASSUME NEW i \in 1..A4, NEW j \in 1..A4, i < j, Creates(ops[i]), Creates(ops[j])
         PROVE  /\ ops[i].file # ops[j].file
                /\ Phase(ops[i]) = Phase(ops[j]) => ops[i].path # ops[j].path
  <2>1. \/ /\ i \in 1..Len(wanted) /\ Phase(ops[i]) = 1
           /\ ops[i].path = wanted[i] /\ ops[i].file = NewDirs[wanted[i]]
        \/ /\ i - A3 \in 1..Len(job.writes) /\ Phase(ops[i]) = 4
           /\ ops[i].path = landed[i - A3] /\ ops[i].file = NewFiles[i - A3]
    BY <1>3, <1>17, OpKinds DEF A1
  <2>2. \/ /\ j \in 1..Len(wanted) /\ Phase(ops[j]) = 1
           /\ ops[j].path = wanted[j] /\ ops[j].file = NewDirs[wanted[j]]
        \/ /\ j - A3 \in 1..Len(job.writes) /\ Phase(ops[j]) = 4
           /\ ops[j].path = landed[j - A3] /\ ops[j].file = NewFiles[j - A3]
    BY <1>3, <1>17, OpKinds DEF A1
  <2>3. /\ \A m, n \in 1..Len(wanted) : NewDirs[wanted[m]] = NewDirs[wanted[n]] => m = n
        /\ \A m, n \in 1..Len(wanted) : wanted[m] = wanted[n] => m = n
        /\ \A n \in 1..Len(wanted) : NewDirs[wanted[n]] \in Dirs
    BY <1>1, WantedFacts
  <2>4. \A n \in 1..Len(job.writes) : /\ NewFiles[n] \notin Dirs
                                      /\ \A m \in 1..Len(job.writes) : NewFiles[m] = NewFiles[n] => m = n
    BY NewFilesFacts
  <2>5. \A m, n \in 1..Len(job.writes) : landed[m] = landed[n] => m = n
    BY DEF Runnable, WriteInv
  <2>6. i # j /\ i - A3 # j - A3
    BY <1>2, <1>17
  <2> QED BY <2>1, <2>2, <2>3, <2>4, <2>5, <2>6
  <1>18. Planned(PlannedBatch)
  <2> DEFINE b == PlannedBatch
             n == Len(b.ops)
  <2>1. b.ops = ops /\ b.trees = trees /\ b.dates = dates
    BY DEF PlannedBatch
  <2>2. n = A4
    BY <1>2, <1>3, <2>1
  <2> HIDE DEF b, n
  <2>3. b.ops \in Seq(Ops)
    BY <1>3, <1>11, <2>1, OpsAreOps
  <2>4. DOMAIN trees = 1..(n + 1) /\ DOMAIN dates = 1..(n + 1)
        /\ \A i \in 1..(n + 1) : dates[i] \in [Files -> Dates]
    BY <1>3, <1>8, <2>2, LenProperties, ElementOfSeq DEF l
  <2>5. \A i \in 1..(n + 1) : IsTree(trees[i])
    BY <1>10, <2>2
  <2>6. ASSUME NEW i \in 1..n
        PROVE  /\ CanDo(ops[i], trees[i])
               /\ ops[i].kind = "overwrite" => Exists(trees[i], ops[i].path)
               /\ trees[i + 1] = TreeAfter(ops[i], trees[i])
               /\ dates[i + 1] = DateAfter(ops[i], trees[i], dates[i])
               /\ Creates(ops[i]) => ops[i].file \notin FilesIn(trees[1]) \cup Strangers
      <3>1. i \in 1..A4 /\ i <= l /\ i \in 1..(l - 1)
        BY <1>2, <1>8, <2>2
      <3>2. /\ trees[i + 1] = TreeAfter(ops[i], trees[i])
            /\ dates[i + 1] = DateAfter(ops[i], trees[i], dates[i])
        BY <1>3, <3>1 DEF l
      <3> QED BY <1>5, <1>14, <1>15, <3>1, <3>2
  <2>7. \A i, j \in 1..n : i < j =>
            /\ Phase(ops[i]) <= Phase(ops[j])
            /\ Creates(ops[i]) /\ Creates(ops[j]) =>
                  /\ ops[i].file # ops[j].file
                  /\ Phase(ops[i]) = Phase(ops[j]) => ops[i].path # ops[j].path
    BY <1>16, <1>17, <2>2
  <2> QED BY <2>1, <2>3, <2>4, <2>5, <2>6, <2>7 DEF Planned, n, b
  <1> QED BY <1>13, <1>18

-----------------------------------------------------------------------------
(* The passes, one by one.                                                 *)

\* What is said of the job alone holds while it is the same job.
LEMMA SameJob ==
    ASSUME UNCHANGED job
    PROVE  /\ Rows' = Rows /\ Mov' = Mov
           /\ \A i : Source(i)' = Source(i) /\ To(i)' = To(i)
           /\ \A i : Way(job, i)' = Way(job, i)
           /\ WaysClear' <=> WaysClear
           /\ OneEach' <=> OneEach
           /\ NamesLeft' <=> NamesLeft
           /\ NoneRenamed' <=> NoneRenamed
  <1>1. Rows' = Rows
    BY DEF Rows
  <1>2. \A i : Source(i)' = Source(i) /\ To(i)' = To(i) /\ Way(job, i)' = Way(job, i)
    BY DEF Source, To
  <1>3. Mov' = Mov
    BY <1>1, <1>2 DEF Mov
  <1>4. WaysClear' <=> WaysClear
    BY <1>2, <1>3 DEF WaysClear
  <1>5. OneEach' <=> OneEach
    BY <1>1, <1>2 DEF OneEach
  <1>6. NamesLeft' <=> NamesLeft
    BY <1>2, <1>3 DEF NamesLeft
  <1>7. NoneRenamed' <=> NoneRenamed
    BY <1>2, <1>3 DEF NoneRenamed
  <1> QED BY <1>1, <1>2, <1>3, <1>4, <1>5, <1>6, <1>7

\* ... and the same folders to make.
LEMMA SameFolders ==
    ASSUME UNCHANGED <<job, wanted>>
    PROVE  /\ FoldersMade' <=> FoldersMade
           /\ WantedInv' <=> WantedInv
           /\ \A i, p : Spare(i, p)' <=> Spare(i, p)
  <1>1. /\ Rows' = Rows /\ Mov' = Mov
        /\ \A i : Source(i)' = Source(i) /\ To(i)' = To(i)
    BY SameJob
  <1>2. FoldersMade' <=> FoldersMade
    BY <1>1 DEF FoldersMade
  <1>3. WantedInv' <=> WantedInv
    BY <1>1 DEF WantedInv
  <1>4. \A i, p : Spare(i, p)' <=> Spare(i, p)
    BY <1>1 DEF Spare
  <1> QED BY <1>2, <1>3, <1>4

\* The renames are in order after a step that leaves them in order.
LEMMA SameSeq ==
    ASSUME UNCHANGED <<job, wanted>>, NEW Q, NEW G, NEW D, SeqInv(Q, G, D),
           renames' = Q, finishes' = G
    PROVE  /\ done' = D => SeqInv(renames, finishes, done)'
           /\ D = Mov => SeqInv(renames, finishes, Mov)'
  <1>1. /\ Rows' = Rows /\ Mov' = Mov
        /\ \A i : Source(i)' = Source(i) /\ To(i)' = To(i)
    BY SameJob
  <1>2. \A i, p : Spare(i, p)' <=> Spare(i, p)
    BY SameFolders
  <1>3. \A e, i : /\ Direct(e, i)' <=> Direct(e, i)
                  /\ Staging(e, i)' <=> Staging(e, i)
                  /\ Finishing(e, i)' <=> Finishing(e, i)
    BY <1>1, <1>2 DEF Direct, Staging, Finishing
  <1>4. \A a, b : Good(a, b)' <=> Good(a, b)
    BY DEF Good
  <1>5. ASSUME NEW E, E = D PROVE SeqInv(Q, G, E)'
  <2>1. SeqInv(Q, G, E)
    BY <1>5
  <2>2. /\ Q \in Seq(RenameOps) /\ G \in Seq(RenameOps)
        /\ \A m, n \in DOMAIN G : m # n => G[m].from # G[n].from /\ G[m].to # G[n].to
        /\ \A m \in DOMAIN G, n \in DOMAIN Q : G[m].from # Q[n].from /\ G[m].to # Q[n].to
    BY <2>1 DEF SeqInv
  <2>3. /\ (Q \in Seq(RenameOps))' /\ (G \in Seq(RenameOps))'
    BY <2>2 DEF RenameOps
  <2>4. (\A n \in DOMAIN Q : \E i \in E : Direct(Q[n], i) \/ Staging(Q[n], i) \/ Finishing(Q[n], i))'
      <3>1. \A n \in DOMAIN Q : \E i \in E : Direct(Q[n], i) \/ Staging(Q[n], i) \/ Finishing(Q[n], i)
        BY <2>1 DEF SeqInv
      <3> QED BY <1>3, <3>1
  <2>5. (\A n \in DOMAIN G : \E i \in E : /\ Finishing(G[n], i)
                                        /\ \E m \in DOMAIN Q : Q[m].from = Source(i) /\ Q[m].to = G[n].from)'
      <3>1. \A n \in DOMAIN G : \E i \in E : /\ Finishing(G[n], i)
                                          /\ \E m \in DOMAIN Q : Q[m].from = Source(i) /\ Q[m].to = G[n].from
        BY <2>1 DEF SeqInv
      <3> QED BY <1>1, <1>3, <3>1
  <2>6. (\A m, n \in DOMAIN Q : m < n => Good(Q[m], Q[n]))'
      <3>1. \A m, n \in DOMAIN Q : m < n => Good(Q[m], Q[n])
        BY <2>1 DEF SeqInv
      <3> QED BY <1>4, <3>1
  <2>7. (\A i \in E : \E n \in DOMAIN Q :
            /\ Q[n].from = Source(i)
            /\ \/ Q[n].to = To(i)
               \/ \E m \in DOMAIN Q : Q[m].from = Q[n].to /\ Q[m].to = To(i)
               \/ \E m \in DOMAIN G : G[m].from = Q[n].to /\ G[m].to = To(i))'
      <3>1. \A i \in E : \E n \in DOMAIN Q :
              /\ Q[n].from = Source(i)
              /\ \/ Q[n].to = To(i)
                 \/ \E m \in DOMAIN Q : Q[m].from = Q[n].to /\ Q[m].to = To(i)
                 \/ \E m \in DOMAIN G : G[m].from = Q[n].to /\ G[m].to = To(i)
        BY <2>1 DEF SeqInv
      <3> QED BY <1>1, <3>1
  <2>8. (\A n \in DOMAIN Q, i \in E : Finishing(Q[n], i) =>
            \E m \in DOMAIN Q : Q[m].from = Source(i) /\ Q[m].to = Q[n].from)'
      <3>1. \A n \in DOMAIN Q, i \in E : Finishing(Q[n], i) =>
              \E m \in DOMAIN Q : Q[m].from = Source(i) /\ Q[m].to = Q[n].from
        BY <2>1 DEF SeqInv
      <3> QED BY <1>1, <1>3, <3>1
  <2> QED BY <2>2, <2>3, <2>4, <2>5, <2>6, <2>7, <2>8 DEF SeqInv
  <1>6. ASSUME done' = D PROVE SeqInv(renames, finishes, done)'
    BY <1>5, <1>6 DEF SeqInv
  <1>7. ASSUME D = Mov PROVE SeqInv(renames, finishes, Mov)'
  <2>1. Mov' = D
    BY <1>1, <1>7
  <2> QED BY <1>5, <2>1 DEF SeqInv
  <1> QED BY <1>6, <1>7

\* What is known once no row is in conflict.
LEMMA CleanFacts ==
    ASSUME TypeInv, StatesInv, Clean
    PROVE  /\ Movers = Mov /\ Mov \subseteq Rows /\ IsFiniteSet(Mov)
           /\ \A i \in Rows : job.names[i] # <<>>
           /\ \A i \in Rows : i \in Standing
           /\ \A i \in Rows : i \in Mov => state[i] = "changed"
           /\ \A i \in Rows : i \notin Mov => state[i] = "unchanged" /\ To(i) = Source(i)
  <1>1. \A i \in Rows : state[i] = "changed" \/ state[i] = "unchanged"
    BY DEF Clean, Standing
  <1>2. \A i \in Rows : state[i] = "changed" => job.names[i] # <<>> /\ To(i) # Source(i)
    BY DEF StatesInv
  <1>3. \A i \in Rows : state[i] = "unchanged" => job.names[i] # <<>> /\ To(i) = Source(i)
    BY DEF StatesInv
  <1>4. Mov \subseteq Rows
    BY DEF Mov
  <1>5. Movers = Mov
    BY <1>1, <1>2, <1>3 DEF Movers, Mov
  <1>6. IsFiniteSet(Mov)
    BY <1>4, JobFacts, FS_Subset DEF TypeInv
  <1> QED BY <1>1, <1>2, <1>3, <1>4, <1>5, <1>6 DEF Clean, Mov

\* At the beginning.
LEMMA PStart ==
    ASSUME Init
    PROVE  PInv
  <1>1. job \in Jobs /\ pc = "blocked"
    BY DEF Init
  <1>2. TypeInv
  <2>1. /\ state = [i \in Rows |-> state[i]] /\ target = [i \in Rows |-> target[i]]
        /\ degree = [i \in Rows |-> degree[i]]
    BY DEF Init
  <2>2. cursor \in [{Parent(Source(i)) : i \in Rows} -> Nat]
    BY DEF Init
  <2>3. stuck = {} /\ wanted = <<>> /\ lands = <<>>
    BY DEF Init
  <2>4. wanted \in Seq(Paths) /\ DOMAIN lands = {}
    BY <2>3, EmptySeq
  <2> QED BY <1>1, <2>1, <2>2, <2>3, <2>4 DEF TypeInv, Checking
  <1>3. \A i \in Rows : state[i] = Item(job, i).state /\ target[i] = Item(job, i).target
    BY DEF Init
  <1>4. \A i \in Rows : /\ job.names[i] = <<>> => Item(job, i).state = "InvalidName"
                        /\ job.names[i] # <<>> => /\ Item(job, i).target = To(i)
                                                  /\ Item(job, i).state = IF To(i) = Source(i)
                                                        THEN "unchanged" ELSE "changed"
    BY DEF Item, To, Source
  <1>5. StatesInv
    BY <1>1, <1>3, <1>4 DEF StatesInv, Planning
  <1>6. PassInv
  <2>1. /\ ready = <<>> /\ done = {} /\ renames = <<>> /\ finishes = <<>>
        /\ wanted = <<>> /\ DOMAIN lands = {} /\ landed = <<>> /\ ops = <<>>
        /\ trees = <<job.tree>> /\ dates = <<[f \in Files |-> 0]>>
    BY DEF Init
  <2> QED BY <1>1, <2>1 DEF PassInv
  <1>7. ASSUME Clean PROVE CheckInv
  <2>1. TargetInv
      <3>1. \A i \in Rows : job.names[i] # <<>>
        BY <1>2, <1>5, <1>7, CleanFacts
      <3>2. DOMAIN lands = {}
        BY DEF Init
      <3> QED BY <1>3, <1>4, <3>1, <3>2 DEF TargetInv
  <2>2. WantedInv
      <3>1. wanted = <<>> /\ DOMAIN wanted = {}
        BY DEF Init
      <3>2. wanted \in Seq(Paths)
        BY <3>1, EmptySeq
      <3> QED BY <3>1, <3>2 DEF WantedInv
  <2> QED BY <1>1, <2>1, <2>2 DEF CheckInv
  <1> QED BY <1>1, <1>2, <1>5, <1>6, <1>7 DEF PInv, StateInv, Planning

-----------------------------------------------------------------------------
\* The state of a pass that only refuses rows.
Refuses ==
    /\ UNCHANGED <<job, target, wanted, order, plan, disk>>
    /\ state' = [i \in Rows |-> state'[i]]
    /\ \A i \in Rows : state'[i] = state[i] \/ state'[i] \notin {"changed", "unchanged"}

\* Where no row is in conflict after it, none was refused.
LEMMA NoneRefused ==
    ASSUME TypeInv, Refuses, Clean'
    PROVE  /\ Clean /\ state' = state
           /\ \A i \in Rows : state'[i] \in {"changed", "unchanged"}
  <1>1. Rows' = Rows /\ stuck' = stuck
    BY DEF Refuses, Rows, order
  <1>2. \A i \in Rows : state'[i] \in {"changed", "unchanged"}
    BY <1>1 DEF Clean, Standing
  <1>3. \A i \in Rows : state'[i] = state[i]
    BY <1>2 DEF Refuses
  <1>4. state' = state
    BY <1>3 DEF Refuses, TypeInv
  <1>5. Clean
    BY <1>1, <1>2, <1>3 DEF Clean, Standing
  <1> QED BY <1>2, <1>4, <1>5

\* A pass that refuses the rows it should leaves what holds of the others.
LEMMA RefusesKeeps ==
    ASSUME PInv, Refuses,
           pc \in {"blocked", "duplicates", "existing", "inside", "folders"},
           pc' \in {"duplicates", "existing", "inside", "folders", "edges"},
           pc' \in {"duplicates", "existing", "inside"} =>
               pc \in {"blocked", "duplicates", "existing", "inside"},
           Clean' => /\ WaysClear
                     /\ pc' # "duplicates" => OneEach
                     /\ pc' \notin {"duplicates", "existing"} => NamesLeft
                     /\ pc' \notin {"duplicates", "existing", "inside"} => NoneRenamed
                     /\ pc' = "edges" => FoldersMade
    PROVE  PInv'
  <1>1. /\ UNCHANGED <<job, target, wanted>>
        /\ UNCHANGED <<degree, ready, done, stuck, cursor, renames, finishes>>
        /\ UNCHANGED <<lands, landed, ops, trees, dates>>
    BY DEF Refuses, order, plan, disk
  <1>2. /\ Rows' = Rows /\ Mov' = Mov
        /\ \A i : Source(i)' = Source(i) /\ To(i)' = To(i)
        /\ WaysClear' <=> WaysClear
        /\ OneEach' <=> OneEach
        /\ NamesLeft' <=> NamesLeft
        /\ NoneRenamed' <=> NoneRenamed
    BY <1>1, SameJob
  <1>3. TypeInv /\ StatesInv /\ PassInv
    BY DEF PInv, StateInv
  <1>4. TypeInv'
    BY <1>1, <1>2, <1>3 DEF TypeInv, Refuses, Checking
  <1>5. StatesInv'
    BY <1>1, <1>2, <1>3 DEF StatesInv, Refuses, Planning
  <1>6. PassInv'
    BY <1>1, <1>3 DEF PassInv, Checking, Planning
  <1>7. ASSUME Clean' PROVE CheckInv'
  <2>1. Clean /\ state' = state
    BY <1>3, <1>7, NoneRefused
  <2>2. CheckInv
    BY <2>1 DEF PInv
  <2>3. /\ FoldersMade' <=> FoldersMade
        /\ WantedInv' <=> WantedInv
    BY <1>1, SameFolders
  <2>4. TargetInv'
    BY <1>1, <1>2, <2>2 DEF CheckInv, TargetInv
  <2>5. WantedInv'
    BY <2>2, <2>3 DEF CheckInv
  <2> QED BY <1>2, <1>7, <2>3, <2>4, <2>5 DEF CheckInv
  <1> QED BY <1>4, <1>5, <1>6, <1>7 DEF PInv, StateInv, Planning

\* detect_blocked.
LEMMA BlockedKeeps ==
    ASSUME PInv, DetectBlocked
    PROVE  PInv'
  <1> DEFINE blocked == {i \in Movers : \E p \in Way(job, i) : Exists(job.tree, p) /\ job.tree[p] \notin Dirs}
             itself == {i \in Movers \ blocked :
                          Len(job.names[i]) > 1 /\ Head(job.names[i]) = Last(Source(i))}
  <1>1. /\ pc = "blocked" /\ pc' = "duplicates"
        /\ state' = [i \in Rows |-> IF i \in blocked THEN "BlockedByFile"
                                    ELSE IF i \in itself THEN "IntoItself" ELSE state[i]]
        /\ UNCHANGED <<job, target, wanted, order, plan, disk>>
    BY DEF DetectBlocked
  <1>2. TypeInv /\ StatesInv
    BY DEF PInv, StateInv
  <1> HIDE DEF blocked, itself
  <1>3. Refuses
    BY <1>1 DEF Refuses
  <1>4. ASSUME Clean' PROVE WaysClear
  <2>1. /\ Clean /\ state' = state
        /\ \A i \in Rows : state'[i] \in {"changed", "unchanged"}
    BY <1>2, <1>3, <1>4, NoneRefused
  <2>2. \A i \in Rows : i \notin blocked /\ (i \in blocked \/ i \notin itself)
    BY <1>1, <2>1
  <2>3. Movers = Mov /\ Mov \subseteq Rows /\ \A i \in Rows : job.names[i] # <<>>
    BY <1>2, <2>1, CleanFacts
  <2>4. ASSUME NEW i \in Mov, NEW p \in Way(job, i), p \in DOMAIN job.tree PROVE job.tree[p] \in Dirs
    BY <2>2, <2>3, <2>4 DEF blocked, Exists
  <2>5. ASSUME NEW i \in Mov PROVE ~AtOrUnder(Source(i), To(i))
      <3>1. To(i) # Source(i) /\ job \in Jobs
        BY <1>2 DEF Mov, TypeInv
      <3>2. ~(Len(job.names[i]) > 1 /\ Head(job.names[i]) = Last(Source(i)))
        BY <2>2, <2>3 DEF itself
      <3> QED BY <2>3, <3>1, <3>2, IntoItself
  <2> QED BY <2>4, <2>5 DEF WaysClear
  <1> QED BY <1>1, <1>3, <1>4, RefusesKeeps

\* A pass that refuses one set of rows.
LEMMA RefuseFacts ==
    ASSUME PInv, NEW S, NEW why, why \notin {"changed", "unchanged"}, Refuse(S, why), pc # "refused"
    PROVE  /\ Refuses
           /\ Clean' => /\ Clean /\ CheckInv /\ job \in Jobs
                        /\ Movers = Mov /\ Mov \subseteq Rows
                        /\ \A i \in Rows : i \in Standing /\ job.names[i] # <<>>
                        /\ \A i \in Rows : i \notin Mov => To(i) = Source(i)
                        /\ \A i \in Rows : i \notin S
  <1>1. TypeInv /\ StatesInv
    BY DEF PInv, StateInv
  <1>2. Refuses
    BY DEF Refuse, Refuses
  <1>3. ASSUME Clean'
        PROVE  /\ Clean /\ CheckInv /\ job \in Jobs
               /\ Movers = Mov /\ Mov \subseteq Rows
               /\ \A i \in Rows : i \in Standing /\ job.names[i] # <<>>
               /\ \A i \in Rows : i \notin Mov => To(i) = Source(i)
               /\ \A i \in Rows : i \notin S
  <2>1. /\ Clean
        /\ \A i \in Rows : state'[i] \in {"changed", "unchanged"}
    BY <1>1, <1>2, <1>3, NoneRefused
  <2>2. \A i \in Rows : i \notin S
    BY <2>1 DEF Refuse
  <2>3. /\ Movers = Mov /\ Mov \subseteq Rows
        /\ \A i \in Rows : i \in Standing /\ job.names[i] # <<>>
        /\ \A i \in Rows : i \notin Mov => To(i) = Source(i)
    BY <1>1, <2>1, CleanFacts
  <2>4. CheckInv
    BY <2>1 DEF PInv
  <2>5. job \in Jobs
    BY <1>1 DEF TypeInv
  <2> QED BY <2>1, <2>2, <2>3, <2>4, <2>5
  <1> QED BY <1>2, <1>3

\* detect_duplicates.
LEMMA DuplicatesKeeps ==
    ASSUME PInv, DetectDuplicates
    PROVE  PInv'
  <1> DEFINE S == {i \in Movers : \E j \in Standing \ {i} : Final(j) = Final(i)}
  <1>1. pc = "duplicates" /\ pc' = "existing" /\ Refuse(S, "DuplicateTarget")
    BY DEF DetectDuplicates
  <1> HIDE DEF S
  <1>2. Refuses
    BY <1>1, RefuseFacts
  <1>3. ASSUME Clean' PROVE WaysClear /\ OneEach
  <2>1. /\ Clean /\ CheckInv /\ Movers = Mov /\ Mov \subseteq Rows
        /\ \A i \in Rows : i \in Standing /\ job.names[i] # <<>>
        /\ \A i \in Rows : i \notin Mov => To(i) = Source(i)
        /\ \A i \in Rows : i \notin S
    BY <1>1, <1>3, RefuseFacts
  <2>2. job \in Jobs /\ DOMAIN lands = {}
    BY <1>1 DEF PInv, StateInv, TypeInv, PassInv, Planning
  <2>3. \A i \in Rows : Final(i) = To(i)
    BY <2>1, <2>2 DEF Final, CheckInv, TargetInv
  <2>4. ASSUME NEW i \in Rows, NEW j \in Rows, To(i) = To(j), i # j PROVE FALSE
      <3>1. i \notin Movers
        BY <2>1, <2>3, <2>4 DEF S
      <3>2. j \notin Movers
        BY <2>1, <2>3, <2>4 DEF S
      <3>3. Source(i) = Source(j)
        BY <2>1, <2>4, <3>1, <3>2
      <3> QED BY <2>2, <2>4, <3>3, JobFacts
  <2>5. OneEach
    BY <2>4 DEF OneEach
  <2> QED BY <1>1, <2>1, <2>5 DEF CheckInv
  <1> QED BY <1>1, <1>2, <1>3, RefusesKeeps

\* detect_existing.
LEMMA ExistingKeeps ==
    ASSUME PInv, DetectExisting
    PROVE  PInv'
  <1> DEFINE S == {i \in Movers : Exists(job.tree, target[i]) /\ target[i] \notin Freed}
  <1>1. pc = "existing" /\ pc' = "inside" /\ Refuse(S, "TargetExists")
    BY DEF DetectExisting
  <1> HIDE DEF S
  <1>2. Refuses
    BY <1>1, RefuseFacts
  <1>3. ASSUME Clean' PROVE WaysClear /\ OneEach /\ NamesLeft
  <2>1. /\ Clean /\ CheckInv /\ Movers = Mov /\ Mov \subseteq Rows
        /\ \A i \in Rows : i \notin S
    BY <1>1, <1>3, RefuseFacts
  <2>2. DOMAIN lands = {}
    BY <1>1 DEF PInv, StateInv, PassInv, Planning
  <2>3. \A i \in Rows : target[i] = To(i)
    BY <2>1, <2>2 DEF CheckInv, TargetInv
  <2>4. ASSUME NEW i \in Mov, To(i) \in DOMAIN job.tree PROVE \E k \in Mov : Source(k) = To(i)
    BY <2>1, <2>3, <2>4 DEF S, Exists, Freed
  <2>5. NamesLeft
    BY <2>4 DEF NamesLeft
  <2> QED BY <1>1, <2>1, <2>5 DEF CheckInv
  <1> QED BY <1>1, <1>2, <1>3, RefusesKeeps

\* detect_into_renamed.
LEMMA IntoRenamedKeeps ==
    ASSUME PInv, DetectIntoRenamed
    PROVE  PInv'
  <1> DEFINE S == {i \in Movers : \E j \in Movers : Source(j) \in Way(job, i)}
  <1>1. pc = "inside" /\ pc' = "folders" /\ Refuse(S, "IntoRenamedFolder")
    BY DEF DetectIntoRenamed
  <1> HIDE DEF S
  <1>2. Refuses
    BY <1>1, RefuseFacts
  <1>3. ASSUME Clean' PROVE WaysClear /\ OneEach /\ NamesLeft /\ NoneRenamed
  <2>1. /\ Clean /\ CheckInv /\ Movers = Mov /\ Mov \subseteq Rows
        /\ \A i \in Rows : i \notin S
    BY <1>1, <1>3, RefuseFacts
  <2>2. NoneRenamed
    BY <2>1 DEF S, NoneRenamed
  <2> QED BY <1>1, <2>1, <2>2 DEF CheckInv
  <1> QED BY <1>1, <1>2, <1>3, RefusesKeeps

\* detect_needed, once no folder is missing.
LEMMA NeededKeeps ==
    ASSUME PInv, DetectNeeded
    PROVE  PInv'
  <1> DEFINE S == {i \in Movers : Contains(wanted, target[i])}
  <1>1. /\ pc = "folders" /\ pc' = "edges" /\ Refuse(S, "NeededAsFolder")
        /\ \A i \in Movers : Missing(i) = {}
    BY DEF DetectNeeded
  <1> HIDE DEF S
  <1>2. Refuses
    BY <1>1, RefuseFacts
  <1>3. ASSUME Clean' PROVE WaysClear /\ OneEach /\ NamesLeft /\ NoneRenamed /\ FoldersMade
  <2>1. /\ Clean /\ CheckInv /\ Movers = Mov /\ Mov \subseteq Rows
        /\ \A i \in Rows : i \notin S
    BY <1>1, <1>3, RefuseFacts
  <2>2. DOMAIN lands = {}
    BY <1>1 DEF PInv, StateInv, PassInv, Planning
  <2>3. \A i \in Rows : target[i] = To(i)
    BY <2>1, <2>2 DEF CheckInv, TargetInv
  <2>4. ASSUME NEW i \in Mov PROVE ~Contains(wanted, To(i))
    BY <2>1, <2>3 DEF S
  <2>5. ASSUME NEW i \in Mov, NEW p \in Way(job, i) PROVE p \in DOMAIN job.tree \/ Contains(wanted, p)
    BY <1>1, <2>1 DEF Missing, Exists
  <2>6. FoldersMade
    BY <2>4, <2>5 DEF FoldersMade
  <2> QED BY <1>1, <2>1, <2>6 DEF CheckInv
  <1> QED BY <1>1, <1>2, <1>3, RefusesKeeps

-----------------------------------------------------------------------------
\* One folder more to make.
LEMMA OneFolderMore ==
    ASSUME job \in Jobs, NEW i \in Mov, job.names[i] # <<>>, WantedInv,
           NEW p \in Missing(i), \A q \in Missing(i) : Len(p) <= Len(q),
           UNCHANGED job, wanted' = Append(wanted, p)
    PROVE  WantedInv'
  <1>1. /\ Rows' = Rows /\ Mov' = Mov
        /\ \A k : Source(k)' = Source(k) /\ To(k)' = To(k) /\ Way(job, k)' = Way(job, k)
    BY SameJob
  <1>2. i \in Rows /\ p \in Way(job, i) /\ p \notin DOMAIN job.tree /\ ~Contains(wanted, p)
    BY DEF Mov, Missing, Exists
  <1>3. /\ p \in Paths /\ StrictlyUnder(p, To(i))
        /\ \A r \in Paths : StrictlyUnder(r, To(i)) => StrictlyUnder(r, Source(i)) \/ r \in Way(job, i)
        /\ To(i) \in Paths /\ Source(i) \in DOMAIN job.tree /\ IsTree(job.tree)
    BY <1>2, WayFacts, ToFacts, JobFacts
  <1>4. wanted \in Seq(Paths)
    BY DEF WantedInv
  <1> DEFINE w == Append(wanted, p)
             l == Len(wanted) + 1
  <1>5. /\ w \in Seq(Paths) /\ DOMAIN wanted = 1..Len(wanted)
        /\ l \in DOMAIN w /\ w[l] = p
        /\ \A n \in DOMAIN wanted : n \in DOMAIN w /\ w[n] = wanted[n] /\ n < l
        /\ \A n \in DOMAIN w : n \in DOMAIN wanted \/ n = l
    BY <1>3, <1>4, AppendedFacts
  <1>6. \A n \in DOMAIN wanted : wanted[n] # p
    BY <1>2, <1>5 DEF Contains
  <1>7. ASSUME Len(p) > 1
        PROVE  Parent(p) \in DOMAIN job.tree \/ \E m \in DOMAIN wanted : wanted[m] = Parent(p)
  <2> DEFINE q == Parent(p)
  <2>1. q \in Paths /\ Len(q) = Len(p) - 1 /\ StrictlyUnder(q, p)
    BY <1>3, <1>7, ParentFacts
  <2> HIDE DEF q
  <2>2. Len(p) \in Nat /\ Len(q) \in Nat /\ ~(Len(p) <= Len(q))
    BY <1>3, <2>1, PathFacts
  <2>3. AtOrUnder(q, To(i)) /\ Len(q) < Len(To(i))
      <3>1. AtOrUnder(q, p) /\ AtOrUnder(p, To(i)) /\ Len(p) < Len(To(i))
        BY <1>3, <2>1, AboveFacts
      <3>2. AtOrUnder(q, To(i))
        BY <1>3, <2>1, <3>1, AboveFacts
      <3>3. Len(To(i)) \in Nat
        BY <1>3, PathFacts
      <3> QED BY <2>2, <3>1, <3>2, <3>3
  <2>4. StrictlyUnder(q, To(i))
    BY <1>3, <2>1, <2>3, AboveFacts
  <2>5. CASE StrictlyUnder(q, Source(i))
      <3>1. q \in DOMAIN job.tree
        BY <1>3, <2>1, <2>5, TreeFacts
      <3> QED BY <3>1 DEF q
  <2>6. CASE q \in Way(job, i)
      <3>1. q \notin Missing(i)
        BY <2>2
      <3>2. q \in DOMAIN job.tree \/ Contains(wanted, q)
        BY <2>6, <3>1 DEF Missing, Exists
      <3>3. Contains(wanted, q) => \E m \in DOMAIN wanted : wanted[m] = q
        BY <1>5 DEF Contains
      <3> QED BY <3>2, <3>3 DEF q
  <2> QED BY <1>3, <2>1, <2>4, <2>5, <2>6
  <1>8. w \in Seq(Paths)
    BY <1>5
  <1> HIDE DEF w, l
  <1>9. \A m, n \in DOMAIN w : w[m] = w[n] => m = n
  <2>1. \A m, n \in DOMAIN wanted : wanted[m] = wanted[n] => m = n
    BY DEF WantedInv
  <2> QED BY <1>5, <1>6, <2>1
  <1>10. ASSUME NEW n \in DOMAIN w
         PROVE  /\ w[n] \notin DOMAIN job.tree
                /\ \E k \in Mov : w[n] \in Way(job, k)
                /\ Len(w[n]) > 1 => \/ Parent(w[n]) \in DOMAIN job.tree
                                    \/ \E m \in DOMAIN w : m < n /\ w[m] = Parent(w[n])
  <2>1. CASE n = l
      <3>1. w[n] = p
        BY <1>5, <2>1
      <3>2. Len(p) > 1 => \/ Parent(p) \in DOMAIN job.tree
                          \/ \E m \in DOMAIN w : m < n /\ w[m] = Parent(p)
        BY <1>5, <1>7, <2>1
      <3> QED BY <1>2, <3>1, <3>2
  <2>2. CASE n \in DOMAIN wanted
      <3>1. w[n] = wanted[n]
        BY <1>5, <2>2
      <3>2. /\ wanted[n] \notin DOMAIN job.tree
            /\ \E k \in Mov : wanted[n] \in Way(job, k)
            /\ Len(wanted[n]) > 1 => \/ Parent(wanted[n]) \in DOMAIN job.tree
                                     \/ \E m \in DOMAIN wanted : m < n /\ wanted[m] = Parent(wanted[n])
        BY <2>2 DEF WantedInv
      <3>3. \A m \in DOMAIN wanted : m \in DOMAIN w /\ w[m] = wanted[m]
        BY <1>5
      <3> QED BY <3>1, <3>2, <3>3
  <2> QED BY <1>5, <2>1, <2>2
  <1>11. wanted' = w
    BY DEF w
  <1> QED BY <1>1, <1>8, <1>9, <1>10, <1>11 DEF WantedInv

\* wanted_directories.
LEMMA WantedKeeps ==
    ASSUME PInv, WantedDirectories
    PROVE  PInv'
  <1>1. /\ pc = "folders" /\ UNCHANGED <<job, pc, state, target>>
        /\ UNCHANGED <<degree, ready, done, stuck, cursor, renames, finishes>>
        /\ UNCHANGED <<lands, landed, ops, trees, dates>>
    BY DEF WantedDirectories, order, plan, disk
  <1> PICK i \in Movers : \E p \in Missing(i) : /\ \A q \in Missing(i) : Len(p) <= Len(q)
                                               /\ wanted' = Append(wanted, p)
    BY DEF WantedDirectories
  <1>2. PICK p \in Missing(i) : /\ \A q \in Missing(i) : Len(p) <= Len(q)
                                /\ wanted' = Append(wanted, p)
    OBVIOUS
  <1>3. TypeInv /\ StatesInv /\ PassInv
    BY DEF PInv, StateInv
  <1>4. i \in Rows /\ job.names[i] # <<>> /\ i \in Mov /\ job \in Jobs
    BY <1>3 DEF Movers, StatesInv, Mov, TypeInv
  <1>5. p \in Paths
    BY <1>4, WayFacts DEF Missing
  <1>6. wanted' \in Seq(Paths)
    BY <1>2, <1>3, <1>5, AppendedFacts DEF TypeInv
  <1>7. /\ Rows' = Rows /\ Mov' = Mov
        /\ \A k : Source(k)' = Source(k) /\ To(k)' = To(k)
        /\ WaysClear' <=> WaysClear
        /\ OneEach' <=> OneEach
        /\ NamesLeft' <=> NamesLeft
        /\ NoneRenamed' <=> NoneRenamed
    BY <1>1, SameJob
  <1>8. TypeInv'
    BY <1>1, <1>3, <1>6, <1>7 DEF TypeInv
  <1>9. StatesInv'
    BY <1>1, <1>3, <1>7 DEF StatesInv
  <1>10. PassInv'
    BY <1>1, <1>3 DEF PassInv, Checking, Planning
  <1>11. ASSUME Clean' PROVE CheckInv'
  <2>1. Clean
    BY <1>1, <1>7, <1>11 DEF Clean, Standing
  <2>2. CheckInv
    BY <1>1, <2>1 DEF PInv
  <2>3. TargetInv'
    BY <1>1, <1>7, <2>2 DEF CheckInv, TargetInv
  <2>4. WantedInv'
    BY <1>1, <1>2, <1>4, <2>2, OneFolderMore DEF CheckInv
  <2> QED BY <1>1, <1>7, <2>2, <2>3, <2>4 DEF CheckInv
  <1> QED BY <1>1, <1>8, <1>9, <1>10, <1>11 DEF PInv, StateInv, Planning
-----------------------------------------------------------------------------
\* The checks all passed: what order_renames takes for granted.
LEMMA ChecksPassed ==
    ASSUME PInv, Clean, pc \in {"edges", "order"} \cup Planning
    PROVE  /\ job \in Jobs /\ Checked /\ TargetInv
           /\ Movers = Mov /\ Mov \subseteq Rows /\ IsFiniteSet(Mov)
           /\ pc \notin Planning => \A i \in Rows : target[i] = To(i)
  <1>1. TypeInv /\ StatesInv /\ PassInv
    BY DEF PInv, StateInv
  <1>2. /\ Movers = Mov /\ Mov \subseteq Rows /\ IsFiniteSet(Mov)
        /\ \A i \in Rows : job.names[i] # <<>>
    BY <1>1, CleanFacts
  <1>3. CheckInv
    BY DEF PInv, Planning
  <1>4. Checked /\ TargetInv
    BY <1>2, <1>3 DEF CheckInv, Checked, Planning
  <1>5. pc \notin Planning => DOMAIN lands = {}
    BY <1>1 DEF PassInv
  <1>6. pc \notin Planning => \A i \in Rows : target[i] = To(i)
    BY <1>4, <1>5 DEF TargetInv
  <1> QED BY <1>1, <1>2, <1>4, <1>6 DEF TypeInv

\* ... and what a step that leaves the listing and the conflicts alone keeps.
LEMMA SameChecks ==
    ASSUME PInv, UNCHANGED <<job, state, target, wanted, stuck, lands>>,
           pc \in {"edges", "order"} \cup Planning, pc' \in {"order"} \cup Planning
    PROVE  /\ Clean' <=> Clean
           /\ Clean => CheckInv'
           /\ Rows' = Rows /\ Mov' = Mov
           /\ \A k : Source(k)' = Source(k) /\ To(k)' = To(k)
  <1>1. /\ Rows' = Rows /\ Mov' = Mov
        /\ \A k : Source(k)' = Source(k) /\ To(k)' = To(k)
        /\ WaysClear' <=> WaysClear
        /\ OneEach' <=> OneEach
        /\ NamesLeft' <=> NamesLeft
        /\ NoneRenamed' <=> NoneRenamed
    BY SameJob
  <1>2. /\ FoldersMade' <=> FoldersMade
        /\ WantedInv' <=> WantedInv
    BY SameFolders
  <1>3. Clean' <=> Clean
    BY <1>1 DEF Clean, Standing
  <1>4. ASSUME Clean PROVE CheckInv'
  <2>1. Checked /\ TargetInv
    BY <1>4, ChecksPassed
  <2>2. TargetInv'
    BY <1>1, <2>1 DEF TargetInv
  <2> QED BY <1>1, <1>2, <2>1, <2>2 DEF CheckInv, Checked
  <1> QED BY <1>1, <1>3, <1>4

\* Who waits for whom, after a step that leaves the listing alone.
LEMMA SameWaits ==
    ASSUME UNCHANGED <<job, target>>
    PROVE  \A x, y : /\ WaitsFor(x, y)' <=> WaitsFor(x, y)
                     /\ WaitsForName(x, y)' <=> WaitsForName(x, y)
  BY SameJob DEF WaitsFor, WaitsForName

\* No rename is planned.
LEMMA NothingPlanned ==
    SeqInv(<<>>, <<>>, {})
  <1>1. <<>> \in Seq(RenameOps) /\ DOMAIN (<<>>) = {}
    BY EmptySeq
  <1> QED BY <1>1 DEF SeqInv

\* The edges of order_renames.
LEMMA EdgesKeeps ==
    ASSUME PInv, Edges
    PROVE  PInv'
  <1>1. /\ pc = "edges" /\ pc' = "order"
        /\ degree' = [x \in Rows |->
                        IF x \in Movers THEN Cardinality({y \in Movers : WaitsFor(x, y)}) ELSE 0]
        /\ ready' = Push(<<>>, {x \in Movers : degree'[x] = 0})
        /\ UNCHANGED <<job, state, target, wanted, done, stuck, cursor, renames, finishes>>
        /\ UNCHANGED <<lands, landed, ops, trees, dates>>
    BY DEF Edges, listing, plan, disk
  <1>2. TypeInv /\ StatesInv /\ PassInv
    BY DEF PInv, StateInv
  <1>3. /\ Clean' <=> Clean
        /\ Clean => CheckInv'
        /\ Rows' = Rows /\ Mov' = Mov
        /\ \A k : Source(k)' = Source(k) /\ To(k)' = To(k)
    BY <1>1, SameChecks
  <1>4. TypeInv'
    BY <1>1, <1>2, <1>3 DEF TypeInv
  <1>5. StatesInv'
    BY <1>1, <1>2, <1>3 DEF StatesInv, Planning
  <1>6. PassInv'
    BY <1>1, <1>2 DEF PassInv, Checking, Planning
  <1>7. ASSUME Clean PROVE OrderInv'
  <2>1. Movers = Mov /\ Mov \subseteq Rows
    BY <1>1, <1>7, ChecksPassed
  <2>2. done = {} /\ renames = <<>> /\ finishes = <<>>
    BY <1>1, <1>2 DEF PassInv, Checking
  <2>3. \A x, y : WaitsFor(x, y)' <=> WaitsFor(x, y)
    BY <1>1, SameWaits
  <2>4. DegreeInv'
      <3>1. Mov \ done = Mov /\ done' = {} /\ Mov' \ done' = Mov
        BY <1>1, <1>3, <2>2
      <3>2. ASSUME NEW x \in Mov
            PROVE  degree'[x] = Cardinality({z \in Mov : WaitsFor(x, z)'})
        <4>1. degree'[x] = Cardinality({z \in Mov : WaitsFor(x, z)})
          BY <1>1, <2>1
        <4>2. {z \in Mov : WaitsFor(x, z)'} = {z \in Mov : WaitsFor(x, z)}
          BY <2>3
        <4> QED BY <4>1, <4>2
      <3> QED BY <3>1, <3>2 DEF DegreeInv
  <2>5. ReadyInv'
      <3> DEFINE S == {x \in Movers : degree'[x] = 0}
      <3>1. S \in SUBSET Rows /\ S \subseteq Mov /\ (\A x \in S : degree'[x] = 0)
        BY <2>1
      <3> HIDE DEF S
      <3>2. Mov' \ done' = Mov
        BY <1>1, <1>3, <2>2
      <3>3. CASE S = {}
        <4>1. ready' = <<>>
          BY <1>1, <3>3 DEF S, Push
        <4>2. ready' \in Seq(SUBSET Rows) /\ DOMAIN ready' = {}
          BY <4>1, EmptySeq
        <4> QED BY <1>3, <4>2 DEF ReadyInv
      <3>4. CASE S # {}
        <4>1. ready' = Append(<<>>, S)
          BY <1>1, <3>4 DEF S, Push
        <4>2. <<>> \in Seq(SUBSET Rows) /\ DOMAIN (<<>>) = {} /\ Len(<<>>) = 0
          BY EmptySeq
        <4>3. /\ Append(<<>>, S) \in Seq(SUBSET Rows)
              /\ Append(<<>>, S)[1] = S
              /\ DOMAIN Append(<<>>, S) = {1}
          BY <3>1, <4>2, AppendedFacts
        <4> QED BY <1>3, <3>1, <3>2, <4>1, <4>3 DEF ReadyInv
      <3> QED BY <3>3, <3>4
  <2>6. DoneInv'
      <3>1. done' = {} /\ renames' = <<>> /\ DOMAIN renames' = {}
        BY <1>1, <2>2
      <3> QED BY <3>1 DEF DoneInv
  <2>7. SeqInv(renames, finishes, done)'
      <3>1. renames' = <<>> /\ finishes' = <<>> /\ done' = {}
        BY <1>1, <2>2
      <3> QED BY <1>1, <3>1, NothingPlanned, SameSeq
  <2> QED BY <2>4, <2>5, <2>6, <2>7 DEF OrderInv
  <1> QED BY <1>1, <1>3, <1>4, <1>5, <1>6, <1>7 DEF PInv, StateInv, Planning

-----------------------------------------------------------------------------
(* The temporary names.                                                    *)

\* The values of a function on a finite set are finitely many.
LEMMA FinitelyMany ==
    ASSUME NEW S, IsFiniteSet(S), NEW f
    PROVE  IsFiniteSet({f[x] : x \in S})
  <1> DEFINE T == {f[x] : x \in S}
             g == [x \in S |-> f[x]]
  <1>1. g \in Surjection(S, T)
    BY DEF Surjection
  <1> HIDE DEF g, T
  <1>2. IsFiniteSet(T)
    BY <1>1, FS_Surjection
  <1> QED BY <1>2 DEF T

\* The names a batch touches are finitely many.
LEMMA ReservedFinite ==
    ASSUME TypeInv
    PROVE  IsFiniteSet(Reserved) /\ Cardinality(Reserved) \in Nat
  <1>1. job \in Jobs /\ wanted \in Seq(Paths)
    BY DEF TypeInv
  <1>2. IsFiniteSet(Movers)
    BY <1>1, JobFacts, FS_Subset DEF Movers
  <1>3. IsFiniteSet({job.rows[i] : i \in Movers}) /\ IsFiniteSet({target[i] : i \in Movers})
    BY <1>2, FinitelyMany
  <1>4. IsFiniteSet(DOMAIN wanted)
  <2>1. Len(wanted) \in Nat /\ DOMAIN wanted = 1..Len(wanted)
    BY <1>1, LenProperties
  <2> QED BY <2>1, FS_Interval
  <1>5. IsFiniteSet({wanted[n] : n \in DOMAIN wanted})
    BY <1>4, FinitelyMany
  <1>6. IsFiniteSet({Source(i) : i \in Movers} \cup {target[i] : i \in Movers} \cup ToSet(wanted))
    BY <1>3, <1>5, FS_Union DEF Source, ToSet
  <1> QED BY <1>6, FS_CardinalityType DEF Reserved

\* A temporary name is beside the name it stands for.
LEMMA TempFacts ==
    ASSUME NEW p \in Paths, NEW k \in Nat, k < Len(Temps)
    PROVE  /\ Temp(p, k) \in Paths /\ Len(Temp(p, k)) = Len(p)
           /\ Parent(Temp(p, k)) = Parent(p)
           /\ Temp(p, k)[Len(p)] = Temps[k + 1]
  <1>1. Temps \in Seq(Names) /\ Len(Temps) \in Nat
    BY ValuesAssumption, LenProperties
  <1>2. Temps[k + 1] \in Names
  <2>1. k + 1 \in 1..Len(Temps)
    BY <1>1
  <2> QED BY <1>1, <2>1, ElementOfSeq
  <1>3. /\ Parent(p) \in Seq(Names) /\ Len(Parent(p)) = Len(p) - 1 /\ Len(p) \in Nat \ {0}
    BY ParentIsSeq, PathFacts
  <1> DEFINE m == Temps[k + 1]
             a == Parent(p)
             q == a \o <<m>>
  <1> HIDE DEF m
  <1>4. /\ <<m>> \in Seq(Names) /\ Len(<<m>>) = 1 /\ <<m>>[1] = m
    BY <1>2 DEF m
  <1> HIDE DEF a
  <1>5. a \in Seq(Names) /\ Len(a) = Len(p) - 1
    BY <1>3 DEF a
  <1>6. /\ q \in Seq(Names) /\ Len(q) = Len(a) + Len(<<m>>)
        /\ \A n \in 1..(Len(a) + Len(<<m>>)) : q[n] = IF n <= Len(a) THEN a[n] ELSE <<m>>[n - Len(a)]
    BY <1>4, <1>5, ConcatProperties
  <1> HIDE DEF q
  <1>7. Len(q) = Len(p)
    BY <1>3, <1>4, <1>5, <1>6
  <1>8. q[Len(p)] = m
  <2>1. Len(p) \in 1..(Len(a) + Len(<<m>>)) /\ ~(Len(p) <= Len(a)) /\ Len(p) - Len(a) = 1
    BY <1>3, <1>4, <1>5
  <2> QED BY <1>4, <1>6, <2>1
  <1>9. q \in Paths
  <2>1. q # <<>>
    BY <1>3, <1>6, <1>7, EmptySeq
  <2> QED BY <1>6, <2>1 DEF Paths
  <1>10. Parent(q) = a
  <2>1. /\ Parent(q) \in Seq(Names) /\ Len(Parent(q)) = Len(q) - 1
        /\ \A n \in 1..(Len(q) - 1) : Parent(q)[n] = q[n]
    BY <1>9, ParentIsSeq
  <2>2. \A n \in 1..Len(a) : Parent(q)[n] = a[n]
      <3> TAKE n \in 1..Len(a)
      <3>1. n \in 1..(Len(q) - 1) /\ n \in 1..(Len(a) + Len(<<m>>)) /\ n <= Len(a)
        BY <1>3, <1>4, <1>5, <1>7
      <3> QED BY <1>6, <2>1, <3>1
  <2>3. Len(Parent(q)) = Len(a)
    BY <1>3, <1>5, <1>7, <2>1
  <2> QED BY <1>5, <2>1, <2>2, <2>3, SeqEqual
  <1>11. Temp(p, k) = q
    BY DEF Temp, q, a, m
  <1> QED BY <1>7, <1>8, <1>9, <1>10, <1>11 DEF m, a

\* The name that is taken for what is at a row's path.
LEMMA FreeFacts ==
    ASSUME TypeInv, NEW v \in Rows, Free(Source(v)) # {}
    PROVE  LET k == Min(Free(Source(v))) IN
           /\ k \in Nat /\ k < Len(Temps) /\ cursor[Parent(Source(v))] <= k
           /\ Temp(Source(v), k) \notin Reserved /\ Temp(Source(v), k) \notin DOMAIN job.tree
  <1> DEFINE c == cursor[Parent(Source(v))]
             S == Free(Source(v))
  <1>1. c \in Nat /\ Limit(Source(v)) \in Nat
  <2>1. c \in Nat
    BY DEF TypeInv
  <2>2. TEMP_NAMES_ON_DISK \in Nat
    BY ValuesAssumption
  <2> QED BY <2>1, <2>2, ReservedFinite DEF Limit
  <1>2. \A k \in S : /\ k \in c..(Limit(Source(v)) - 1) /\ k < Len(Temps)
                     /\ Temp(Source(v), k) \notin Reserved /\ Temp(Source(v), k) \notin DOMAIN job.tree
    BY DEF Free, Exists
  <1> HIDE DEF c, S
  <1>3. \A k \in c..(Limit(Source(v)) - 1) : k \in Nat /\ c <= k
    BY <1>1
  <1>4. S \in SUBSET Nat /\ S # {}
    BY <1>2, <1>3 DEF S
  <1>5. \E m \in S : \A k \in S : m <= k
    BY <1>4, Least
  <1>6. Min(S) \in S
    BY <1>5 DEF Min
  <1>7. \A k \in S : /\ k \in Nat /\ k < Len(Temps) /\ c <= k
                     /\ Temp(Source(v), k) \notin Reserved /\ Temp(Source(v), k) \notin DOMAIN job.tree
    BY <1>2, <1>3
  <1> QED BY <1>6, <1>7 DEF S, c

\* It is spare, and no rename before took it.
LEMMA FreeIsSpare ==
    ASSUME PInv, Clean, pc = "order", NEW v \in Rows, Free(Source(v)) # {}
    PROVE  LET k == Min(Free(Source(v))) IN
           /\ Spare(v, Temp(Source(v), k))
           /\ \A n \in DOMAIN renames : renames[n].to # Temp(Source(v), k)
  <1> DEFINE k == Min(Free(Source(v)))
             s == Temp(Source(v), k)
  <1>1. TypeInv
    BY DEF PInv, StateInv
  <1>2. /\ k \in Nat /\ k < Len(Temps) /\ cursor[Parent(Source(v))] <= k
        /\ s \notin Reserved /\ s \notin DOMAIN job.tree
    BY <1>1, FreeFacts
  <1>3. /\ job \in Jobs /\ Checked /\ Movers = Mov /\ Mov \subseteq Rows
        /\ \A i \in Rows : target[i] = To(i)
    BY ChecksPassed, Zenon DEF Planning
  <1> HIDE DEF k
  <1>4. \A i \in Rows : Source(i) \in Paths
    BY <1>3, JobFacts
  <1>5. /\ s \in Paths /\ Len(s) = Len(Source(v)) /\ Parent(s) = Parent(Source(v))
        /\ s[Len(Source(v))] = Temps[k + 1]
    BY <1>2, <1>4, TempFacts
  <1>6. ~Contains(wanted, s)
  <2>1. wanted \in Seq(Paths)
    BY <1>1 DEF TypeInv
  <2>2. DOMAIN wanted = 1..Len(wanted)
    BY <2>1, LenProperties
  <2> HIDE DEF s
  <2> QED BY <1>2, <2>2 DEF Contains, Reserved, ToSet
  <1> HIDE DEF s
  <1>7. \A i \in Mov : s # To(i)
    BY <1>2, <1>3 DEF Reserved
  <1>8. Spare(v, s)
    BY <1>2, <1>5, <1>6, <1>7 DEF Spare
  <1>9. ASSUME NEW n \in DOMAIN renames, renames[n].to = s PROVE FALSE
  <2>1. OrderInv
    BY DEF PInv
  <2>2. PICK i \in done : \/ renames[n].to = To(i)
                          \/ \E l \in 0..(cursor[Parent(Source(i))] - 1) :
                                l < Len(Temps) /\ renames[n].to = Temp(Source(i), l)
    BY <2>1 DEF OrderInv, DoneInv
  <2>3. i \in Mov /\ i \in Rows
    BY <1>3, <2>1 DEF OrderInv, DegreeInv
  <2>4. PICK l \in 0..(cursor[Parent(Source(i))] - 1) : l < Len(Temps) /\ s = Temp(Source(i), l)
    BY <1>7, <1>9, <2>2, <2>3
  <2>5. cursor[Parent(Source(i))] \in Nat
    BY <1>1, <2>3 DEF TypeInv
  <2>6. l \in Nat /\ l < cursor[Parent(Source(i))]
    BY <2>5
  <2>7. /\ Len(s) = Len(Source(i)) /\ Parent(s) = Parent(Source(i))
        /\ s[Len(Source(i))] = Temps[l + 1]
    BY <1>4, <2>3, <2>4, <2>6, TempFacts
  <2>8. Temps[l + 1] = Temps[k + 1]
    BY <1>5, <2>7
  <2>9. l + 1 = k + 1
      <3>1. Len(Temps) \in Nat /\ DOMAIN Temps = 1..Len(Temps)
        BY ValuesAssumption, LenProperties
      <3>2. l + 1 \in DOMAIN Temps /\ k + 1 \in DOMAIN Temps
        BY <1>2, <2>4, <2>6, <3>1
      <3> QED BY <2>8, <3>2, ValuesAssumption DEF IsInjective
  <2>10. cursor[Parent(Source(i))] <= k
    BY <1>2, <1>5, <2>7
  <2> QED BY <1>2, <2>5, <2>6, <2>9, <2>10
  <1> QED BY <1>8, <1>9 DEF s, k

-----------------------------------------------------------------------------
(* release.                                                                *)

\* A stack of rows of M that wait for none, each in one place.
Stack(s, M, d) ==
    /\ s \in Seq(SUBSET Rows)
    /\ \A n \in DOMAIN s : s[n] \subseteq M /\ \A x \in s[n] : d[x] = 0
    /\ \A m, n \in DOMAIN s : m # n => s[m] \cap s[n] = {}

\* ... with more of them.
LEMMA PushKeeps ==
    ASSUME NEW M \in SUBSET Rows, NEW d, NEW s, Stack(s, M, d), NEW S \in SUBSET M,
           \A x \in S : d[x] = 0, \A n \in DOMAIN s : s[n] \cap S = {}
    PROVE  /\ Stack(Push(s, S), M, d)
           /\ \A n \in DOMAIN Push(s, S) : Push(s, S)[n] = S \/ \E m \in DOMAIN s : Push(s, S)[n] = s[m]
  <1>1. CASE S = {}
  <2>1. Push(s, S) = s
    BY <1>1 DEF Push
  <2> QED BY <2>1
  <1>2. CASE S # {}
  <2> DEFINE w == Append(s, S)
             l == Len(s) + 1
  <2>1. Push(s, S) = w
    BY <1>2 DEF Push
  <2>2. s \in Seq(SUBSET Rows) /\ S \in SUBSET Rows
    BY DEF Stack
  <2>3. /\ w \in Seq(SUBSET Rows) /\ l \in DOMAIN w /\ w[l] = S
        /\ \A n \in DOMAIN s : n \in DOMAIN w /\ w[n] = s[n] /\ n < l
        /\ \A n \in DOMAIN w : n \in DOMAIN s \/ n = l
    BY <2>2, AppendedFacts
  <2> HIDE DEF w, l
  <2>4. /\ \A n \in DOMAIN s : s[n] \subseteq M /\ \A x \in s[n] : d[x] = 0
        /\ \A m, n \in DOMAIN s : m # n => s[m] \cap s[n] = {}
    BY DEF Stack
  <2>5. \A n \in DOMAIN w : w[n] \subseteq M /\ \A x \in w[n] : d[x] = 0
    BY <2>3, <2>4
  <2>6. \A m, n \in DOMAIN w : m # n => w[m] \cap w[n] = {}
    BY <2>3, <2>4
  <2>7. \A n \in DOMAIN w : w[n] = S \/ \E m \in DOMAIN s : w[n] = s[m]
    BY <2>3
  <2> QED BY <2>1, <2>3, <2>5, <2>6, <2>7 DEF Stack
  <1> QED BY <1>1, <1>2

\* The stack without its top.
LEMMA FrontFacts ==
    ASSUME NEW S, NEW s \in Seq(S), s # <<>>
    PROVE  /\ Len(s) \in DOMAIN s /\ Last(s) = s[Len(s)] /\ Front(s) \in Seq(S)
           /\ \A n \in DOMAIN Front(s) : n \in DOMAIN s /\ n # Len(s) /\ Front(s)[n] = s[n]
  <1>1. Len(s) \in Nat \ {0} /\ DOMAIN s = 1..Len(s)
    BY EmptySeq, LenProperties
  <1>2. /\ SubSeq(s, 1, Len(s) - 1) \in Seq(S)
        /\ Len(SubSeq(s, 1, Len(s) - 1)) = IF 1 <= Len(s) - 1 THEN Len(s) - 1 - 1 + 1 ELSE 0
        /\ \A n \in 1..(Len(s) - 1 - 1 + 1) : SubSeq(s, 1, Len(s) - 1)[n] = s[1 + n - 1]
  <2>1. \A n \in 1..(Len(s) - 1) : s[n] \in S
      <3> TAKE n \in 1..(Len(s) - 1)
      <3>1. n \in 1..Len(s)
        BY <1>1
      <3> QED BY <1>1, <3>1, ElementOfSeq
  <2> QED BY <1>1, <2>1, SubSeqProperties
  <1>3. Len(Front(s)) = Len(s) - 1
    BY <1>1, <1>2, AllButOne, Zenon DEF Front
  <1>4. DOMAIN Front(s) = 1..(Len(s) - 1)
    BY <1>2, <1>3, LenProperties DEF Front
  <1>5. \A l \in Nat \ {0} : \A n \in 1..(l - 1) : /\ n \in 1..(l - 1 - 1 + 1) /\ 1 + n - 1 = n
                                                  /\ n \in 1..l /\ n # l
    OBVIOUS
  <1>6. \A n \in 1..(Len(s) - 1) : Front(s)[n] = s[n]
    BY <1>2, <1>5 DEF Front
  <1>7. Len(s) \in 1..Len(s)
    BY <1>1
  <1> QED BY <1>1, <1>2, <1>4, <1>5, <1>6, <1>7 DEF Front, Last

\* The rows x waits for.
Awaited(x, D) == {z \in Mov \ D : WaitsFor(x, z)}

\* A row that waits for none may go: what it waited for is gone.
LEMMA WaitsForNone ==
    ASSUME PInv, Clean, pc = "order", NEW x \in Mov \ done, degree[x] = 0
    PROVE  \A z \in Mov : WaitsFor(x, z) => z \in done
  <1>1. degree[x] = Cardinality(Awaited(x, done))
    BY DEF PInv, OrderInv, DegreeInv, Awaited
  <1>2. IsFiniteSet(Mov)
    BY ChecksPassed
  <1>3. IsFiniteSet(Awaited(x, done))
    BY <1>2, FS_Subset DEF Awaited
  <1>4. Awaited(x, done) = {}
    BY <1>1, <1>3, FS_EmptySet
  <1> QED BY <1>4 DEF Awaited

\* release keeps the counts and the stack.
LEMMA ReleaseKeeps ==
    ASSUME PInv, Clean, pc = "order", UNCHANGED <<job, state, target, wanted, stuck, lands>>,
           NEW y \in Mov \ done, NEW left, Stack(left, Mov \ (done \cup {y}), degree),
           Release(y, left)
    PROVE  DegreeInv' /\ ReadyInv'
  <1> DEFINE W == Waiting(y)
             M == Mov \ (done \cup {y})
  <1>1. /\ job \in Jobs /\ Checked /\ Movers = Mov /\ Mov \subseteq Rows /\ IsFiniteSet(Mov)
        /\ \A i \in Rows : target[i] = To(i)
    BY ChecksPassed, Zenon DEF Planning
  <1>2. /\ Rows' = Rows /\ Mov' = Mov
        /\ \A k : Source(k)' = Source(k) /\ To(k)' = To(k)
        /\ \A x, z : WaitsFor(x, z)' <=> WaitsFor(x, z)
    BY SameJob, SameWaits
  <1>3. DegreeInv
    BY DEF PInv, OrderInv
  <1> DEFINE A == {x \in W : degree[x] = 1 /\ WaitsForName(x, y)}
             B == {x \in W : degree[x] = 1 /\ StrictlyUnder(Source(x), Source(y))}
  <1>4. /\ done' = done \cup {y}
        /\ \A x \in Rows : degree'[x] = IF x \in W THEN degree[x] - 1 ELSE degree[x]
        /\ ready' = Push(Push(left, A), B)
  <2>1. {x \in {x \in W : degree[x] = 1} : WaitsForName(x, y)} = A
    OBVIOUS
  <2>2. {x \in {x \in W : degree[x] = 1} : StrictlyUnder(Source(x), Source(y))} = B
    OBVIOUS
  <2> QED BY <2>1, <2>2 DEF Release
  <1>5. \A x : x \in W <=> x \in Mov \ done /\ WaitsFor(x, y)
    BY <1>1 DEF Waiting
  <1>6. ~WaitsFor(y, y)
    BY DEF WaitsFor, WaitsForName, StrictlyUnder
  <1> HIDE DEF W, M, A, B
  <1>7. W \subseteq M
    BY <1>5, <1>6 DEF M
  <1>8. M \subseteq Rows /\ M \subseteq Mov \ done /\ y \notin M /\ Mov \ done' = M
    BY <1>1, <1>4 DEF M
  <1>9. \A x \in M : /\ IsFiniteSet(Awaited(x, done)) /\ degree[x] = Cardinality(Awaited(x, done))
                     /\ Cardinality(Awaited(x, done)) \in Nat
  <2> TAKE x \in M
  <2>1. degree[x] = Cardinality(Awaited(x, done))
    BY <1>3, <1>8 DEF DegreeInv, Awaited
  <2>2. IsFiniteSet(Awaited(x, done))
    BY <1>1, FS_Subset DEF Awaited
  <2> QED BY <2>1, <2>2, FS_CardinalityType
  <1>10. \A x \in M : Awaited(x, done \cup {y}) = Awaited(x, done) \ {y}
    BY DEF Awaited
  <1>11. \A x \in M : degree'[x] = Cardinality(Awaited(x, done \cup {y}))
  <2> TAKE x \in M
  <2>1. x \in W <=> y \in Awaited(x, done)
    BY <1>5, <1>8 DEF Awaited
  <2>2. Cardinality(Awaited(x, done) \ {y}) =
           IF y \in Awaited(x, done) THEN Cardinality(Awaited(x, done)) - 1
           ELSE Cardinality(Awaited(x, done))
    BY <1>9, FS_RemoveElement
  <2>3. degree'[x] = IF x \in W THEN degree[x] - 1 ELSE degree[x]
    BY <1>4, <1>8
  <2> QED BY <1>9, <1>10, <2>1, <2>2, <2>3
  <1>12. DegreeInv'
  <2>1. done' \subseteq Mov
    BY <1>3, <1>4 DEF DegreeInv
  <2>2. ASSUME NEW x \in Mov \ done'
        PROVE  degree'[x] = Cardinality({z \in Mov \ done' : WaitsFor(x, z)'})
      <3>1. degree'[x] = Cardinality(Awaited(x, done \cup {y}))
        BY <1>8, <1>11, <2>2
      <3>2. {z \in Mov \ done' : WaitsFor(x, z)'} = {z \in Mov \ (done \cup {y}) : WaitsFor(x, z)}
        BY <1>2, <1>4
      <3> QED BY <3>1, <3>2 DEF Awaited
  <2> QED BY <1>2, <2>1, <2>2 DEF DegreeInv
  <1>13. \A x \in M : degree[x] = 0 => x \notin W /\ degree'[x] = 0
  <2> SUFFICES ASSUME NEW x \in M, degree[x] = 0 PROVE x \notin W /\ degree'[x] = 0
    OBVIOUS
  <2>1. Awaited(x, done) = {}
    BY <1>9, FS_EmptySet
  <2>2. x \notin W
    BY <1>5, <2>1 DEF Awaited
  <2>3. x \in Rows
    BY <1>8
  <2> QED BY <1>4, <2>2, <2>3
  <1>14. Stack(left, M, degree')
  <2>1. /\ left \in Seq(SUBSET Rows)
        /\ \A n \in DOMAIN left : left[n] \subseteq M /\ \A x \in left[n] : degree[x] = 0
        /\ \A m, n \in DOMAIN left : m # n => left[m] \cap left[n] = {}
    BY DEF Stack, M
  <2>2. \A n \in DOMAIN left : \A x \in left[n] : degree'[x] = 0
    BY <1>13, <2>1
  <2> QED BY <2>1, <2>2 DEF Stack
  <1>15. \A n \in DOMAIN left : left[n] \cap W = {}
    BY <1>13 DEF Stack, M
  <1>16. /\ A \in SUBSET M /\ B \in SUBSET M /\ A \subseteq W /\ B \subseteq W
    BY <1>7 DEF A, B
  <1>17. \A x \in A \cup B : degree'[x] = 0
  <2> TAKE x \in A \cup B
  <2>1. x \in W /\ degree[x] = 1 /\ x \in Rows
    BY <1>7, <1>8 DEF A, B
  <2> QED BY <1>4, <2>1
  <1>18. A \cap B = {}
  <2> SUFFICES ASSUME NEW x \in A, x \in B PROVE FALSE
    OBVIOUS
  <2>1. /\ Source(y) = target[x] /\ StrictlyUnder(Source(x), Source(y)) /\ x \in Mov /\ x \in Rows
    BY <1>7, <1>8 DEF A, B, WaitsForName
  <2>2. AtOrUnder(Source(x), To(x))
    BY <1>1, <2>1 DEF StrictlyUnder
  <2> QED BY <1>1, <2>1, <2>2 DEF Checked, WaysClear
  <1>19. /\ Stack(Push(left, A), M, degree')
         /\ \A n \in DOMAIN Push(left, A) : \/ Push(left, A)[n] = A
                                            \/ \E m \in DOMAIN left : Push(left, A)[n] = left[m]
  <2>1. \A n \in DOMAIN left : left[n] \cap A = {}
    BY <1>15, <1>16
  <2>2. \A x \in A : degree'[x] = 0
    BY <1>17
  <2>3. M \in SUBSET Rows
    BY <1>8
  <2> QED BY <1>14, <1>16, <2>1, <2>2, <2>3, PushKeeps
  <1>20. Stack(Push(Push(left, A), B), M, degree')
  <2>1. \A n \in DOMAIN Push(left, A) : Push(left, A)[n] \cap B = {}
    BY <1>15, <1>16, <1>18, <1>19
  <2>2. \A x \in B : degree'[x] = 0
    BY <1>17
  <2>3. M \in SUBSET Rows
    BY <1>8
  <2> QED BY <1>16, <1>19, <2>1, <2>2, <2>3, PushKeeps
  <1>21. ReadyInv'
  <2>1. Stack(ready', M, degree')
    BY <1>4, <1>20
  <2>2. Mov' \ done' = M
    BY <1>2, <1>8
  <2> QED BY <1>2, <2>1, <2>2 DEF Stack, ReadyInv
  <1> QED BY <1>12, <1>21

-----------------------------------------------------------------------------
(* The steps of order_renames.                                             *)

\* What such a step leaves alone.
LEMMA OrderShape ==
    ASSUME PInv, pc = "order", pc' = "order",
           UNCHANGED <<job, state, target, wanted, lands, landed, ops, trees, dates>>,
           degree' = [x \in Rows |-> degree'[x]],
           cursor' \in [{Parent(Source(i)) : i \in Rows} -> Nat], stuck' \subseteq Rows
    PROVE  StateInv'
  <1>1. TypeInv /\ StatesInv /\ PassInv
    BY DEF PInv, StateInv
  <1>2. /\ Rows' = Rows
        /\ \A k : Source(k)' = Source(k) /\ To(k)' = To(k)
    BY SameJob
  <1>3. TypeInv'
    BY <1>1, <1>2 DEF TypeInv
  <1>4. StatesInv'
    BY <1>1, <1>2 DEF StatesInv, Planning
  <1>5. PassInv'
    BY <1>1 DEF PassInv, Checking, Planning
  <1> QED BY <1>3, <1>4, <1>5 DEF StateInv

\* The renames so far are first halves, of rows that go after those they wait for.
LEMMA FirstHalvesSoFar ==
    ASSUME PInv, Clean, pc = "order"
    PROVE  /\ FirstHalves(renames, done)
           /\ \A x \in done, z \in Mov : StrictlyUnder(Source(x), Source(z)) => z \in done
           /\ \A n \in DOMAIN renames : \A z \in Mov : renames[n].to = Source(z) => z \in done
           /\ SeqInv(renames, finishes, done) /\ done \in SUBSET Mov
  <1>1. DoneInv /\ SeqInv(renames, finishes, done) /\ done \in SUBSET Mov
    BY DEF PInv, OrderInv, DegreeInv
  <1>2. job \in Jobs /\ Mov \subseteq Rows
    BY ChecksPassed
  <1>3. ASSUME NEW n \in DOMAIN renames
        PROVE  \E i \in done : renames[n].from = Source(i) /\ (renames[n].to = To(i) \/ Spare(i, renames[n].to))
  <2>1. PICK i \in done : Direct(renames[n], i) \/ Staging(renames[n], i) \/ Finishing(renames[n], i)
    BY <1>1 DEF SeqInv
  <2>2. ~Finishing(renames[n], i)
      <3>1. PICK j \in done : renames[n].from = Source(j)
        BY <1>1 DEF DoneInv
      <3>2. Source(j) \in DOMAIN job.tree
        BY <1>1, <1>2, JobFacts
      <3> QED BY <3>1, <3>2 DEF Finishing, Spare
  <2> QED BY <2>1, <2>2 DEF Direct, Staging
  <1> QED BY <1>1, <1>3 DEF FirstHalves, DoneInv

\* A row goes to its target.
LEMMA MoveStep ==
    ASSUME PInv, Move
    PROVE  PInv'
  <1>1. /\ pc = "order" /\ pc' = "order" /\ ready # <<>>
        /\ UNCHANGED <<job, state, target, wanted, stuck, cursor, finishes>>
        /\ UNCHANGED <<lands, landed, ops, trees, dates>>
    BY DEF Move, listing, plan, disk
  <1>2. PICK y \in Movers :
           /\ FirstOf(Last(ready), y)
           /\ renames' = Append(renames, Renaming(Source(y), target[y]))
           /\ Release(y, Push(Front(ready), Last(ready) \ {y}))
    BY DEF Move
  <1>3. StateInv'
  <2>1. degree' = [x \in Rows |-> degree'[x]]
    BY <1>2 DEF Release
  <2>2. cursor' \in [{Parent(Source(i)) : i \in Rows} -> Nat] /\ stuck' \subseteq Rows
    BY <1>1 DEF PInv, StateInv, TypeInv
  <2> QED BY <1>1, <2>1, <2>2, OrderShape
  <1>4. /\ Clean' <=> Clean
        /\ Clean => CheckInv'
        /\ Rows' = Rows /\ Mov' = Mov
        /\ \A k : Source(k)' = Source(k) /\ To(k)' = To(k)
    BY <1>1, SameChecks
  <1>5. ASSUME Clean PROVE OrderInv'
  <2>1. /\ job \in Jobs /\ Checked /\ Movers = Mov /\ Mov \subseteq Rows
        /\ \A i \in Rows : target[i] = To(i)
    BY <1>1, <1>5, ChecksPassed, Zenon DEF Planning
  <2> DEFINE M == Mov \ (done \cup {y})
  <2>2. Stack(ready, Mov \ done, degree)
    BY <1>1, <1>5 DEF PInv, OrderInv, ReadyInv, Stack
  <2>3. /\ Len(ready) \in DOMAIN ready /\ Last(ready) = ready[Len(ready)]
        /\ Front(ready) \in Seq(SUBSET Rows)
        /\ \A n \in DOMAIN Front(ready) : n \in DOMAIN ready /\ n # Len(ready) /\ Front(ready)[n] = ready[n]
    BY <1>1, <2>2, FrontFacts DEF Stack
  <2> DEFINE top == Last(ready)
             rest == Front(ready)
  <2>4. y \in top
    BY <1>2 DEF FirstOf
  <2> HIDE DEF top, rest, M
  <2>5. /\ top \subseteq Mov \ done /\ (\A x \in top : degree[x] = 0)
        /\ \A n \in DOMAIN rest : rest[n] \cap top = {}
    BY <2>2, <2>3 DEF Stack, top, rest
  <2>6. y \in Mov \ done /\ degree[y] = 0
    BY <2>4, <2>5
  <2>7. Stack(rest, M, degree)
      <3>1. \A n \in DOMAIN rest : rest[n] \subseteq Mov \ done /\ \A x \in rest[n] : degree[x] = 0
        BY <2>2, <2>3 DEF Stack, rest
      <3>2. \A n \in DOMAIN rest : rest[n] \subseteq M
        BY <2>4, <2>5, <3>1 DEF M
      <3>3. \A m, n \in DOMAIN rest : m # n => rest[m] \cap rest[n] = {}
        BY <2>2, <2>3 DEF Stack, rest
      <3> QED BY <2>3, <3>1, <3>2, <3>3 DEF Stack, rest
  <2>8. Stack(Push(rest, top \ {y}), M, degree)
      <3>1. top \ {y} \in SUBSET M /\ M \in SUBSET Rows
        BY <2>1, <2>5 DEF M
      <3>2. \A x \in top \ {y} : degree[x] = 0
        BY <2>5
      <3>3. \A n \in DOMAIN rest : rest[n] \cap (top \ {y}) = {}
        BY <2>5
      <3> QED BY <2>7, <3>1, <3>2, <3>3, PushKeeps
  <2>9. Release(y, Push(rest, top \ {y}))
    BY <1>2 DEF rest, top
  <2>10. DegreeInv' /\ ReadyInv'
    BY <1>1, <1>5, <2>6, <2>8, <2>9, ReleaseKeeps DEF M
  <2>11. done' = done \cup {y}
    BY <2>9 DEF Release
  <2>12. \A z \in Mov : WaitsFor(y, z) => z \in done
    BY <1>1, <1>5, <2>6, WaitsForNone
  <2>13. /\ FirstHalves(renames, done)
         /\ \A x \in done, z \in Mov : StrictlyUnder(Source(x), Source(z)) => z \in done
         /\ \A n \in DOMAIN renames : \A z \in Mov : renames[n].to = Source(z) => z \in done
         /\ SeqInv(renames, finishes, done) /\ done \in SUBSET Mov
    BY <1>1, <1>5, FirstHalvesSoFar
  <2> DEFINE e == Renaming(Source(y), To(y))
  <2>14. renames' = Append(renames, e)
    BY <1>2, <2>1, <2>6
  <2>15. e.from = Source(y) /\ e.to = To(y)
    BY DEF Renaming
  <2>16. SeqInv(Append(renames, e), finishes, done \cup {y})
    BY <2>1, <2>6, <2>13, MoveKeeps
  <2>17. e \in RenameOps /\ renames \in Seq(RenameOps)
      <3>1. Source(y) \in Paths /\ To(y) \in Paths
        BY <2>1, <2>6, GoesThrough
      <3>2. e \in RenameOps
        BY <3>1, RenamingFacts
      <3>3. renames \in Seq(RenameOps)
        BY <2>13 DEF SeqInv
      <3> QED BY <3>2, <3>3
  <2> HIDE DEF e
  <2>18. SeqInv(renames, finishes, done)'
    BY <1>1, <2>11, <2>14, <2>16, SameSeq
  <2>19. DoneInv'
      <3> DEFINE w == Append(renames, e)
                 l == Len(renames) + 1
      <3>1. /\ l \in DOMAIN w /\ w[l] = e
            /\ \A n \in DOMAIN renames : n \in DOMAIN w /\ w[n] = renames[n]
            /\ \A n \in DOMAIN w : n \in DOMAIN renames \/ n = l
        BY <2>17, AppendedFacts
      <3> HIDE DEF w, l
      <3>2. ASSUME NEW x \in done \cup {y}, NEW z \in Mov, StrictlyUnder(Source(x), Source(z))
            PROVE  z \in done \cup {y}
        BY <2>12, <2>13, <3>2 DEF WaitsFor
      <3>3. ASSUME NEW n \in DOMAIN w, NEW z \in Mov, w[n].to = Source(z)
            PROVE  z \in done \cup {y}
        <4>1. CASE n = l
          <5>1. To(y) = Source(z) /\ target[y] = To(y)
            BY <2>1, <2>6, <2>15, <3>1, <3>3, <4>1
          <5>2. z # y
            BY <2>6, <5>1 DEF Mov
          <5> QED BY <2>12, <5>1, <5>2 DEF WaitsFor, WaitsForName
        <4> QED BY <2>13, <3>1, <3>3, <4>1
      <3>4. ASSUME NEW n \in DOMAIN w
            PROVE  \E i \in done \cup {y} :
                      /\ w[n].from = Source(i)
                      /\ \/ w[n].to = To(i)
                         \/ \E k \in 0..(cursor[Parent(Source(i))] - 1) :
                               k < Len(Temps) /\ w[n].to = Temp(Source(i), k)
        <4>1. CASE n = l
          BY <2>15, <3>1, <4>1
        <4>2. CASE n \in DOMAIN renames
          <5>1. \E i \in done :
                   /\ renames[n].from = Source(i)
                   /\ \/ renames[n].to = To(i)
                      \/ \E k \in 0..(cursor[Parent(Source(i))] - 1) :
                            k < Len(Temps) /\ renames[n].to = Temp(Source(i), k)
            BY <1>1, <1>5, <4>2 DEF PInv, OrderInv, DoneInv
          <5>2. w[n] = renames[n]
            BY <3>1, <4>2
          <5> QED BY <5>1, <5>2
        <4> QED BY <3>1, <4>1, <4>2
      <3>5. renames' = w
        BY <2>14 DEF w
      <3>6. /\ \A x \in done', z \in Mov' : StrictlyUnder(Source(x)', Source(z)') => z \in done'
            /\ \A n \in DOMAIN renames' : \A z \in Mov' : renames'[n].to = Source(z)' => z \in done'
        BY <1>4, <2>11, <3>2, <3>3, <3>5
      <3>7. \A n \in DOMAIN renames' : \E i \in done' :
               /\ renames'[n].from = Source(i)'
               /\ \/ renames'[n].to = To(i)'
                  \/ \E k \in 0..(cursor'[Parent(Source(i)')] - 1) :
                        k < Len(Temps) /\ renames'[n].to = Temp(Source(i)', k)
        BY <1>1, <1>4, <2>11, <3>4, <3>5, Zenon
      <3> QED BY <3>6, <3>7 DEF DoneInv
  <2> QED BY <2>10, <2>18, <2>19 DEF OrderInv
  <1> QED BY <1>1, <1>3, <1>4, <1>5 DEF PInv, Planning

-----------------------------------------------------------------------------
\* A row goes by a temporary name, out of the way of those that wait for it.
LEMMA StageStep ==
    ASSUME PInv, Stage
    PROVE  PInv'
  <1>1. /\ pc = "order" /\ pc' = "order" /\ ready = <<>>
        /\ UNCHANGED <<job, state, target, wanted, stuck>>
        /\ UNCHANGED <<lands, landed, ops, trees, dates>>
    BY DEF Stage, listing, plan, disk
  <1> PICK v \in Movers :
           /\ FirstOf(Victims, v)
           /\ Free(Source(v)) # {}
           /\ LET p == Source(v)
                  k == Min(Free(p))
              IN  /\ cursor' = [cursor EXCEPT ![Parent(p)] = k + 1]
                  /\ renames' = Append(renames, Renaming(p, Temp(p, k)))
                  /\ finishes' = Append(finishes, Renaming(Temp(p, k), target[v]))
           /\ Release(v, <<>>)
    BY DEF Stage
  <1> DEFINE k == Min(Free(Source(v)))
             s == Temp(Source(v), k)
  <1>2. /\ FirstOf(Victims, v) /\ Free(Source(v)) # {} /\ Release(v, <<>>)
        /\ cursor' = [cursor EXCEPT ![Parent(Source(v))] = k + 1]
        /\ renames' = Append(renames, Renaming(Source(v), s))
        /\ finishes' = Append(finishes, Renaming(s, target[v]))
    OBVIOUS
  <1>3. TypeInv /\ v \in Rows
    BY DEF PInv, StateInv, Movers
  <1>4. /\ k \in Nat /\ k < Len(Temps) /\ cursor[Parent(Source(v))] <= k
        /\ s \notin Reserved /\ s \notin DOMAIN job.tree
    BY <1>2, <1>3, FreeFacts
  <1>5. Clean => Spare(v, s) /\ \A n \in DOMAIN renames : renames[n].to # s
    BY <1>1, <1>2, <1>3, FreeIsSpare
  <1> HIDE DEF k
  <1>6. cursor' \in [{Parent(Source(i)) : i \in Rows} -> Nat]
  <2>1. cursor \in [{Parent(Source(i)) : i \in Rows} -> Nat]
    BY <1>3 DEF TypeInv
  <2>2. k + 1 \in Nat
    BY <1>4
  <2> QED BY <1>2, <2>1, <2>2
  <1>7. \A i \in Rows : /\ cursor[Parent(Source(i))] \in Nat /\ cursor'[Parent(Source(i))] \in Nat
                        /\ cursor[Parent(Source(i))] <= cursor'[Parent(Source(i))]
  <2>1. cursor \in [{Parent(Source(i)) : i \in Rows} -> Nat]
    BY <1>3 DEF TypeInv
  <2> TAKE i \in Rows
  <2>2. cursor[Parent(Source(i))] \in Nat /\ cursor'[Parent(Source(i))] \in Nat
    BY <1>6, <2>1
  <2>3. \/ cursor'[Parent(Source(i))] = cursor[Parent(Source(i))]
        \/ Parent(Source(i)) = Parent(Source(v)) /\ cursor'[Parent(Source(i))] = k + 1
    BY <1>2, <2>1
  <2> QED BY <1>4, <2>2, <2>3
  <1>8. cursor'[Parent(Source(v))] = k + 1
    BY <1>2, <1>3 DEF TypeInv
  <1> HIDE DEF s
  <1>9. StateInv'
  <2>1. degree' = [x \in Rows |-> degree'[x]]
    BY <1>2 DEF Release
  <2>2. stuck' \subseteq Rows
    BY <1>1, <1>3 DEF TypeInv
  <2> QED BY <1>1, <1>6, <2>1, <2>2, OrderShape
  <1>10. /\ Clean' <=> Clean
         /\ Clean => CheckInv'
         /\ Rows' = Rows /\ Mov' = Mov
         /\ \A i : Source(i)' = Source(i) /\ To(i)' = To(i)
    BY <1>1, SameChecks
  <1>11. ASSUME Clean PROVE OrderInv'
  <2>1. /\ job \in Jobs /\ Checked /\ Movers = Mov /\ Mov \subseteq Rows
        /\ \A i \in Rows : target[i] = To(i)
    BY <1>1, <1>11, ChecksPassed, Zenon DEF Planning
  <2>2. /\ FirstHalves(renames, done)
        /\ \A x \in done, z \in Mov : StrictlyUnder(Source(x), Source(z)) => z \in done
        /\ \A n \in DOMAIN renames : \A z \in Mov : renames[n].to = Source(z) => z \in done
        /\ SeqInv(renames, finishes, done) /\ done \in SUBSET Mov
    BY <1>1, <1>11, FirstHalvesSoFar
  <2>3. Victims = Mov \ done
    BY <1>11, <2>1 DEF Victims, Clean
  <2>4. v \in Mov \ done /\ \A z \in (Mov \ done) \ {v} : Before(v, z)
    BY <1>2, <2>3 DEF FirstOf
  <2>5. \A z \in Mov : StrictlyUnder(Source(v), Source(z)) => z \in done
      <3> SUFFICES ASSUME NEW z \in Mov, StrictlyUnder(Source(v), Source(z)), z \notin done PROVE FALSE
        OBVIOUS
      <3>1. Source(v) \in Paths /\ Source(z) \in Paths
        BY <2>1, <2>4, JobFacts
      <3>2. Len(Source(v)) < Len(Source(z)) /\ Len(Source(v)) \in Nat /\ Len(Source(z)) \in Nat
        BY <3>1, AboveFacts, PathFacts
      <3>3. z # v
        BY <3>2
      <3>4. Len(Source(v)) > Len(Source(z)) \/ Len(Source(v)) = Len(Source(z))
        BY <2>4, <3>3 DEF Before
      <3> QED BY <3>2, <3>4
  <2>6. DegreeInv' /\ ReadyInv'
      <3>1. Stack(<<>>, Mov \ (done \cup {v}), degree)
        <4>1. <<>> \in Seq(SUBSET Rows) /\ DOMAIN (<<>>) = {}
          BY EmptySeq
        <4> QED BY <4>1 DEF Stack
      <3> QED BY <1>1, <1>2, <1>11, <2>4, <3>1, ReleaseKeeps
  <2>7. done' = done \cup {v}
    BY <1>2 DEF Release
  <2> DEFINE e == Renaming(Source(v), s)
             f == Renaming(s, To(v))
  <2>8. renames' = Append(renames, e) /\ finishes' = Append(finishes, f)
    BY <1>2, <2>1, <2>4
  <2>9. Spare(v, s) /\ \A n \in DOMAIN renames : renames[n].to # s
    BY <1>5, <1>11
  <2>10. SeqInv(Append(renames, e), Append(finishes, f), done \cup {v})
    BY <2>1, <2>2, <2>4, <2>9, StageKeeps
  <2>11. e \in RenameOps /\ renames \in Seq(RenameOps) /\ e.from = Source(v) /\ e.to = s
      <3>1. Source(v) \in Paths /\ s \in Paths
        BY <2>1, <2>4, <2>9, GoesThrough DEF Spare
      <3>2. e \in RenameOps /\ e.from = Source(v) /\ e.to = s
        BY <3>1, RenamingFacts
      <3>3. renames \in Seq(RenameOps)
        BY <2>2 DEF SeqInv
      <3> QED BY <3>2, <3>3
  <2> HIDE DEF e, f
  <2>12. SeqInv(renames, finishes, done)'
    BY <1>1, <2>7, <2>8, <2>10, SameSeq
  <2>13. DoneInv'
      <3> DEFINE w == Append(renames, e)
                 l == Len(renames) + 1
      <3>1. /\ l \in DOMAIN w /\ w[l] = e
            /\ \A n \in DOMAIN renames : n \in DOMAIN w /\ w[n] = renames[n]
            /\ \A n \in DOMAIN w : n \in DOMAIN renames \/ n = l
        BY <2>11, AppendedFacts
      <3> HIDE DEF w, l
      <3>2. ASSUME NEW x \in done \cup {v}, NEW z \in Mov, StrictlyUnder(Source(x), Source(z))
            PROVE  z \in done \cup {v}
        BY <2>2, <2>5, <3>2
      <3>3. ASSUME NEW n \in DOMAIN w, NEW z \in Mov, w[n].to = Source(z)
            PROVE  z \in done \cup {v}
        <4>1. CASE n = l
          <5>1. s = Source(z) /\ z \in Rows
            BY <2>1, <2>11, <3>1, <3>3, <4>1
          <5>2. Source(z) \in DOMAIN job.tree
            BY <2>1, <5>1, JobFacts
          <5> QED BY <1>4, <5>1, <5>2
        <4> QED BY <2>2, <3>1, <3>3, <4>1
      <3>4. ASSUME NEW n \in DOMAIN w
            PROVE  \E i \in done \cup {v} :
                      /\ w[n].from = Source(i)
                      /\ \/ w[n].to = To(i)
                         \/ \E l2 \in 0..(cursor'[Parent(Source(i))] - 1) :
                               l2 < Len(Temps) /\ w[n].to = Temp(Source(i), l2)
        <4>1. CASE n = l
          <5>1. k \in 0..(cursor'[Parent(Source(v))] - 1)
            BY <1>4, <1>8
          <5>2. w[n].from = Source(v) /\ w[n].to = Temp(Source(v), k)
            BY <2>11, <3>1, <4>1 DEF s
          <5> QED BY <1>4, <5>1, <5>2
        <4>2. CASE n \in DOMAIN renames
          <5>1. PICK i \in done :
                   /\ renames[n].from = Source(i)
                   /\ \/ renames[n].to = To(i)
                      \/ \E l2 \in 0..(cursor[Parent(Source(i))] - 1) :
                            l2 < Len(Temps) /\ renames[n].to = Temp(Source(i), l2)
            BY <1>1, <1>11, <4>2 DEF PInv, OrderInv, DoneInv
          <5>2. w[n] = renames[n]
            BY <3>1, <4>2
          <5>3. i \in Rows
            BY <2>1, <2>2
          <5>4. \A l2 \in 0..(cursor[Parent(Source(i))] - 1) : l2 \in 0..(cursor'[Parent(Source(i))] - 1)
            BY <1>7, <5>3
          <5> QED BY <5>1, <5>2, <5>4
        <4> QED BY <3>1, <4>1, <4>2
      <3>5. renames' = w
        BY <2>8 DEF w
      <3>6. /\ \A x \in done', z \in Mov' : StrictlyUnder(Source(x)', Source(z)') => z \in done'
            /\ \A n \in DOMAIN renames' : \A z \in Mov' : renames'[n].to = Source(z)' => z \in done'
        BY <1>10, <2>7, <3>2, <3>3, <3>5
      <3>7. \A n \in DOMAIN renames' : \E i \in done' :
               /\ renames'[n].from = Source(i)'
               /\ \/ renames'[n].to = To(i)'
                  \/ \E l2 \in 0..(cursor'[Parent(Source(i)')] - 1) :
                        l2 < Len(Temps) /\ renames'[n].to = Temp(Source(i)', l2)
        BY <1>10, <2>7, <3>4, <3>5, Zenon
      <3> QED BY <3>6, <3>7 DEF DoneInv
  <2> QED BY <2>6, <2>12, <2>13 DEF OrderInv
  <1> QED BY <1>1, <1>9, <1>10, <1>11 DEF PInv, Planning

\* No temporary name is free: the row is stuck, and the plan will not run.
LEMMA StickStep ==
    ASSUME PInv, Stick
    PROVE  PInv'
  <1>1. /\ pc = "order" /\ pc' = "order"
        /\ UNCHANGED <<job, state, target, wanted, degree>>
        /\ UNCHANGED <<lands, landed, ops, trees, dates>>
    BY DEF Stick, listing, plan, disk
  <1>2. PICK v \in Movers : /\ cursor' = [cursor EXCEPT ![Parent(Source(v))] = Limit(Source(v))]
                            /\ stuck' = stuck \cup {v}
    BY DEF Stick
  <1>3. TypeInv /\ v \in Rows
    BY DEF PInv, StateInv, Movers
  <1>4. Limit(Source(v)) \in Nat
  <2>1. cursor[Parent(Source(v))] \in Nat
    BY <1>3 DEF TypeInv
  <2>2. TEMP_NAMES_ON_DISK \in Nat
    BY ValuesAssumption
  <2> QED BY <1>3, <2>1, <2>2, ReservedFinite DEF Limit
  <1>5. cursor' \in [{Parent(Source(i)) : i \in Rows} -> Nat]
  <2>1. cursor \in [{Parent(Source(i)) : i \in Rows} -> Nat]
    BY <1>3 DEF TypeInv
  <2> QED BY <1>2, <1>4, <2>1
  <1>6. StateInv'
  <2>1. degree' = [x \in Rows |-> degree'[x]]
    BY <1>1, <1>3 DEF TypeInv
  <2>2. stuck' \subseteq Rows
    BY <1>2, <1>3 DEF TypeInv
  <2> QED BY <1>1, <1>5, <2>1, <2>2, OrderShape
  <1>7. ~Clean'
    BY <1>2 DEF Clean
  <1> QED BY <1>1, <1>6, <1>7 DEF PInv

\* Every row is done, or stuck.
LEMMA FinishStep ==
    ASSUME PInv, Finish
    PROVE  PInv'
  <1>1. /\ pc = "order" /\ pc' = "place" /\ Victims = {}
        /\ state' = [i \in Rows |-> IF i \in stuck THEN "UnresolvedCycle" ELSE state[i]]
        /\ stuck = {} => UNCHANGED <<renames, finishes>>
        /\ UNCHANGED <<job, target, wanted, degree, done, stuck, cursor>>
        /\ UNCHANGED <<lands, landed, ops, trees, dates>>
    BY DEF Finish, plan, disk
  <1>2. TypeInv /\ StatesInv /\ PassInv
    BY DEF PInv, StateInv
  <1>3. /\ Rows' = Rows /\ Mov' = Mov
        /\ \A k : Source(k)' = Source(k) /\ To(k)' = To(k)
    BY <1>1, SameJob
  <1>4. TypeInv'
    BY <1>1, <1>2, <1>3 DEF TypeInv, Planning
  <1>5. StatesInv'
  <2>1. \A i \in Rows : state'[i] = state[i] \/ state'[i] = "UnresolvedCycle"
    BY <1>1
  <2>2. \A i \in stuck : state'[i] = "UnresolvedCycle"
    BY <1>1, <1>2 DEF TypeInv
  <2> QED BY <1>1, <1>2, <1>3, <2>1, <2>2 DEF StatesInv
  <1>6. PassInv'
    BY <1>1, <1>2 DEF PassInv, Checking, Planning
  <1>7. ASSUME Clean' PROVE CheckInv' /\ SeqInv(renames, finishes, Mov)' /\ LandsInv'
  <2>1. stuck = {}
    BY <1>1, <1>7 DEF Clean
  <2>2. state' = state
    BY <1>1, <1>2, <2>1 DEF TypeInv
  <2>3. UNCHANGED <<job, state, target, wanted, stuck, lands>> /\ renames' = renames /\ finishes' = finishes
    BY <1>1, <2>1, <2>2
  <2>4. Clean /\ CheckInv'
    BY <1>1, <1>7, <2>3, SameChecks DEF Planning
  <2>5. Movers = Mov
    BY <1>1, <2>4, ChecksPassed
  <2>6. SeqInv(renames, finishes, done) /\ done = Mov
      <3>1. OrderInv
        BY <1>1, <2>4 DEF PInv
      <3> QED BY <1>1, <2>1, <2>5, <3>1 DEF OrderInv, DegreeInv, Victims
  <2>7. SeqInv(renames, finishes, Mov)'
    BY <1>1, <2>3, <2>6, SameSeq
  <2>8. LandsInv'
      <3>1. DOMAIN lands = {}
        BY <1>1, <1>2 DEF PassInv, Planning
      <3> QED BY <1>1, <3>1 DEF LandsInv
  <2> QED BY <2>4, <2>7, <2>8
  <1> QED BY <1>1, <1>4, <1>5, <1>6, <1>7 DEF PInv, StateInv, Planning

-----------------------------------------------------------------------------
(* From the renames to the plan.                                           *)

\* What a step after order_renames leaves alone.
LEMMA PlanShape ==
    ASSUME PInv, pc \in Planning, pc' \in Planning \cup {"refused"},
           UNCHANGED <<job, state, wanted, degree, stuck, cursor>>,
           target' = [i \in Rows |-> target'[i]], DOMAIN lands' \subseteq Rows,
           pc' = "place" => UNCHANGED <<landed, ops>> /\ pc = "place",
           pc' # "run" => UNCHANGED <<trees, dates>> /\ pc # "run"
    PROVE  StateInv'
  <1>1. TypeInv /\ StatesInv /\ PassInv
    BY DEF PInv, StateInv
  <1>2. /\ Rows' = Rows
        /\ \A k : Source(k)' = Source(k) /\ To(k)' = To(k)
    BY SameJob
  <1>3. TypeInv'
    BY <1>1, <1>2 DEF TypeInv
  <1>4. StatesInv'
    BY <1>1, <1>2 DEF StatesInv
  <1>5. PassInv'
    BY <1>1 DEF PassInv, Checking, Planning
  <1> QED BY <1>3, <1>4, <1>5 DEF StateInv

\* Where the rows come to rest, after a step that resolves none.
LEMMA SameLands ==
    ASSUME UNCHANGED <<job, lands>>
    PROVE  LandsInv' <=> LandsInv
  <1>1. Rows' = Rows /\ \A k : Source(k)' = Source(k) /\ To(k)' = To(k)
    BY SameJob
  <1>2. \A i : {j \in Rows' : StrictlyUnder(Source(j)', Source(i)')}
                 = {j \in Rows : StrictlyUnder(Source(j), Source(i))}
    BY <1>1
  <1>3. \A k : Len(Source(k)') = Len(Source(k))
    BY <1>1
  <1> QED BY <1>1, <1>2, <1>3 DEF LandsInv

\* A second half goes in before the first folder above it moves.
LEMMA PlaceStep ==
    ASSUME PInv, Place
    PROVE  PInv'
  <1>1. /\ pc = "place" /\ pc' = "place" /\ finishes # <<>>
        /\ renames' = Placed(renames, Head(finishes)) /\ finishes' = Tail(finishes)
        /\ UNCHANGED <<job, state, target, wanted, degree, stuck, cursor>>
        /\ UNCHANGED <<lands, landed, ops, trees, dates>>
    BY DEF Place, listing, plan, disk
  <1>2. StateInv'
  <2>1. target' = [i \in Rows |-> target'[i]] /\ DOMAIN lands' \subseteq Rows
    BY <1>1 DEF PInv, StateInv, TypeInv
  <2> QED BY <1>1, <2>1, PlanShape DEF Planning
  <1>3. /\ Clean' <=> Clean
        /\ Clean => CheckInv'
    BY <1>1, SameChecks DEF Planning
  <1>4. ASSUME Clean PROVE SeqInv(renames, finishes, Mov)' /\ LandsInv'
  <2>1. job \in Jobs /\ Checked
    BY <1>1, <1>4, ChecksPassed DEF Planning
  <2>2. SeqInv(renames, finishes, Mov) /\ LandsInv
    BY <1>1, <1>4 DEF PInv, Planning
  <2>3. SeqInv(Placed(renames, Head(finishes)), Tail(finishes), Mov)
    BY <1>1, <2>1, <2>2, PlaceKeeps
  <2>4. SeqInv(renames, finishes, Mov)'
    BY <1>1, <2>3, SameSeq
  <2> QED BY <1>1, <2>2, <2>4, SameLands
  <1> QED BY <1>1, <1>2, <1>3, <1>4 DEF PInv, Planning

\* Where the first row still unresolved comes to rest.
LEMMA LandsFacts ==
    ASSUME PInv, Clean, pc = "place", NEW i \in Unresolved,
           \A j \in Unresolved : Len(Source(i)) <= Len(Source(j))
    PROVE  LET above == {j \in Rows : StrictlyUnder(Source(j), Source(i))} IN
           /\ above \subseteq DOMAIN lands
           /\ above = {} => Lands(i) = To(i)
           /\ above # {} => \E j \in above : /\ \A k \in above : Len(Source(k)) <= Len(Source(j))
                                             /\ Lands(i) = Rebase(To(i), Source(j), lands[j])
  <1> DEFINE above == {j \in Rows : StrictlyUnder(Source(j), Source(i))}
  <1>1. job \in Jobs /\ TargetInv /\ Movers = Mov
    BY ChecksPassed DEF Planning
  <1>2. i \in Rows /\ i \notin DOMAIN lands
    BY DEF Unresolved
  <1>3. \A j \in Rows : Source(j) \in Paths /\ Len(Source(j)) \in Nat
    BY <1>1, JobFacts, PathFacts
  <1>4. above \subseteq DOMAIN lands
  <2> SUFFICES ASSUME NEW j \in above, j \notin DOMAIN lands PROVE FALSE
    OBVIOUS
  <2>1. Len(Source(j)) < Len(Source(i))
    BY <1>2, <1>3, AboveFacts
  <2>2. Len(Source(i)) <= Len(Source(j))
    BY DEF Unresolved
  <2> QED BY <1>2, <1>3, <2>1, <2>2
  <1>5. Final(i) = To(i)
  <2>1. target[i] = To(i)
    BY <1>1, <1>2 DEF TargetInv
  <2>2. i \notin Mov => To(i) = Source(i)
    BY <1>2 DEF Mov
  <2> QED BY <1>1, <2>1, <2>2 DEF Final
  <1> DEFINE nearest == CHOOSE j \in above : \A k \in above : Len(Source(k)) <= Len(Source(j))
  <1>6. Lands(i) = IF above = {} THEN Final(i) ELSE Rebase(Final(i), Source(nearest), lands[nearest])
    BY DEF Lands
  <1>7. above # {} => \E j \in above : \A k \in above : Len(Source(k)) <= Len(Source(j))
  <2> SUFFICES ASSUME above # {}
               PROVE  \E j \in above : \A k \in above : Len(Source(k)) <= Len(Source(j))
    OBVIOUS
  <2> DEFINE T == {Len(Source(j)) : j \in above}
  <2>1. T \in SUBSET Nat /\ T # {}
    BY <1>3
  <2>2. \A n \in T : n <= Len(Source(i))
      <3> SUFFICES ASSUME NEW j \in above PROVE Len(Source(j)) <= Len(Source(i))
        OBVIOUS
      <3>1. j \in Rows /\ StrictlyUnder(Source(j), Source(i))
        OBVIOUS
      <3>2. Len(Source(j)) < Len(Source(i))
        BY <1>2, <1>3, <3>1, AboveFacts
      <3> QED BY <1>2, <1>3, <3>1, <3>2
  <2> HIDE DEF T
  <2>3. PICK m \in T : \A n \in T : n <= m
    BY <1>2, <1>3, <2>1, <2>2, Greatest
  <2> QED BY <2>3 DEF T
  <1>8. above # {} => nearest \in above /\ \A k \in above : Len(Source(k)) <= Len(Source(nearest))
    BY <1>7
  <1> HIDE DEF above, nearest
  <1>9. above # {} => \E j \in above : /\ \A k \in above : Len(Source(k)) <= Len(Source(j))
                                       /\ Lands(i) = Rebase(To(i), Source(j), lands[j])
    BY <1>5, <1>6, <1>8
  <1>10. above = {} => Lands(i) = To(i)
    BY <1>5, <1>6
  <1> QED BY <1>4, <1>9, <1>10 DEF above

\* resolve_targets, row by row.
LEMMA ResolveStep ==
    ASSUME PInv, ResolveTarget
    PROVE  PInv'
  <1>1. /\ pc = "place" /\ pc' = "place"
        /\ UNCHANGED <<job, state, wanted>>
        /\ UNCHANGED <<degree, ready, done, stuck, cursor, renames, finishes>>
        /\ UNCHANGED <<landed, ops, trees, dates>>
    BY DEF ResolveTarget, order, disk
  <1>2. PICK i \in Unresolved :
           /\ \A j \in Unresolved : Len(Source(i)) <= Len(Source(j))
           /\ lands' = [j \in DOMAIN lands \cup {i} |-> IF j = i THEN Lands(i) ELSE lands[j]]
           /\ target' = IF i \in Standing THEN [target EXCEPT ![i] = Lands(i)] ELSE target
    BY DEF ResolveTarget
  <1>3. TypeInv /\ i \in Rows /\ i \notin DOMAIN lands
    BY DEF PInv, StateInv, Unresolved
  <1>4. /\ DOMAIN lands' = DOMAIN lands \cup {i} /\ lands'[i] = Lands(i)
        /\ \A j \in DOMAIN lands : lands'[j] = lands[j]
    BY <1>2, <1>3
  <1>5. StateInv'
  <2>1. target' = [j \in Rows |-> target'[j]]
      <3>1. CASE i \in Standing
        <4>1. target' = [j \in Rows |-> IF j = i THEN Lands(i) ELSE target[j]]
          BY <1>2, <1>3, <3>1 DEF TypeInv
        <4> QED BY <4>1
      <3>2. CASE i \notin Standing
        <4>1. target' = target
          BY <1>2, <3>2
        <4> QED BY <1>3, <4>1 DEF TypeInv
      <3> QED BY <3>1, <3>2
  <2>2. DOMAIN lands' \subseteq Rows
    BY <1>3, <1>4 DEF TypeInv
  <2> QED BY <1>1, <2>1, <2>2, PlanShape DEF Planning
  <1>6. /\ Rows' = Rows /\ Mov' = Mov
        /\ \A k : Source(k)' = Source(k) /\ To(k)' = To(k)
        /\ WaysClear' <=> WaysClear
        /\ OneEach' <=> OneEach
        /\ NamesLeft' <=> NamesLeft
        /\ NoneRenamed' <=> NoneRenamed
    BY <1>1, SameJob
  <1>7. /\ FoldersMade' <=> FoldersMade
        /\ WantedInv' <=> WantedInv
    BY <1>1, SameFolders
  <1>8. Clean' <=> Clean
    BY <1>1, <1>6 DEF Clean, Standing
  <1>9. ASSUME Clean PROVE CheckInv' /\ SeqInv(renames, finishes, Mov)' /\ LandsInv'
  <2>1. Checked /\ TargetInv
    BY <1>1, <1>9, ChecksPassed DEF Planning
  <2>2. TargetInv'
      <3>1. \A j \in Rows : target'[j] = IF j = i THEN Lands(i) ELSE target[j]
        BY <1>2, <1>3, <1>9 DEF Clean, TypeInv
      <3>2. \A j \in Rows : target'[j] = IF j \in DOMAIN lands' THEN lands'[j] ELSE To(j)
        BY <1>3, <1>4, <2>1, <3>1 DEF TargetInv
      <3> QED BY <1>6, <3>2 DEF TargetInv
  <2>3. CheckInv'
    BY <1>1, <1>6, <1>7, <2>1, <2>2 DEF CheckInv, Checked
  <2>4. SeqInv(renames, finishes, Mov) /\ LandsInv
    BY <1>1, <1>9 DEF PInv, Planning
  <2>5. SeqInv(renames, finishes, Mov)'
    BY <1>1, <2>4, SameSeq
  <2> DEFINE above(j) == {k \in Rows : StrictlyUnder(Source(k), Source(j))}
  <2>6. \A j \in DOMAIN lands :
           /\ above(j) \subseteq DOMAIN lands
           /\ above(j) = {} => lands[j] = To(j)
           /\ above(j) # {} => \E k \in above(j) : /\ \A l \in above(j) : Len(Source(l)) <= Len(Source(k))
                                                   /\ lands[j] = Rebase(To(j), Source(k), lands[k])
    BY <2>4 DEF LandsInv
  <2>7. /\ above(i) \subseteq DOMAIN lands
        /\ above(i) = {} => Lands(i) = To(i)
        /\ above(i) # {} => \E k \in above(i) : /\ \A l \in above(i) : Len(Source(l)) <= Len(Source(k))
                                                /\ Lands(i) = Rebase(To(i), Source(k), lands[k])
    BY <1>1, <1>2, <1>9, LandsFacts
  <2> HIDE DEF above
  <2>8. \A j \in DOMAIN lands' :
           /\ above(j) \subseteq DOMAIN lands'
           /\ above(j) = {} => lands'[j] = To(j)
           /\ above(j) # {} => \E k \in above(j) : /\ \A l \in above(j) : Len(Source(l)) <= Len(Source(k))
                                                   /\ lands'[j] = Rebase(To(j), Source(k), lands'[k])
      <3> TAKE j \in DOMAIN lands'
      <3>1. CASE j = i
        BY <1>4, <2>7, <3>1
      <3>2. CASE j \in DOMAIN lands
        BY <1>4, <2>6, <3>2
      <3> QED BY <1>4, <3>1, <3>2
  <2>9. LandsInv'
    BY <1>6, <2>8 DEF LandsInv, above
  <2> QED BY <2>3, <2>5, <2>9
  <1> QED BY <1>1, <1>5, <1>8, <1>9 DEF PInv, Planning

\* Every row is resolved: the script's files are next.
LEMMA AllResolvedStep ==
    ASSUME PInv, AllResolved
    PROVE  PInv'
  <1>1. /\ pc = "place" /\ pc' = "write" /\ finishes = <<>> /\ Unresolved = {}
        /\ UNCHANGED <<job, state, target, wanted>>
        /\ UNCHANGED <<degree, ready, done, stuck, cursor, renames, finishes>>
        /\ UNCHANGED <<lands, landed, ops, trees, dates>>
    BY DEF AllResolved, listing, order, plan, disk
  <1>2. StateInv'
  <2>1. target' = [i \in Rows |-> target'[i]] /\ DOMAIN lands' \subseteq Rows
    BY <1>1 DEF PInv, StateInv, TypeInv
  <2> QED BY <1>1, <2>1, PlanShape DEF Planning
  <1>3. /\ Clean' <=> Clean
        /\ Clean => CheckInv'
        /\ Rows' = Rows
    BY <1>1, SameChecks DEF Planning
  <1>4. landed = <<>> /\ ops = <<>> /\ Len(landed) = 0
    BY <1>1 DEF PInv, StateInv, PassInv
  <1>5. ASSUME Clean
        PROVE  /\ SeqInv(renames, finishes, Mov)' /\ LandsInv'
               /\ finishes' = <<>> /\ DOMAIN lands' = Rows' /\ WriteInv'
               /\ ops' = [n \in 1..Len(landed') |-> Writing(n)']
  <2>1. SeqInv(renames, finishes, Mov) /\ LandsInv
    BY <1>1, <1>5 DEF PInv, Planning
  <2>2. SeqInv(renames, finishes, Mov)' /\ LandsInv'
    BY <1>1, <2>1, SameSeq, SameLands
  <2>3. DOMAIN lands' = Rows'
    BY <1>1, <1>3 DEF Unresolved, PInv, StateInv, TypeInv
  <2>4. 1..0 = {}
    OBVIOUS
  <2>5. landed' = <<>> /\ Len(landed') = 0
    BY <1>1, <1>4
  <2>6. WriteInv'
      <3>1. Len(job.writes) \in Nat
        <4>1. job.writes \in Seq(Paths)
          BY JobFacts DEF PInv, StateInv, TypeInv
        <4> QED BY <4>1, LenProperties
      <3>2. 0 <= Len(job'.writes)
        BY <1>1, <3>1
      <3>3. landed' \in Seq({Landing(p)' : p \in Paths} \cup {<<>>})
        BY <2>5, EmptySeq
      <3> QED BY <2>4, <2>5, <3>2, <3>3 DEF WriteInv
  <2>7. ops' = [n \in 1..Len(landed') |-> Writing(n)']
      <3> DEFINE g == [n \in {} |-> Writing(n)']
      <3>1. g \in [1..0 -> {}]
        BY <2>4
      <3> HIDE DEF g
      <3>2. g \in Seq({}) /\ Len(g) = 0
        BY <3>1, FunctionIsSeq
      <3>3. g = <<>>
        BY <3>2, EmptySeq
      <3>4. ops' = g
        BY <1>1, <1>4, <3>3
      <3> QED BY <2>4, <2>5, <3>4 DEF g
  <2> QED BY <1>1, <2>2, <2>3, <2>6, <2>7
  <1>6. ASSUME Clean PROVE (ops = [n \in 1..Len(landed) |-> Writing(n)])'
    BY <1>5, <1>6
  <1> QED BY <1>1, <1>2, <1>3, <1>5, <1>6 DEF PInv, Planning

-----------------------------------------------------------------------------
(* What the last passes leave as it is.                                    *)

\* Where a script's file goes, while nothing is resolved anew.
LEMMA SameLanding ==
    ASSUME UNCHANGED <<job, state, target>>
    PROVE  /\ \A p : Landing(p)' = Landing(p)
           /\ \A n : Writing(n)' = Writing(n)
           /\ Standing' = Standing
  <1>1. Rows' = Rows /\ \A k : Source(k)' = Source(k)
    BY SameJob
  <1>2. Standing' = Standing
    BY <1>1 DEF Standing
  <1>3. \A p : Landing(p)' = Landing(p)
  <2> TAKE p
  <2> DEFINE moved == {i \in Standing : target[i] # Source(i) /\ AtOrUnder(Source(i), p)}
             deepest == CHOOSE i \in moved : \A j \in moved : Len(Source(j)) <= Len(Source(i))
  <2>1. moved' = moved
    BY <1>1, <1>2
  <2>2. Landing(p) = IF moved = {} THEN p ELSE Rebase(p, Source(deepest), target[deepest])
    BY DEF Landing
  <2>3. Landing(p)' = IF moved' = {} THEN p ELSE Rebase(p, Source(deepest'), target[deepest'])
    BY <1>1 DEF Landing
  <2>4. deepest' = deepest
      <3> HIDE DEF moved
      <3>1. \A i : (\A j \in moved : Len(Source(j)') <= Len(Source(i)'))
                      <=> (\A j \in moved : Len(Source(j)) <= Len(Source(i)))
        BY <1>1
      <3>2. deepest' = CHOOSE i \in moved : \A j \in moved : Len(Source(j)') <= Len(Source(i)')
        BY <2>1
      <3> QED BY <1>1, <3>2
  <2> HIDE DEF moved, deepest
  <2> QED BY <2>1, <2>2, <2>3, <2>4, Zenon
  <1>4. \A n : Writing(n)' = Writing(n)
    BY <1>3 DEF Writing
  <1> QED BY <1>2, <1>3, <1>4

\* Where it may write.
LEMMA SameWrite ==
    ASSUME UNCHANGED <<job, state, target, wanted>>
    PROVE  /\ \A p : MayAlone(p)' <=> MayAlone(p)
           /\ landed' = landed => (WriteInv' <=> WriteInv)
  <1>1. /\ Rows' = Rows /\ Mov' = Mov
        /\ \A k : Source(k)' = Source(k) /\ To(k)' = To(k)
    BY SameJob
  <1>2. \A p : MayAlone(p)' <=> MayAlone(p)
    BY <1>1 DEF MayAlone
  <1>3. {Landing(p)' : p \in Paths} = {Landing(p) : p \in Paths}
    BY SameLanding
  <1>4. ASSUME landed' = landed PROVE WriteInv' <=> WriteInv
    BY <1>2, <1>3, <1>4, SameLanding DEF WriteInv
  <1> QED BY <1>2, <1>4

\* The operations, and the volumes they pass through.
LEMMA SameRun ==
    ASSUME UNCHANGED <<job, state, target, wanted, renames, landed>>
    PROVE  /\ AllOps' = AllOps
           /\ A1' = A1 /\ A2' = A2 /\ A3' = A3 /\ A4' = A4
           /\ \A ts, k : TreeAt(ts, k)' <=> TreeAt(ts, k)
           /\ Executable' <=> Executable
  <1>1. /\ Rows' = Rows /\ \A k : Source(k)' = Source(k) /\ To(k)' = To(k)
    BY SameJob
  <1>2. Standing' = Standing /\ \A n : Writing(n)' = Writing(n)
    BY SameLanding
  <1>3. CreateDirs' = CreateDirs
    BY DEF CreateDirs
  <1>4. \A i : ActAt(i)' = ActAt(i)
    BY <1>1, <1>2 DEF ActAt
  <1>5. Acts' = Acts
    BY <1>1, <1>4 DEF Acts
  <1>6. WOps' = WOps
    BY <1>2 DEF WOps
  <1>7. AllOps' = AllOps
    BY <1>3, <1>5, <1>6 DEF AllOps
  <1>8. A1' = A1 /\ A2' = A2 /\ A3' = A3 /\ A4' = A4
    BY <1>5 DEF A1, A2, A3, A4
  <1>9. \A m : Made(m)' = Made(m)
    BY DEF Made
  <1>10. Base' = Base
    BY <1>9 DEF Base
  <1>11. \A t, m, u : Wrote(t, m, u)' <=> Wrote(t, m, u)
    BY DEF Wrote
  <1>12. \A ts, k : TreeAt(ts, k)' <=> TreeAt(ts, k)
    BY <1>8, <1>9, <1>10, <1>11 DEF TreeAt
  <1>13. Executable' <=> Executable
    BY <1>1, <1>2 DEF Executable
  <1> QED BY <1>7, <1>8, <1>12, <1>13

\* Nothing at all happens.
LEMMA SameAll ==
    ASSUME PInv, UNCHANGED vars
    PROVE  PInv'
  <1>1. /\ UNCHANGED <<job, pc, state, target, wanted>>
        /\ UNCHANGED <<degree, ready, done, stuck, cursor, renames, finishes>>
        /\ UNCHANGED <<lands, landed, ops, trees, dates>>
    BY DEF vars, listing, order, plan, disk
  <1>2. TypeInv /\ StatesInv /\ PassInv
    BY DEF PInv, StateInv
  <1>3. /\ Rows' = Rows /\ Mov' = Mov
        /\ \A k : Source(k)' = Source(k) /\ To(k)' = To(k)
        /\ WaysClear' <=> WaysClear
        /\ OneEach' <=> OneEach
        /\ NamesLeft' <=> NamesLeft
        /\ NoneRenamed' <=> NoneRenamed
    BY <1>1, SameJob
  <1>4. /\ FoldersMade' <=> FoldersMade
        /\ WantedInv' <=> WantedInv
    BY <1>1, SameFolders
  <1>5. TypeInv'
    BY <1>1, <1>2, <1>3 DEF TypeInv
  <1>6. StatesInv'
    BY <1>1, <1>2, <1>3 DEF StatesInv
  <1>7. PassInv'
    BY <1>1, <1>2 DEF PassInv
  <1>8. Clean' <=> Clean
    BY <1>1, <1>3 DEF Clean, Standing
  <1>9. CheckInv => CheckInv'
  <2>1. TargetInv' <=> TargetInv
    BY <1>1, <1>3 DEF TargetInv
  <2> QED BY <1>1, <1>3, <1>4, <2>1 DEF CheckInv
  <1>10. OrderInv => OrderInv'
  <2> SUFFICES ASSUME OrderInv PROVE OrderInv'
    OBVIOUS
  <2>1. DegreeInv /\ ReadyInv /\ DoneInv /\ SeqInv(renames, finishes, done)
    BY DEF OrderInv
  <2>2. DegreeInv'
      <3>1. \A x : {z \in Mov' \ done' : WaitsFor(x, z)'} = {z \in Mov \ done : WaitsFor(x, z)}
        BY <1>1, <1>3, SameWaits
      <3> QED BY <1>1, <1>3, <2>1, <3>1 DEF DegreeInv
  <2>3. ReadyInv'
    BY <1>1, <1>3, <2>1 DEF ReadyInv
  <2>4. DoneInv'
    BY <1>1, <1>3, <2>1 DEF DoneInv
  <2>5. SeqInv(renames, finishes, done)'
    BY <1>1, <2>1, SameSeq
  <2> QED BY <2>2, <2>3, <2>4, <2>5 DEF OrderInv
  <1>11. SeqInv(renames, finishes, Mov) => SeqInv(renames, finishes, Mov)'
    BY <1>1, SameSeq
  <1>12. LandsInv' <=> LandsInv
    BY <1>1, SameLands
  <1>13. WriteInv' <=> WriteInv
    BY <1>1, SameWrite
  <1>14. \A n : Writing(n)' = Writing(n)
    BY <1>1, SameLanding
  <1>15. RunInv => RunInv'
  <2>1. /\ AllOps' = AllOps /\ A4' = A4
        /\ Executable' <=> Executable
        /\ \A k : TreeAt(trees, k)' <=> TreeAt(trees, k)
    BY <1>1, SameRun DEF TreeAt
  <2> SUFFICES ASSUME RunInv PROVE RunInv'
    OBVIOUS
  <2>2. /\ Executable' /\ Len(landed') = Len(job'.writes) /\ ops' = AllOps'
        /\ trees' \in Seq(Range(trees')) /\ dates' \in Seq([Files -> Dates])
        /\ Len(trees') \in 1..(A4' + 1) /\ Len(dates') = Len(trees')
    BY <1>1, <2>1 DEF RunInv
  <2>3. \A k \in 1..Len(trees') : TreeAt(trees, k)'
    BY <1>1, <2>1 DEF RunInv
  <2>4. \A k \in 1..(Len(trees') - 1) :
           /\ trees'[k + 1] = TreeAfter(ops'[k], trees'[k])
           /\ dates'[k + 1] = DateAfter(ops'[k], trees'[k], dates'[k])
    BY <1>1 DEF RunInv
  <2> QED BY <2>2, <2>3, <2>4 DEF RunInv
  <1>16. ops = [n \in 1..Len(landed) |-> Writing(n)] => (ops = [n \in 1..Len(landed) |-> Writing(n)])'
    BY <1>1, <1>14
  <1>17. ASSUME Clean'
         PROVE  /\ pc' # "refused" => CheckInv'
                /\ pc' = "order" => OrderInv'
                /\ pc' \in Planning => SeqInv(renames, finishes, Mov)' /\ LandsInv'
                /\ pc' \in {"write", "run"} => finishes' = <<>> /\ DOMAIN lands' = Rows' /\ WriteInv'
                /\ pc' = "write" /\ ~Contains(landed', <<>>) =>
                      (ops = [n \in 1..Len(landed) |-> Writing(n)])'
  <2>1. pc' = pc /\ Clean /\ landed' = landed
    BY <1>1, <1>8, <1>17
  <2>2. /\ pc # "refused" => CheckInv
        /\ pc = "order" => OrderInv
        /\ pc \in Planning => SeqInv(renames, finishes, Mov) /\ LandsInv
        /\ pc \in {"write", "run"} => finishes = <<>> /\ DOMAIN lands = Rows /\ WriteInv
        /\ pc = "write" /\ ~Contains(landed, <<>>) => ops = [n \in 1..Len(landed) |-> Writing(n)]
    BY <2>1 DEF PInv
  <2>3. pc' # "refused" => CheckInv'
    BY <1>9, <2>1, <2>2
  <2>4. pc' = "order" => OrderInv'
    BY <1>10, <2>1, <2>2
  <2>5. pc' \in Planning => SeqInv(renames, finishes, Mov)' /\ LandsInv'
    BY <1>11, <1>12, <2>1, <2>2
  <2>6. pc' \in {"write", "run"} => finishes' = <<>> /\ DOMAIN lands' = Rows' /\ WriteInv'
    BY <1>1, <1>3, <1>13, <2>1, <2>2
  <2>7. pc' = "write" /\ ~Contains(landed', <<>>) => (ops = [n \in 1..Len(landed) |-> Writing(n)])'
      <3>1. pc' = "write" /\ ~Contains(landed', <<>>) => ops = [n \in 1..Len(landed) |-> Writing(n)]
        BY <2>1, <2>2
      <3> QED BY <1>16, <3>1
  <2> QED BY <2>3, <2>4, <2>5, <2>6, <2>7
  <1>18. pc' = "run" => RunInv'
    BY <1>1, <1>15 DEF PInv
  <1>19. StateInv'
    BY <1>5, <1>6, <1>7 DEF StateInv
  <1> QED BY <1>17, <1>18, <1>19 DEF PInv

-----------------------------------------------------------------------------
(* The script's files, and the plan.                                       *)

\* What is appended is contained, and nothing else is new.
LEMMA ContainsMore ==
    ASSUME NEW S, NEW s \in Seq(S), NEW e \in S, NEW x
    PROVE  Contains(Append(s, e), x) <=> Contains(s, x) \/ e = x
  <1>1. /\ Len(s) \in Nat /\ Len(Append(s, e)) = Len(s) + 1
        /\ DOMAIN s = 1..Len(s) /\ DOMAIN Append(s, e) = 1..(Len(s) + 1)
        /\ Len(s) + 1 \in DOMAIN Append(s, e) /\ Append(s, e)[Len(s) + 1] = e
        /\ \A n \in DOMAIN s : n \in DOMAIN Append(s, e) /\ Append(s, e)[n] = s[n]
        /\ \A n \in DOMAIN Append(s, e) : n \in DOMAIN s \/ n = Len(s) + 1
    BY AppendedFacts
  <1> DEFINE w == Append(s, e)
  <1> HIDE DEF w
  <1>2. Contains(w, x) <=> \E n \in DOMAIN w : w[n] = x
    BY <1>1 DEF Contains, w
  <1>3. Contains(s, x) <=> \E n \in DOMAIN s : s[n] = x
    BY <1>1 DEF Contains
  <1> QED BY <1>1, <1>2, <1>3 DEF w

\* A list of the first operations, and the next one.
LEMMA OneWriteMore ==
    ASSUME NEW l \in Nat, NEW s, s = [n \in 1..l |-> Writing(n)]
    PROVE  Append(s, Writing(l + 1)) = [n \in 1..(l + 1) |-> Writing(n)]
  <1> DEFINE S == {Writing(n) : n \in 1..(l + 1)}
             g == [n \in 1..(l + 1) |-> Writing(n)]
             e == Writing(l + 1)
             w == Append(s, e)
  <1>1. \A n \in 1..l : n \in 1..(l + 1)
    OBVIOUS
  <1>2. l + 1 \in 1..(l + 1) /\ l + 1 \in Nat
    OBVIOUS
  <1>3. s \in [1..l -> S] /\ g \in [1..(l + 1) -> S] /\ e \in S
    BY <1>1, <1>2
  <1>4. \A n \in 1..l : s[n] = g[n]
    BY <1>1
  <1>5. g[l + 1] = e
    BY <1>2
  <1> HIDE DEF S, g, e
  <1>6. s \in Seq(S) /\ Len(s) = l /\ g \in Seq(S) /\ Len(g) = l + 1
    BY <1>2, <1>3, FunctionIsSeq
  <1>7. /\ w \in Seq(S) /\ Len(w) = l + 1 /\ w[l + 1] = e
        /\ DOMAIN s = 1..l
        /\ \A n \in DOMAIN s : w[n] = s[n]
  <2>1. /\ w \in Seq(S) /\ DOMAIN s = 1..Len(s) /\ Len(w) = Len(s) + 1 /\ w[Len(s) + 1] = e
        /\ \A n \in DOMAIN s : w[n] = s[n]
    BY <1>3, <1>6, AppendedFacts
  <2> QED BY <1>6, <2>1
  <1> HIDE DEF w
  <1>8. \A n \in 1..(l + 1) : w[n] = g[n]
  <2> TAKE n \in 1..(l + 1)
  <2>1. n \in 1..l \/ n = l + 1
    OBVIOUS
  <2> QED BY <1>4, <1>5, <1>7, <2>1
  <1>9. w = g
    BY <1>6, <1>7, <1>8, SeqEqual
  <1> QED BY <1>9 DEF w, g, e

\* Where a script may write, it may whatever else it writes.
LEMMA MayIsAlone ==
    ASSUME PInv, Clean, pc = "write", NEW p, MayWrite(p)
    PROVE  MayAlone(p) /\ ~Contains(landed, Landing(p))
  <1>1. Movers = Mov
    BY ChecksPassed DEF Planning
  <1>2. \A i \in Mov : p # To(i) /\ p # Source(i)
    BY <1>1 DEF MayWrite, Claimed, Freed, To
  <1> QED BY <1>2 DEF MayWrite, MayAlone, Exists

\* plan_write, of the next file.
LEMMA WriteStep ==
    ASSUME PInv, PlanWrite
    PROVE  PInv'
  <1> DEFINE l == Len(landed)
             p == job.writes[l + 1]
  <1>1. /\ pc = "write" /\ pc' = "write" /\ l < Len(job.writes)
        /\ MayWrite(p) => landed' = Append(landed, Landing(p)) /\ ops' = Append(ops, Writing(l + 1))
        /\ ~MayWrite(p) => landed' = Append(landed, <<>>) /\ ops' = ops
        /\ UNCHANGED <<job, state, target, wanted>>
        /\ UNCHANGED <<degree, ready, done, stuck, cursor, renames, finishes>>
        /\ UNCHANGED <<lands, trees, dates>>
    BY DEF PlanWrite, listing, order, disk
  <1>2. StateInv'
  <2>1. target' = [i \in Rows |-> target'[i]] /\ DOMAIN lands' \subseteq Rows
    BY <1>1 DEF PInv, StateInv, TypeInv
  <2> QED BY <1>1, <2>1, PlanShape DEF Planning
  <1>3. /\ Clean' <=> Clean
        /\ Clean => CheckInv'
        /\ Rows' = Rows
    BY <1>1, SameChecks DEF Planning
  <1>4. ASSUME Clean
        PROVE  /\ SeqInv(renames, finishes, Mov)' /\ LandsInv'
               /\ finishes' = <<>> /\ DOMAIN lands' = Rows' /\ WriteInv'
               /\ ~Contains(landed', <<>>) => (ops = [n \in 1..Len(landed) |-> Writing(n)])'
  <2>1. /\ SeqInv(renames, finishes, Mov) /\ LandsInv
        /\ finishes = <<>> /\ DOMAIN lands = Rows /\ WriteInv
    BY <1>1, <1>4 DEF PInv, Planning
  <2>2. ~Contains(landed, <<>>) => ops = [n \in 1..Len(landed) |-> Writing(n)]
    BY <1>1, <1>4 DEF PInv
  <2>3. SeqInv(renames, finishes, Mov)' /\ LandsInv'
    BY <1>1, <2>1, SameSeq, SameLands
  <2> DEFINE S == {Landing(q) : q \in Paths} \cup {<<>>}
             e == IF MayWrite(p) THEN Landing(p) ELSE <<>>
             w == Append(landed, e)
  <2>4. landed \in Seq(S) /\ landed' = w
    BY <1>1, <2>1 DEF WriteInv
  <2>5. job.writes \in Seq(Paths) /\ Len(job.writes) \in Nat /\ DOMAIN job.writes = 1..Len(job.writes)
      <3>1. job.writes \in Seq(Paths)
        BY JobFacts DEF PInv, StateInv, TypeInv
      <3> QED BY <3>1, LenProperties
  <2>6. l \in Nat
    BY <2>4, LenProperties
  <2>7. l + 1 \in 1..Len(job.writes)
    BY <1>1, <2>5, <2>6
  <2>8. p \in Paths
    BY <2>5, <2>7, ElementOfSeq
  <2>9. e \in S
    BY <2>8
  <2>10. MayWrite(p) => MayAlone(p) /\ ~Contains(landed, Landing(p))
    BY <1>1, <1>4, MayIsAlone
  <2>11. /\ \A q : Landing(q)' = Landing(q)
         /\ \A n : Writing(n)' = Writing(n)
         /\ \A q : MayAlone(q)' <=> MayAlone(q)
    BY <1>1, SameLanding, SameWrite
  <2>12. e = <<>> \/ (MayWrite(p) /\ e = Landing(p))
    OBVIOUS
  <2> HIDE DEF S, e, w, l
  <2>13. /\ w \in Seq(S) /\ Len(w) = l + 1 /\ w[l + 1] = e
         /\ DOMAIN landed = 1..l
         /\ \A n \in 1..l : w[n] = landed[n]
         /\ Contains(w, <<>>) <=> Contains(landed, <<>>) \/ e = <<>>
      <3>1. /\ w \in Seq(S) /\ DOMAIN landed = 1..l /\ Len(w) = l + 1 /\ w[l + 1] = e
            /\ \A n \in DOMAIN landed : w[n] = landed[n]
        BY <2>4, <2>9, AppendedFacts DEF w, l
      <3>2. Contains(w, <<>>) <=> Contains(landed, <<>>) \/ e = <<>>
        BY <2>4, <2>9, ContainsMore DEF w
      <3> QED BY <3>1, <3>2
  <2>14. ASSUME ~Contains(w, <<>>)
         PROVE  /\ \A n \in 1..(l + 1) : w[n] = Landing(job.writes[n]) /\ MayAlone(job.writes[n])
                /\ \A m, n \in 1..(l + 1) : w[m] = w[n] => m = n
                /\ MayWrite(p) /\ ~Contains(landed, <<>>)
      <3>1. ~Contains(landed, <<>>) /\ MayWrite(p) /\ e = Landing(p)
        BY <2>12, <2>13, <2>14
      <3>2. /\ \A n \in 1..l : landed[n] = Landing(job.writes[n]) /\ MayAlone(job.writes[n])
            /\ \A m, n \in 1..l : landed[m] = landed[n] => m = n
        BY <2>1, <3>1 DEF WriteInv, l
      <3>3. \A n \in 1..l : landed[n] # e
        BY <2>10, <3>1 DEF Contains, l
      <3>4. \A n \in 1..(l + 1) : n \in 1..l \/ n = l + 1
        BY <2>6
      <3>5. w[l + 1] = Landing(job.writes[l + 1]) /\ MayAlone(job.writes[l + 1])
        BY <2>10, <2>13, <3>1
      <3>6. \A n \in 1..(l + 1) : w[n] = Landing(job.writes[n]) /\ MayAlone(job.writes[n])
        BY <2>13, <3>2, <3>4, <3>5
      <3>7. \A m, n \in 1..(l + 1) : w[m] = w[n] => m = n
        BY <2>13, <3>2, <3>3, <3>4
      <3> QED BY <3>1, <3>6, <3>7
  <2>15. WriteInv'
      <3>1. {Landing(q)' : q \in Paths} \cup {<<>>} = S
        BY <2>11 DEF S
      <3>2. landed' \in Seq({Landing(q)' : q \in Paths} \cup {<<>>})
        BY <2>4, <2>13, <3>1
      <3>3. Len(landed') = l + 1 /\ job' = job
        BY <1>1, <2>4, <2>13
      <3>4. Len(landed') <= Len(job'.writes)
        BY <2>5, <2>6, <2>7, <3>3
      <3>5. ~Contains(landed', <<>>) =>
               /\ \A n \in 1..Len(landed') : /\ landed'[n] = Landing(job.writes[n])'
                                             /\ MayAlone(job.writes[n])'
               /\ \A m, n \in 1..Len(landed') : landed'[m] = landed'[n] => m = n
        <4> SUFFICES ASSUME ~Contains(w, <<>>)
                     PROVE  /\ \A n \in 1..(l + 1) : w[n] = Landing(job.writes[n])' /\ MayAlone(job.writes[n])'
                            /\ \A m, n \in 1..(l + 1) : w[m] = w[n] => m = n
          BY <2>4, <3>3
        <4>1. \A n : Landing(job.writes[n])' = Landing(job.writes[n])
          BY <1>1, <2>11
        <4>2. \A n : MayAlone(job.writes[n])' <=> MayAlone(job.writes[n])
          BY <1>1, <2>11 DEF MayAlone
        <4> QED BY <2>14, <4>1, <4>2
      <3> QED BY <3>2, <3>4, <3>5 DEF WriteInv
  <2>16. ASSUME ~Contains(landed', <<>>) PROVE (ops = [n \in 1..Len(landed) |-> Writing(n)])'
      <3>1. MayWrite(p) /\ ~Contains(landed, <<>>)
        BY <2>4, <2>14, <2>16
      <3>2. ops = [n \in 1..l |-> Writing(n)] /\ ops' = Append(ops, Writing(l + 1))
        BY <1>1, <2>2, <3>1 DEF l
      <3>3. ops' = [n \in 1..(l + 1) |-> Writing(n)]
        BY <2>6, <3>2, OneWriteMore
      <3>4. Len(landed') = l + 1
        BY <2>4, <2>13
      <3> QED BY <2>11, <3>3, <3>4
  <2> QED BY <1>1, <1>3, <2>1, <2>3, <2>15, <2>16
  <1> HIDE DEF l, p
  <1>5. Clean' => /\ CheckInv' /\ SeqInv(renames, finishes, Mov)' /\ LandsInv'
                  /\ finishes' = <<>> /\ DOMAIN lands' = Rows' /\ WriteInv'
                  /\ ~Contains(landed', <<>>) => (ops = [n \in 1..Len(landed) |-> Writing(n)])'
    BY <1>3, <1>4
  <1>6. pc' = "write"
    BY <1>1
  <1> QED BY <1>2, <1>5, <1>6 DEF PInv

-----------------------------------------------------------------------------
(* The run, and the theorems.                                              *)

\* A plan that can run is clean.
LEMMA ExecutableIsClean ==
    ASSUME PInv, pc \in Planning, Executable
    PROVE  Clean /\ ~Contains(landed, <<>>)
  <1>1. /\ stuck \subseteq Rows /\ \A i \in stuck : state[i] = "UnresolvedCycle"
    BY DEF PInv, StateInv, TypeInv, StatesInv
  <1>2. Standing = Rows
    BY DEF Executable
  <1>3. stuck = {}
    BY <1>1, <1>2 DEF Standing
  <1> QED BY <1>2, <1>3 DEF Clean, Executable

\* ... and all that was checked of it holds.
LEMMA IsRunnable ==
    ASSUME PInv, pc \in {"write", "run"}, Executable, Len(landed) = Len(job.writes)
    PROVE  job \in Jobs /\ Runnable
  <1>1. Clean /\ ~Contains(landed, <<>>)
    BY ExecutableIsClean DEF Planning
  <1>2. job \in Jobs /\ Checked /\ TargetInv
    BY <1>1, ChecksPassed DEF Planning
  <1>3. /\ SeqInv(renames, finishes, Mov) /\ LandsInv
        /\ finishes = <<>> /\ DOMAIN lands = Rows /\ WriteInv
    BY <1>1 DEF PInv, Planning
  <1>4. SeqInv(renames, <<>>, Mov)
    BY <1>3
  <1>5. Standing = Rows
    BY <1>1 DEF Clean
  <1> QED BY <1>1, <1>2, <1>3, <1>4, <1>5 DEF Runnable

\* A sequence is one of the values it has.
LEMMA SeqOfItsOwn ==
    ASSUME NEW S, NEW s \in Seq(S)
    PROVE  s \in Seq(Range(s))
  <1>1. Len(s) \in Nat /\ DOMAIN s = 1..Len(s)
    BY LenProperties
  <1>2. s = [n \in 1..Len(s) |-> s[n]]
    BY <1>1, ElementOfSeq, SeqDef
  <1>3. \A n \in 1..Len(s) : s[n] \in Range(s)
    BY <1>1 DEF Range
  <1>4. s \in [1..Len(s) -> Range(s)]
    BY <1>2, <1>3
  <1> QED BY <1>1, <1>4, FunctionIsSeq

\* The plan is made: what runs is what was checked.
LEMMA ConcludeStep ==
    ASSUME PInv, Conclude
    PROVE  PInv'
  <1>1. /\ pc = "write" /\ Len(landed) = Len(job.writes)
        /\ ops' = CreateDirs \o renames \o Acts \o ops
        /\ pc' = IF Executable THEN "run" ELSE "refused"
        /\ UNCHANGED <<job, state, target, wanted>>
        /\ UNCHANGED <<degree, ready, done, stuck, cursor, renames, finishes>>
        /\ UNCHANGED <<lands, landed, trees, dates>>
    BY DEF Conclude, listing, order, disk
  <1>2. StateInv'
  <2>1. target' = [i \in Rows |-> target'[i]] /\ DOMAIN lands' \subseteq Rows
    BY <1>1 DEF PInv, StateInv, TypeInv
  <2> QED BY <1>1, <2>1, PlanShape DEF Planning
  <1>3. CASE ~Executable
  <2>1. pc' = "refused"
    BY <1>1, <1>3
  <2> QED BY <1>2, <2>1 DEF PInv, Planning
  <1>4. CASE Executable
  <2>1. pc' = "run"
    BY <1>1, <1>4
  <2>2. Clean /\ ~Contains(landed, <<>>)
    BY <1>1, <1>4, ExecutableIsClean DEF Planning
  <2>3. job \in Jobs /\ Runnable
    BY <1>1, <1>4, IsRunnable
  <2>4. CheckInv'
    BY <1>1, <2>1, <2>2, SameChecks DEF Planning
  <2>5. /\ SeqInv(renames, finishes, Mov) /\ LandsInv
        /\ finishes = <<>> /\ DOMAIN lands = Rows /\ WriteInv
    BY <1>1, <2>2 DEF PInv, Planning
  <2>6. /\ SeqInv(renames, finishes, Mov)' /\ LandsInv' /\ WriteInv'
    BY <1>1, <2>5, SameSeq, SameLands, SameWrite
  <2>7. finishes' = <<>> /\ DOMAIN lands' = Rows'
    BY <1>1, <2>5, SameJob
  <2>8. /\ AllOps' = AllOps /\ A4' = A4
        /\ Executable' <=> Executable
        /\ \A k : TreeAt(trees, k)' <=> TreeAt(trees, k)
    BY <1>1, SameRun DEF TreeAt
  <2>9. ops' = AllOps
      <3>1. ops = [n \in 1..Len(landed) |-> Writing(n)]
        BY <1>1, <2>2 DEF PInv
      <3>2. ops = WOps
        BY <1>1, <3>1 DEF WOps
      <3> QED BY <1>1, <3>2 DEF AllOps
  <2>10. trees = <<job.tree>> /\ dates = <<[f \in Files |-> 0]>>
    BY <1>1 DEF PInv, StateInv, PassInv
  <2>11. /\ trees' \in Seq(Range(trees')) /\ Len(trees) = 1 /\ trees[1] = job.tree
      <3>1. trees \in Seq({job.tree}) /\ Len(trees) = 1 /\ trees[1] = job.tree
        BY <2>10
      <3>2. trees \in Seq(Range(trees))
        BY <3>1, SeqOfItsOwn
      <3> QED BY <1>1, <3>1, <3>2
  <2>12. dates' \in Seq([Files -> Dates]) /\ Len(dates) = 1
      <3> DEFINE d == [f \in Files |-> 0]
      <3>1. d \in [Files -> Dates]
        BY ValuesAssumption
      <3> HIDE DEF d
      <3>2. <<d>> \in Seq([Files -> Dates]) /\ Len(<<d>>) = 1
        BY <3>1
      <3> QED BY <1>1, <2>10, <3>2 DEF d
  <2>13. A1 \in Nat /\ A4 \in Nat /\ A1 <= A2 /\ A2 <= A3 /\ A2 \in Nat /\ A3 \in Nat
    BY <2>3, OpsFacts DEF Runnable, SeqInv
  <2>14. TreeAt(trees, 1)
      <3>1. Made(0) = job.tree
        BY <2>3, MadeNone DEF Runnable
      <3>2. 1 \in 1..(A4 + 1) /\ ~(1 > A1 + 1) /\ ~(1 > A2 + 1) /\ ~(1 > A3 + 1) /\ 1 - 1 = 0
        BY <2>13
      <3>3. trees[1] = Made(1 - 1)
        BY <2>11, <3>1, <3>2
      <3> QED BY <2>3, <3>2, <3>3, TreeEdge
  <2>15. RunInv'
      <3>1. Executable' /\ Len(landed') = Len(job'.writes) /\ ops' = AllOps'
        BY <1>1, <1>4, <2>8, <2>9
      <3>2. Len(trees') = 1 /\ Len(dates') = 1 /\ A4' = A4 /\ 1..Len(trees') = {1} /\ 1..(Len(trees') - 1) = {}
        BY <1>1, <2>8, <2>11, <2>12
      <3>3. Len(trees') \in 1..(A4' + 1) /\ Len(dates') = Len(trees')
        BY <2>13, <3>2
      <3>4. \A k \in 1..Len(trees') : TreeAt(trees, k)'
        BY <2>8, <2>14, <3>2
      <3>5. trees' \in Seq(Range(trees')) /\ dates' \in Seq([Files -> Dates])
        BY <2>11, <2>12
      <3> QED BY <3>1, <3>2, <3>3, <3>4, <3>5 DEF RunInv
  <2> QED BY <1>2, <2>1, <2>4, <2>6, <2>7, <2>15 DEF PInv
  <1> QED BY <1>3, <1>4

\* The n-th state depends on those before it alone.
LEMMA SameTrees ==
    ASSUME A2 \in Nat, A3 \in Nat, A2 <= A3,
           NEW ts, NEW us, NEW l \in Nat, TreeAt(ts, l), us[l] = ts[l],
           l >= A2 + 1 => us[A2 + 1] = ts[A2 + 1]
    PROVE  TreeAt(us, l)
  <1> DEFINE q == A2 + 1
             r == A3 + 1
  <1>1. l >= r => l >= q
    OBVIOUS
  <1> HIDE DEF q, r
  <1>2. /\ l <= A1 + 1 => ts[l] = Made(l - 1)
        /\ l >= A1 + 1 /\ l <= q => RenInv(Base, renames, l - (A1 + 1), ts[l])
        /\ l >= q /\ l <= r => ts[l] = ts[q]
        /\ l >= r => Wrote(ts[q], l - r, ts[l])
    BY DEF TreeAt, q, r
  <1>3. us[l] = ts[l] /\ (l >= q => us[q] = ts[q])
    BY DEF q
  <1>4. /\ l <= A1 + 1 => us[l] = Made(l - 1)
        /\ l >= A1 + 1 /\ l <= q => RenInv(Base, renames, l - (A1 + 1), us[l])
        /\ l >= q /\ l <= r => us[l] = us[q]
        /\ l >= r => Wrote(us[q], l - r, us[l])
    BY <1>1, <1>2, <1>3, Zenon
  <1> QED BY <1>4 DEF TreeAt, q, r

-----------------------------------------------------------------------------
\* One operation more is carried out.
LEMMA CarriedOn ==
    ASSUME PInv, Carry
    PROVE  RunInv'
  <1> DEFINE k == Len(trees)
             t == TreeAfter(ops[k], trees[k])
             d == DateAfter(ops[k], trees[k], dates[k])
             us == Append(trees, t)
             es == Append(dates, d)
  <1>1. /\ pc = "run" /\ pc' = "run" /\ k <= Len(ops)
        /\ UNCHANGED <<job, state, target, wanted>>
        /\ UNCHANGED <<degree, ready, done, stuck, cursor, renames, finishes>>
        /\ UNCHANGED <<lands, landed, ops>>
    BY DEF Carry, Goes, listing, order, plan
  <1>2. RunInv
    BY <1>1 DEF PInv
  <1>3. /\ Executable /\ Len(landed) = Len(job.writes) /\ ops = AllOps
        /\ trees \in Seq(Range(trees)) /\ dates \in Seq([Files -> Dates])
        /\ k \in 1..(A4 + 1) /\ Len(dates) = k
    BY <1>2 DEF RunInv
  <1>4. trees' = us /\ dates' = es
    BY <1>3 DEF Carry, Now, Last
  <1>5. job \in Jobs /\ Runnable
    BY <1>1, <1>3, IsRunnable
  <1>6. renames \in Seq(RenameOps) /\ Checked
    BY <1>5 DEF Runnable, SeqInv
  <1>7. /\ A1 \in Nat /\ A2 \in Nat /\ A3 \in Nat /\ A4 \in Nat /\ A1 <= A2 /\ A2 <= A3 /\ A3 <= A4
        /\ Len(AllOps) = A4
    BY <1>5, <1>6, OpsFacts
  <1>8. k \in Nat /\ k \in 1..A4 /\ k + 1 \in 1..(A4 + 1) /\ 1 <= k
    BY <1>1, <1>3, <1>7
  <1>9. \A l \in 1..k : TreeAt(trees, l)
    BY <1>2 DEF RunInv
  <1>10. \A l \in 1..(k - 1) : trees[l + 1] = TreeAfter(ops[l], trees[l])
    BY <1>2 DEF RunInv
  <1>11. \A l \in 1..(k - 1) : dates[l + 1] = DateAfter(ops[l], trees[l], dates[l])
    BY <1>2 DEF RunInv
  <1> DEFINE S == Range(trees) \cup {t}
  <1>12. trees \in Seq(S) /\ t \in S
  <2>1. \A X, Y : X \subseteq Y => Seq(X) \subseteq Seq(Y)
    OBVIOUS
  <2> HIDE DEF t
  <2>2. Range(trees) \subseteq S
    OBVIOUS
  <2> QED BY <1>3, <2>1, <2>2
  <1>13. d \in [Files -> Dates]
  <2>1. dates[k] \in [Files -> Dates]
    BY <1>3, <1>8, ElementOfSeq
  <2>2. ops[k].kind = "date" => ops[k].value = 1
      <3>1. k \in (A2 + 1)..A3 => AllOps[k] = [kind |-> "date", path |-> ActAt(k - A2), value |-> 1]
        BY <1>5, <1>6, OpsFacts
      <3>2. AllOps[k].kind = "date" => k \in (A2 + 1)..A3
        BY <1>5, <1>8, OpKinds
      <3> QED BY <1>3, <3>1, <3>2
  <2>3. 1 \in Dates
    BY ValuesAssumption
  <2> QED BY <2>1, <2>2, <2>3 DEF DateAfter
  <1> HIDE DEF t, d, S
  <1>14. /\ us \in Seq(S) /\ Len(us) = k + 1 /\ us[k + 1] = t
         /\ \A l \in 1..k : us[l] = trees[l]
  <2>1. /\ us \in Seq(S) /\ DOMAIN trees = 1..k /\ Len(us) = k + 1 /\ us[k + 1] = t
        /\ \A l \in DOMAIN trees : us[l] = trees[l]
    BY <1>12, AppendedFacts
  <2> QED BY <2>1
  <1>15. /\ es \in Seq([Files -> Dates]) /\ Len(es) = k + 1 /\ es[k + 1] = d
         /\ \A l \in 1..k : es[l] = dates[l]
  <2>1. /\ es \in Seq([Files -> Dates]) /\ DOMAIN dates = 1..Len(dates)
        /\ Len(es) = Len(dates) + 1 /\ es[Len(dates) + 1] = d
        /\ \A l \in DOMAIN dates : es[l] = dates[l]
    BY <1>3, <1>13, AppendedFacts
  <2> QED BY <1>3, <2>1
  <1> HIDE DEF us, es, k
  <1>16. \A l \in 1..k : TreeAt(us, l)
  <2> TAKE l \in 1..k
  <2>1. l \in Nat /\ us[l] = trees[l] /\ TreeAt(trees, l)
    BY <1>8, <1>9, <1>14
  <2>2. l >= A2 + 1 => us[A2 + 1] = trees[A2 + 1]
      <3>1. l >= A2 + 1 => A2 + 1 \in 1..k
        BY <1>7, <1>8
      <3> QED BY <1>14, <3>1
  <2> QED BY <1>7, <2>1, <2>2, SameTrees
  <1>17. us[k + 1] = TreeAfter(AllOps[k], us[k])
  <2>1. us[k] = trees[k]
    BY <1>8, <1>14
  <2> QED BY <1>3, <1>14, <2>1 DEF t
  <1>18. TreeAt(us, k + 1)
    BY <1>5, <1>8, <1>16, <1>17, TreeNext
  <1>19. \A l \in 1..(k + 1) : TreeAt(us, l)
  <2>1. \A l \in 1..(k + 1) : l \in 1..k \/ l = k + 1
    BY <1>8
  <2> QED BY <1>16, <1>18, <2>1
  <1>20. es[k + 1] = DateAfter(ops[k], us[k], es[k])
  <2>1. us[k] = trees[k] /\ es[k] = dates[k]
    BY <1>8, <1>14, <1>15
  <2> QED BY <1>15, <2>1 DEF d
  <1>21. \A l \in 1..k : /\ us[l + 1] = TreeAfter(ops[l], us[l])
                         /\ es[l + 1] = DateAfter(ops[l], us[l], es[l])
  <2> TAKE l \in 1..k
  <2>1. CASE l = k
    BY <1>3, <1>17, <1>20, <2>1
  <2>2. CASE l \in 1..(k - 1)
      <3>1. l + 1 \in 1..k
        BY <1>8, <2>2
      <3> QED BY <1>10, <1>11, <1>14, <1>15, <2>2, <3>1
  <2>3. l = k \/ l \in 1..(k - 1)
    BY <1>8
  <2> QED BY <2>1, <2>2, <2>3
  <1>22. us \in Seq(Range(us))
    BY <1>14, SeqOfItsOwn
  <1>23. /\ AllOps' = AllOps /\ A4' = A4
         /\ Executable' <=> Executable
         /\ \A ts, l : TreeAt(ts, l)' <=> TreeAt(ts, l)
    BY <1>1, SameRun DEF TreeAt
  <1>24. \A l \in 1..Len(trees') : TreeAt(trees, l)'
  <2>1. \A l : TreeAt(trees, l)' <=> TreeAt(us, l)
    BY <1>4, <1>23 DEF TreeAt
  <2> QED BY <1>4, <1>14, <1>19, <2>1
  <1>25. \A l \in 1..(Len(trees') - 1) : /\ trees'[l + 1] = TreeAfter(ops'[l], trees'[l])
                                         /\ dates'[l + 1] = DateAfter(ops'[l], trees'[l], dates'[l])
  <2>1. Len(trees') - 1 = k
    BY <1>4, <1>8, <1>14
  <2> QED BY <1>1, <1>4, <1>21, <2>1
  <1>26. /\ Executable' /\ Len(landed') = Len(job'.writes) /\ ops' = AllOps'
         /\ trees' \in Seq(Range(trees')) /\ dates' \in Seq([Files -> Dates])
         /\ Len(trees') \in 1..(A4' + 1) /\ Len(dates') = Len(trees')
    BY <1>1, <1>3, <1>4, <1>8, <1>14, <1>15, <1>22, <1>23
  <1> QED BY <1>24, <1>25, <1>26 DEF RunInv

\* ... and the rest stays as it is.
LEMMA CarryStep ==
    ASSUME PInv, Carry
    PROVE  PInv'
  <1>1. /\ pc = "run" /\ pc' = "run"
        /\ UNCHANGED <<job, state, target, wanted>>
        /\ UNCHANGED <<degree, ready, done, stuck, cursor, renames, finishes>>
        /\ UNCHANGED <<lands, landed, ops>>
    BY DEF Carry, listing, order, plan
  <1>2. StateInv'
  <2>1. target' = [i \in Rows |-> target'[i]] /\ DOMAIN lands' \subseteq Rows
    BY <1>1 DEF PInv, StateInv, TypeInv
  <2> QED BY <1>1, <2>1, PlanShape DEF Planning
  <1>3. /\ Clean' <=> Clean
        /\ Clean => CheckInv'
        /\ Rows' = Rows
    BY <1>1, SameChecks DEF Planning
  <1>4. ASSUME Clean
        PROVE  /\ SeqInv(renames, finishes, Mov)' /\ LandsInv'
               /\ finishes' = <<>> /\ DOMAIN lands' = Rows' /\ WriteInv'
  <2>1. /\ SeqInv(renames, finishes, Mov) /\ LandsInv
        /\ finishes = <<>> /\ DOMAIN lands = Rows /\ WriteInv
    BY <1>1, <1>4 DEF PInv, Planning
  <2>2. SeqInv(renames, finishes, Mov)' /\ LandsInv' /\ WriteInv'
    BY <1>1, <2>1, SameSeq, SameLands, SameWrite
  <2> QED BY <1>1, <1>3, <2>1, <2>2
  <1>5. RunInv'
    BY CarriedOn
  <1> QED BY <1>1, <1>2, <1>3, <1>4, <1>5 DEF PInv, Planning

\* Every step keeps the invariant.
LEMMA PNext ==
    ASSUME PInv, [Next]_vars
    PROVE  PInv'
  <1>1. CASE DetectBlocked
    BY <1>1, BlockedKeeps
  <1>2. CASE DetectDuplicates
    BY <1>2, DuplicatesKeeps
  <1>3. CASE DetectExisting
    BY <1>3, ExistingKeeps
  <1>4. CASE DetectIntoRenamed
    BY <1>4, IntoRenamedKeeps
  <1>5. CASE WantedDirectories
    BY <1>5, WantedKeeps
  <1>6. CASE DetectNeeded
    BY <1>6, NeededKeeps
  <1>7. CASE Edges
    BY <1>7, EdgesKeeps
  <1>8. CASE Move
    BY <1>8, MoveStep
  <1>9. CASE Stage
    BY <1>9, StageStep
  <1>10. CASE Stick
    BY <1>10, StickStep
  <1>11. CASE Finish
    BY <1>11, FinishStep
  <1>12. CASE Place
    BY <1>12, PlaceStep
  <1>13. CASE ResolveTarget
    BY <1>13, ResolveStep
  <1>14. CASE AllResolved
    BY <1>14, AllResolvedStep
  <1>15. CASE PlanWrite
    BY <1>15, WriteStep
  <1>16. CASE Conclude
    BY <1>16, ConcludeStep
  <1>17. CASE Carry
    BY <1>17, CarryStep
  <1>18. CASE Ended \/ UNCHANGED vars
    BY <1>18, SameAll DEF Ended
  <1> QED BY <1>1, <1>2, <1>3, <1>4, <1>5, <1>6, <1>7, <1>8, <1>9, <1>10, <1>11, <1>12, <1>13,
             <1>14, <1>15, <1>16, <1>17, <1>18 DEF Next

\* The planner's invariant.
LEMMA PlannerKeeps ==
    Spec => []PInv
  <1>1. Init => PInv
    BY PStart
  <1>2. PInv /\ [Next]_vars => PInv'
    BY PNext
  <1> QED BY <1>1, <1>2, PTL DEF Spec

\* What the invariant says of a plan.
LEMMA PlanFacts ==
    ASSUME PInv
    PROVE  PlanIsSound /\ PreviewIsTrue
  <1>1. CASE pc = "run"
  <2>1. RunInv
    BY <1>1 DEF PInv
  <2>2. job \in Jobs /\ Runnable
    BY <1>1, <2>1, IsRunnable DEF RunInv
  <2> QED BY <1>1, <2>1, <2>2, RunSound
  <1>2. CASE pc # "run"
    BY <1>2 DEF PlanIsSound, PreviewIsTrue, Carried
  <1> QED BY <1>1, <1>2

\* plan() and the executor: a plan that says it can run is carried out to its
\* end, every operation finding its file there, its name free and its folder
\* made, whatever was listed and asked for; and it is what the executor takes
\* for granted of a batch.
THEOREM PlanSound ==
    Spec => []PlanIsSound
  <1>1. PInv => PlanIsSound
    BY PlanFacts
  <1> QED BY <1>1, PlannerKeeps, PTL

\* resolve_targets: what the preview says of a row is where the run leaves its
\* file, whether it was renamed, moved, exchanged or carried by a folder.
THEOREM PreviewTrue ==
    Spec => []PreviewIsTrue
  <1>1. PInv => PreviewIsTrue
    BY PlanFacts
  <1> QED BY <1>1, PlannerKeeps, PTL

-----------------------------------------------------------------------------
(* What a run leaves.                                                      *)

\* A run that is over is one of a plan that could run.
LEMMA OverFacts ==
    ASSUME PInv, Carried
    PROVE  /\ job \in Jobs /\ Runnable /\ RunInv
           /\ Checked /\ Standing = Rows /\ renames \in Seq(RenameOps)
  <1>1. pc = "run"
    BY DEF Carried
  <1>2. RunInv
    BY <1>1 DEF PInv
  <1>3. job \in Jobs /\ Runnable
    BY <1>1, <1>2, IsRunnable DEF RunInv
  <1>4. Checked /\ Standing = Rows /\ renames \in Seq(RenameOps)
    BY <1>3 DEF Runnable, SeqInv
  <1> QED BY <1>2, <1>3, <1>4

\* action_ops: an action reaches the file its row lists, whatever the file is
\* called by then.
THEOREM ActsReach ==
    Spec => []ActsReachTheirRow
  <1>1. ASSUME PInv PROVE ActsReachTheirRow
  <2> SUFFICES ASSUME Carried, job.dated, NEW i \in Rows
               PROVE  trees[A2 + i][ops[A2 + i].path] = job.tree[Source(i)]
    BY DEF ActsReachTheirRow, A2, A1
  <2> DEFINE n == A2 + i
             B == trees[A2 + 1]
  <2>1. /\ job \in Jobs /\ Runnable /\ RunInv
        /\ Checked /\ Standing = Rows /\ renames \in Seq(RenameOps)
    BY <1>1, OverFacts
  <2>2. /\ Settled(Base, FinOf, B) /\ Resolved(Base, FinOf, B)
        /\ \A k \in 1..(A4 + 1) : TreeAt(trees, k)
        /\ ops = AllOps
    BY <2>1, RunOver
  <2>3. /\ A2 \in Nat /\ A3 \in Nat /\ A4 \in Nat /\ A3 <= A4
        /\ \A k \in (A2 + 1)..A3 : AllOps[k] = [kind |-> "date", path |-> ActAt(k - A2), value |-> 1]
    BY <2>1, OpsFacts
  <2>4. Len(job.rows) \in Nat /\ Rows = 1..Len(job.rows)
    BY <2>1, JobFacts
  <2>5. Len(Acts) = Len(job.rows)
    BY <2>4 DEF Acts
  <2>6. n \in (A2 + 1)..A3 /\ n - A2 = i /\ n \in 1..(A4 + 1) /\ n >= A2 + 1 /\ n <= A3 + 1
    BY <2>3, <2>4, <2>5 DEF A3
  <2>7. ops[n].path = target[i]
      <3>1. AllOps[n] = [kind |-> "date", path |-> ActAt(n - A2), value |-> 1]
        BY <2>3, <2>6
      <3>2. ActAt(i) = target[i]
        BY <2>1 DEF ActAt
      <3> HIDE DEF n
      <3> QED BY <2>2, <2>6, <3>1, <3>2
  <2>8. trees[n] = B
      <3> HIDE DEF n
      <3>1. TreeAt(trees, n)
        BY <2>2, <2>6
      <3> QED BY <2>6, <3>1 DEF TreeAt
  <2>9. Source(i) \in DOMAIN Base /\ target[i] = Home(B, Base[Source(i)])
    BY <2>2 DEF Resolved
  <2>10. B[target[i]] = Base[Source(i)]
    BY <2>2, <2>9, PlaceFacts
  <2>11. Base[Source(i)] = job.tree[Source(i)]
    BY <2>1, JobFacts, BaseFacts
  <2> HIDE DEF B, n
  <2>12. trees[n][ops[n].path] = job.tree[Source(i)]
    BY <2>7, <2>8, <2>10, <2>11
  <2> QED BY <2>12 DEF n
  <1> QED BY <1>1, PlannerKeeps, PTL

-----------------------------------------------------------------------------
\* The folder a file is in.
LEMMA FolderIs ==
    ASSUME NEW t, NEW p \in Paths
    PROVE  /\ Len(p) <= 1 => FolderAbove(t, p, 1) = "browsed"
           /\ Len(p) > 1 => FolderAbove(t, p, 1) = t[Parent(p)]
  <1>1. Len(p) \in Nat
    BY PathFacts
  <1> QED BY <1>1 DEF FolderAbove, Parent

\* WriteCheck::plan: a script's file goes into the folder the script named,
\* though the run has renamed that folder since, and replaces what was there
\* under that name and nothing else.
THEOREM WritesLand ==
    Spec => []WritesLandWhereNamed
  <1>1. ASSUME PInv PROVE WritesLandWhereNamed
  <2> SUFFICES ASSUME Carried, NEW n \in DOMAIN job.writes
               PROVE  LET p == job.writes[n]
                          q == landed[n]
                          t == Now
                      IN  /\ Exists(t, q) /\ Last(q) = Last(p)
                          /\ FolderAbove(t, q, 1) = FolderAbove(job.tree, p, 1)
                          /\ IF Exists(job.tree, p) THEN t[q] = job.tree[p]
                                                    ELSE t[q] \notin FilesIn(job.tree)
    BY DEF WritesLandWhereNamed
  <2> DEFINE B == trees[A2 + 1]
             p == job.writes[n]
             q == Landing(p)
  <2>1. job \in Jobs /\ Runnable /\ RunInv /\ Checked
    BY <1>1, OverFacts
  <2>2. Settled(Base, FinOf, B) /\ Resolved(Base, FinOf, B) /\ Wrote(B, Len(job.writes), Now)
    BY <2>1, RunOver
  <2> HIDE DEF B
  <2>3. n \in 1..Len(job.writes) /\ Len(job.writes) \in Nat
    BY <2>1, JobFacts, LenProperties
  <2>4. landed[n] = q /\ MayAlone(p)
    BY <2>1, <2>3 DEF Runnable, WriteInv
  <2>5. p \in Paths
    BY <2>1, <2>3, NewFilesFacts
  <2>6. /\ q \in Paths
        /\ p \in DOMAIN job.tree => q \in DOMAIN B /\ B[q] = job.tree[p]
        /\ p \notin DOMAIN job.tree => CanCreate(B, q)
    BY <2>1, <2>2, <2>4, <2>5, WriteFacts
  <2>7. /\ DOMAIN Now = DOMAIN B \cup {landed[m] : m \in 1..Len(job.writes)}
        /\ \A r \in DOMAIN B : Now[r] = B[r]
        /\ \A r \in DOMAIN Now : r \in DOMAIN B \/ \E m \in 1..Len(job.writes) : Now[r] = NewFiles[m]
    BY <2>2 DEF Wrote
  <2>8. q \in DOMAIN Now
    BY <2>3, <2>4, <2>7
  <2>9. IF Exists(job.tree, p) THEN Now[q] = job.tree[p] ELSE Now[q] \notin FilesIn(job.tree)
      <3>1. CASE p \in DOMAIN job.tree
        BY <2>6, <2>7, <3>1 DEF Exists
      <3>2. CASE p \notin DOMAIN job.tree
        <4>1. q \notin DOMAIN B
          BY <2>6, <3>2 DEF CanCreate, Exists
        <4>2. PICK m \in 1..Len(job.writes) : Now[q] = NewFiles[m]
          BY <2>7, <2>8, <4>1
        <4> QED BY <2>1, <3>2, <4>2, NewFilesFacts DEF Exists
      <3> QED BY <3>1, <3>2
    \* the folder
  <2>10. PICK i \in Rows : Parent(p) = Parent(Source(i))
    BY <2>4 DEF MayAlone
  <2>11. Source(i) \in Paths /\ Source(i) \in DOMAIN job.tree /\ IsTree(job.tree)
    BY <2>1, JobFacts
  <2>12. Len(p) > 1 => Parent(p) \in DOMAIN job.tree
      <3>1. Len(Parent(p)) = Len(p) - 1 /\ Len(Parent(Source(i))) = Len(Source(i)) - 1
        BY <2>5, <2>11, ParentIsSeq
      <3>2. Len(p) = Len(Source(i))
        BY <2>5, <2>10, <2>11, <3>1, PathFacts
      <3>3. Len(Source(i)) > 1 => Parent(Source(i)) \in DOMAIN job.tree
        BY <2>11, TreeFacts
      <3> QED BY <2>10, <3>2, <3>3
  <2>13. Len(p) > 1 => Parent(p) \in DOMAIN Base /\ Base[Parent(p)] = job.tree[Parent(p)]
    BY <2>1, <2>12, BaseFacts
  <2>14. Len(p) > 1 /\ FinOf[Parent(p)] = Parent(p) =>
            Carries(Base, FinOf, B, Parent(p), Home(B, Base[Parent(p)]))
    BY <2>2, <2>13, Rests
  <2>15. p \notin Moved(FinOf)
    BY <2>1, <2>4, FinFacts DEF MayAlone
  <2>16. Shaped(FinOf)
    BY <2>1, FinFacts
  <2>17. Carries(Base, FinOf, B, p, q)
    BY <2>2, <2>5, <2>15, <2>16, LandingIsCarried
  <2> HIDE DEF p, q
  <2>18. /\ q[Len(q)] = p[Len(p)]
         /\ Len(q) > 1 => Len(p) > 1
         /\ Len(p) > 1 => /\ Len(q) > 1 /\ Parent(q) \in DOMAIN B
                          /\ B[Parent(q)] = Base[Parent(p)]
    BY <2>2, <2>5, <2>13, <2>14, <2>17, CarriedFolder
  <2>19. FolderAbove(Now, q, 1) = FolderAbove(job.tree, p, 1)
      <3>1. CASE Len(p) > 1
        <4>1. Now[Parent(q)] = job.tree[Parent(p)]
          BY <2>7, <2>13, <2>18, <3>1
        <4> QED BY <2>5, <2>6, <2>18, <3>1, <4>1, FolderIs
      <3>2. CASE ~(Len(p) > 1)
        <4>1. Len(p) <= 1 /\ Len(q) <= 1
          BY <2>5, <2>6, <2>18, <3>2, PathFacts
        <4> QED BY <2>5, <2>6, <4>1, FolderIs
      <3> QED BY <3>1, <3>2
  <2>20. Exists(Now, q) /\ Last(q) = Last(p)
    BY <2>8, <2>18 DEF Exists, Last
  <2> QED BY <2>4, <2>9, <2>19, <2>20 DEF p
  <1> QED BY <1>1, PlannerKeeps, PTL

-----------------------------------------------------------------------------
\* The file at q bears the last n + 1 names of c, and is as deep below the
\* folder they lead from.
Bears(t, q, c, n) ==
    /\ n < Len(q) /\ n < Len(c)
    /\ q[Len(q) - n] = c[Len(c) - n]
    /\ Len(c) - n > 1 <=> Len(q) - n > 1
    /\ Len(c) - n > 1 =>
          /\ SubSeq(q, 1, Len(q) - (n + 1)) \in DOMAIN t
          /\ t[SubSeq(q, 1, Len(q) - (n + 1))] = Base[SubSeq(c, 1, Len(c) - (n + 1))]

\* The first names of a path.
LEMMA HeadFacts ==
    ASSUME NEW p \in Paths, NEW k \in 1..Len(p)
    PROVE  /\ Len(SubSeq(p, 1, k)) = k /\ \A i \in 1..k : SubSeq(p, 1, k)[i] = p[i]
           /\ Parent(SubSeq(p, 1, k)) = SubSeq(p, 1, k - 1)
  <1> DEFINE d == SubSeq(p, 1, k)
  <1>1. Len(p) \in Nat /\ k \in Nat /\ k >= 1 /\ k <= Len(p) /\ p \in Seq(Names)
    BY PathFacts
  <1>2. d = [i \in 1..k |-> p[i]] /\ Len(d) = k
    BY <1>1
  <1> HIDE DEF d
  <1>3. \A i \in 1..k : d[i] = p[i]
    BY <1>2
  <1>4. SubSeq(d, 1, k - 1) = [i \in 1..(k - 1) |-> d[i]]
    BY <1>1, <1>2
  <1>5. SubSeq(p, 1, k - 1) = [i \in 1..(k - 1) |-> p[i]]
    BY <1>1
  <1>6. \A i \in 1..(k - 1) : i \in 1..k
    BY <1>1
  <1>7. Parent(d) = SubSeq(p, 1, k - 1)
    BY <1>2, <1>3, <1>4, <1>5, <1>6 DEF Parent
  <1> QED BY <1>2, <1>3, <1>7 DEF d

\* What is at home under its own name bears the names of its folders that the
\* run leaves alone.
LEMMA BearsOneMore ==
    ASSUME job \in Jobs, Checked, NEW t, Settled(Base, FinOf, t),
           NEW q \in Paths, NEW c \in Paths, NEW n \in Nat,
           Bears(t, q, c, n), Len(c) - n > 1,
           SubSeq(c, 1, Len(c) - (n + 1)) \in DOMAIN Base,
           FinOf[SubSeq(c, 1, Len(c) - (n + 1))] = SubSeq(c, 1, Len(c) - (n + 1))
    PROVE  Bears(t, q, c, n + 1)
  <1> DEFINE d == SubSeq(c, 1, Len(c) - (n + 1))
             r == SubSeq(q, 1, Len(q) - (n + 1))
  <1>1. /\ Len(c) \in Nat /\ Len(q) \in Nat /\ c \in Seq(Names) /\ q \in Seq(Names)
        /\ \A i \in 1..Len(c) : c[i] \in Names
        /\ \A i \in 1..Len(q) : q[i] \in Names
    BY PathFacts
  <1>2. /\ Len(q) - n > 1 /\ r \in DOMAIN t /\ t[r] = Base[d]
    BY DEF Bears
  <1>3. /\ Len(d) = Len(c) - (n + 1) /\ Len(d) \in Nat
        /\ \A i \in 1..Len(d) : d[i] = c[i]
        /\ Parent(d) = SubSeq(c, 1, Len(c) - (n + 2))
  <2> DEFINE k == Len(c) - (n + 1)
  <2>1. k \in 1..Len(c) /\ k - 1 = Len(c) - (n + 2) /\ k \in Nat
    BY <1>1
  <2> HIDE DEF k
  <2>2. /\ Len(SubSeq(c, 1, k)) = k /\ \A i \in 1..k : SubSeq(c, 1, k)[i] = c[i]
        /\ Parent(SubSeq(c, 1, k)) = SubSeq(c, 1, k - 1)
    BY <2>1, HeadFacts
  <2>3. d = SubSeq(c, 1, k)
    BY DEF k
  <2> HIDE DEF d
  <2>4. Len(d) = k /\ (\A i \in 1..Len(d) : d[i] = c[i]) /\ Parent(d) = SubSeq(c, 1, Len(c) - (n + 2))
    BY <2>1, <2>2, <2>3
  <2> QED BY <2>1, <2>4 DEF k
  <1>4. /\ Len(r) = Len(q) - (n + 1) /\ Len(r) \in Nat
        /\ \A i \in 1..Len(r) : r[i] = q[i]
        /\ Parent(r) = SubSeq(q, 1, Len(q) - (n + 2))
  <2> DEFINE k == Len(q) - (n + 1)
  <2>1. k \in 1..Len(q) /\ k - 1 = Len(q) - (n + 2) /\ k \in Nat
    BY <1>1, <1>2
  <2> HIDE DEF k
  <2>2. /\ Len(SubSeq(q, 1, k)) = k /\ \A i \in 1..k : SubSeq(q, 1, k)[i] = q[i]
        /\ Parent(SubSeq(q, 1, k)) = SubSeq(q, 1, k - 1)
    BY <2>1, HeadFacts
  <2>3. r = SubSeq(q, 1, k)
    BY DEF k
  <2> HIDE DEF r
  <2>4. Len(r) = k /\ (\A i \in 1..Len(r) : r[i] = q[i]) /\ Parent(r) = SubSeq(q, 1, Len(q) - (n + 2))
    BY <2>1, <2>2, <2>3
  <2> QED BY <2>1, <2>4 DEF k
  <1>5. d \in DOMAIN Base /\ FinOf[d] = d
    OBVIOUS
  <1> HIDE DEF d, r
  <1>6. r = Home(t, Base[d])
  <2>1. Home(t, Base[d]) \in DOMAIN t /\ t[Home(t, Base[d])] = Base[d]
    BY <1>5, PlaceFacts
  <2>2. IsTree(t)
    BY DEF Settled
  <2> QED BY <1>2, <2>1, <2>2, TreeFacts
  <1>7. /\ r[Len(r)] = d[Len(d)]
        /\ Len(r) > 1 => Len(d) > 1
        /\ Len(d) > 1 => Len(r) > 1 /\ t[Parent(r)] = Base[Parent(d)]
    BY <1>5, <1>6, PlaceFacts
  <1>8. Len(r) > 1 => Parent(r) \in DOMAIN t
    BY <1>2, TreeFacts DEF Settled
  <1>9. /\ Len(c) - (n + 1) = Len(d) /\ Len(q) - (n + 1) = Len(r) /\ Len(d) >= 1 /\ Len(r) >= 1
        /\ Len(c) - ((n + 1) + 1) = Len(c) - (n + 2) /\ Len(q) - ((n + 1) + 1) = Len(q) - (n + 2)
        /\ n + 1 < Len(q) /\ n + 1 < Len(c)
    BY <1>1, <1>2, <1>3, <1>4
  <1>10. q[Len(q) - (n + 1)] = c[Len(c) - (n + 1)]
  <2>1. Len(r) \in 1..Len(r) /\ Len(d) \in 1..Len(d)
    BY <1>3, <1>4, <1>9
  <2>2. r[Len(r)] = q[Len(r)] /\ d[Len(d)] = c[Len(d)]
    BY <1>3, <1>4, <2>1
  <2> QED BY <1>7, <1>9, <2>2
  <1>11. Len(c) - (n + 1) > 1 <=> Len(q) - (n + 1) > 1
    BY <1>7, <1>9
  <1>12. Len(c) - (n + 1) > 1 =>
             /\ SubSeq(q, 1, Len(q) - ((n + 1) + 1)) \in DOMAIN t
             /\ t[SubSeq(q, 1, Len(q) - ((n + 1) + 1))] = Base[SubSeq(c, 1, Len(c) - ((n + 1) + 1))]
    BY <1>3, <1>4, <1>7, <1>8, <1>9
  <1> QED BY <1>9, <1>10, <1>11, <1>12 DEF Bears

-----------------------------------------------------------------------------
\* One sequence ends with another if it has its last elements.
LEMMA EndsWith ==
    ASSUME NEW s \in Seq(Names), NEW q \in Seq(Names), Len(s) <= Len(q),
           \A n \in 0..(Len(s) - 1) : q[Len(q) - n] = s[Len(s) - n]
    PROVE  IsSuffix(s, q)
  <1> DEFINE l == Len(s)
             k == Len(q)
             u == Reverse(s)
             v == Reverse(q)
  <1>1. l \in Nat /\ k \in Nat /\ l <= k
    OBVIOUS
  <1>2. /\ u = [i \in 1..l |-> s[(l - i) + 1]] /\ v = [i \in 1..k |-> q[(k - i) + 1]]
    BY DEF Reverse
  <1>3. \A n \in 0..(l - 1) : q[k - n] = s[l - n]
    OBVIOUS
  <1>4. \A i \in 1..l : s[(l - i) + 1] \in Names
    BY <1>1, ElementOfSeq
  <1>5. \A i \in 1..k : q[(k - i) + 1] \in Names
    BY <1>1, ElementOfSeq
  <1> HIDE DEF l, k, u, v
  <1>6. u \in Seq(Names) /\ v \in Seq(Names) /\ Len(u) = l /\ Len(v) = k
    BY <1>1, <1>2, <1>4, <1>5, SMTT(30)
  <1>7. SubSeq(u, 1, l) = [i \in 1..l |-> u[i]] /\ SubSeq(v, 1, l) = [i \in 1..l |-> v[i]]
    BY <1>1, <1>6
  <1>8. ASSUME NEW i \in 1..l PROVE u[i] = v[i]
  <2> DEFINE n == i - 1
  <2>1. n \in 0..(l - 1) /\ (l - i) + 1 = l - n /\ (k - i) + 1 = k - n /\ i \in 1..k
    BY <1>1
  <2> HIDE DEF n
  <2>2. q[k - n] = s[l - n]
    BY <1>3, <2>1
  <2> QED BY <1>2, <2>1, <2>2
  <1>9. SubSeq(u, 1, l) = SubSeq(v, 1, l)
    BY <1>7, <1>8
  <1> QED BY <1>1, <1>6, <1>9 DEF IsSuffix, IsPrefix, u, v

\* Where a file ends, and what it is called there.
LEMMA EndsSomewhere ==
    ASSUME NEW t, Settled(Base, FinOf, t), NEW p \in DOMAIN Base,
           NEW q, q = Home(t, Base[p]), NEW c, c = FinOf[p]
    PROVE  /\ q \in DOMAIN t /\ t[q] = Base[p] /\ q \in Paths /\ c \in Paths
           /\ q[Len(q)] = c[Len(c)]
           /\ Len(q) > 1 => Len(c) > 1
           /\ Len(c) > 1 => Len(q) > 1 /\ t[Parent(q)] = Base[Parent(c)]
  BY PlaceFacts

\* The file that was at p is at q, under the names s, in the folder it was in.
EndsIn(t, q, p, s) ==
    /\ q \in DOMAIN t /\ t[q] = job.tree[p] /\ IsSuffix(s, q)
    /\ Len(p) <= 1 => Len(q) <= Len(s)
    /\ Len(p) > 1 => /\ Len(q) > Len(s) /\ SubSeq(q, 1, Len(q) - Len(s)) \in DOMAIN t
                     /\ t[SubSeq(q, 1, Len(q) - Len(s))] = job.tree[Parent(p)]

\* A file whose name leads through folders that stay ends under that name, in
\* the folder it was in.
LEMMA EndsAsAsked ==
    ASSUME job \in Jobs, Checked, NEW t, Settled(Base, FinOf, t),
           NEW p \in DOMAIN job.tree, NEW q, q = Home(t, Base[p]), NEW c, c = FinOf[p],
           NEW s \in Seq(Names), s # <<>>, c = Parent(p) \o s,
           \A k \in 1..(Len(s) - 1) : /\ SubSeq(c, 1, Len(c) - k) \in DOMAIN Base
                                      /\ FinOf[SubSeq(c, 1, Len(c) - k)] = SubSeq(c, 1, Len(c) - k)
    PROVE  EndsIn(t, q, p, s)
  <1> DEFINE l == Len(s)
  <1>1. p \in DOMAIN Base /\ Base[p] = job.tree[p] /\ IsTree(job.tree)
    BY JobFacts, BaseFacts
  <1>2. /\ p \in Paths /\ Len(p) \in Nat \ {0} /\ l \in Nat \ {0}
        /\ Len(p) > 1 => Parent(p) \in DOMAIN job.tree
  <2>1. p \in Paths /\ (Len(p) > 1 => Parent(p) \in DOMAIN job.tree)
    BY <1>1, TreeFacts
  <2>2. Len(p) \in Nat \ {0}
    BY <2>1, PathFacts
  <2>3. l \in Nat /\ l # 0
    BY EmptySeq, LenProperties
  <2> QED BY <2>1, <2>2, <2>3
  <1>3. /\ q \in DOMAIN t /\ t[q] = Base[p] /\ q \in Paths /\ c \in Paths
        /\ q[Len(q)] = c[Len(c)]
        /\ Len(q) > 1 => Len(c) > 1
        /\ Len(c) > 1 => Len(q) > 1 /\ t[Parent(q)] = Base[Parent(c)]
  <2>2. p \in DOMAIN Base /\ Settled(Base, FinOf, t)
    BY <1>1
  <2> QED BY ONLY <2>2, q = Home(t, Base[p]), c = FinOf[p], EndsSomewhere
  <1>4. /\ Parent(p) \in Seq(Names) /\ Len(Parent(p)) = Len(p) - 1
        /\ c = Parent(p) \o s
    BY <1>2, ParentIsSeq
  <1>5. \A k \in 1..(l - 1) : SubSeq(c, 1, Len(c) - k) \in DOMAIN Base
                              /\ FinOf[SubSeq(c, 1, Len(c) - k)] = SubSeq(c, 1, Len(c) - k)
    OBVIOUS
  <1>6. IsTree(t)
    BY DEF Settled
  <1> HIDE DEF l
  <1>7. /\ Len(c) = Len(p) - 1 + l
        /\ \A n \in 1..(Len(p) - 1) : c[n] = Parent(p)[n]
        /\ \A n \in 1..l : c[Len(p) - 1 + n] = s[n]
  <2>1. \A n \in 1..(Len(Parent(p)) + Len(s)) :
           (Parent(p) \o s)[n] = IF n <= Len(Parent(p)) THEN Parent(p)[n] ELSE s[n - Len(Parent(p))]
    BY <1>4, ConcatProperties
  <2>2. Len(Parent(p) \o s) = Len(Parent(p)) + Len(s)
    BY <1>4, ConcatProperties
  <2> DEFINE a == Len(p) - 1
  <2>3. a \in Nat
    BY <1>2
  <2>4. Len(c) = a + l /\ \A n \in 1..(a + l) : c[n] = IF n <= a THEN Parent(p)[n] ELSE s[n - a]
    BY <1>4, <2>1, <2>2 DEF l
  <2> HIDE DEF a
  <2>5. \A n \in 1..a : n \in 1..(a + l) /\ n <= a
    BY <1>2, <2>3
  <2>6. \A n \in 1..l : a + n \in 1..(a + l) /\ ~(a + n <= a) /\ (a + n) - a = n
    BY <1>2, <2>3
  <2>7. Len(c) = a + l /\ (\A n \in 1..a : c[n] = Parent(p)[n]) /\ \A n \in 1..l : c[a + n] = s[n]
    BY <2>4, <2>5, <2>6
  <2> QED BY <2>7 DEF a
  <1>8. Len(c) \in Nat \ {0} /\ Len(q) \in Nat \ {0}
    BY <1>3, PathFacts
  \* name by name, from the last
  <1>9. Bears(t, q, c, 0)
  <2>1. Len(q) > 1 => Parent(q) \in DOMAIN t
    BY <1>3, <1>6, TreeFacts
  <2>2. Parent(q) = SubSeq(q, 1, Len(q) - (0 + 1)) /\ Parent(c) = SubSeq(c, 1, Len(c) - (0 + 1))
    BY <1>8 DEF Parent
  <2>3. Len(q) - 0 = Len(q) /\ Len(c) - 0 = Len(c) /\ 0 < Len(q) /\ 0 < Len(c)
    BY <1>8
  <2> QED BY <1>3, <2>1, <2>2, <2>3 DEF Bears
  <1>10. \A n \in 0..(l - 1) : Bears(t, q, c, n)
  <2> DEFINE T == {n \in Nat : n < l /\ ~Bears(t, q, c, n)}
  <2>1. CASE T # {}
      <3>1. PICK m \in T : \A k \in T : m <= k
        BY <2>1, Least
      <3>2. m \in Nat /\ m < l /\ ~Bears(t, q, c, m)
        OBVIOUS
      <3>3. m # 0
        BY <1>9, <3>2
      <3> DEFINE n == m - 1
      <3>4. n \in Nat /\ n < l /\ n < m /\ n + 1 = m
        BY <1>2, <3>2, <3>3
      <3>5. n \notin T
        BY <3>1, <3>4
      <3>6. Bears(t, q, c, n)
        BY <3>4, <3>5
      <3> HIDE DEF T, n
      <3>7. m \in 1..(l - 1) /\ Len(c) - n > 1
        BY <1>2, <1>7, <1>8, <3>2, <3>3, <3>4
      <3>8. /\ SubSeq(c, 1, Len(c) - (n + 1)) \in DOMAIN Base
            /\ FinOf[SubSeq(c, 1, Len(c) - (n + 1))] = SubSeq(c, 1, Len(c) - (n + 1))
        BY <1>5, <3>4, <3>7
      <3>9. Bears(t, q, c, n + 1)
        BY <1>3, <3>4, <3>6, <3>7, <3>8, BearsOneMore
      <3> QED BY <3>2, <3>4, <3>9
  <2>2. CASE T = {}
      <3>1. \A n \in 0..(l - 1) : n \in Nat /\ n < l
        BY <1>2
      <3> QED BY <2>2, <3>1
  <2> QED BY <2>1, <2>2
  <1>11. l - 1 \in 0..(l - 1) /\ (l - 1) + 1 = l /\ Len(c) - (l - 1) = Len(p) /\ Len(c) - l = Len(p) - 1
    BY <1>2, <1>7, <1>8
  <1>12. /\ l - 1 < Len(q)
         /\ Len(p) > 1 <=> Len(q) - (l - 1) > 1
         /\ Len(p) > 1 => /\ SubSeq(q, 1, Len(q) - l) \in DOMAIN t
                          /\ t[SubSeq(q, 1, Len(q) - l)] = Base[SubSeq(c, 1, Len(p) - 1)]
    BY <1>10, <1>11 DEF Bears
  <1>13. IsSuffix(s, q)
  <2>1. q \in Seq(Names) /\ l <= Len(q)
    BY <1>2, <1>3, <1>8, <1>12, PathFacts
  <2>2. ASSUME NEW n \in 0..(l - 1) PROVE q[Len(q) - n] = s[l - n]
      <3>1. q[Len(q) - n] = c[Len(c) - n]
        BY <1>10 DEF Bears
      <3> DEFINE k == l - n
      <3>2. k \in 1..l /\ Len(c) - n = Len(p) - 1 + k
        BY <1>2, <1>7
      <3> HIDE DEF k
      <3>3. c[Len(p) - 1 + k] = s[k]
        BY <1>7, <3>2
      <3> QED BY <3>1, <3>2, <3>3 DEF k
  <2> QED BY <2>1, <2>2, EndsWith DEF l
  <1>14. Len(p) > 1 => SubSeq(c, 1, Len(p) - 1) = Parent(p)
  <2> DEFINE a == Len(p) - 1
  <2>1. a \in Nat /\ a <= Len(c) /\ Len(Parent(p)) = a
    BY <1>2, <1>4, <1>7
  <2>2. \A n \in 1..a : c[n] = Parent(p)[n]
    BY <1>7
  <2>3. c \in Seq(Names)
    BY <1>3, PathFacts
  <2> HIDE DEF a
  <2>4. SubSeq(c, 1, a) = [n \in 1..a |-> c[n]]
    BY <2>1, <2>3, <1>8
  <2>5. Parent(p) = [n \in 1..a |-> Parent(p)[n]]
    BY <1>4, <2>1
  <2>6. SubSeq(c, 1, a) = Parent(p)
    BY <2>2, <2>4, <2>5
  <2> QED BY <2>6 DEF a
  <1>15. Len(p) > 1 => Base[Parent(p)] = job.tree[Parent(p)]
    BY <1>2, BaseFacts
  <1>16. /\ Len(p) <= 1 => Len(q) <= l
         /\ Len(p) > 1 => Len(q) > l
    BY <1>2, <1>8, <1>12
  <1>17. Len(p) > 1 => /\ Len(q) > l /\ SubSeq(q, 1, Len(q) - l) \in DOMAIN t
                       /\ t[SubSeq(q, 1, Len(q) - l)] = job.tree[Parent(p)]
    BY <1>12, <1>14, <1>15, <1>16
  <1> QED BY <1>1, <1>3, <1>13, <1>16, <1>17 DEF l, EndsIn

-----------------------------------------------------------------------------
\* A path is its folder's with its last name.
LEMMA LastName ==
    ASSUME NEW p \in Paths
    PROVE  /\ <<Last(p)>> \in Seq(Names) /\ <<Last(p)>> # <<>> /\ Len(<<Last(p)>>) = 1
           /\ p = Parent(p) \o <<Last(p)>>
  <1> DEFINE u == Parent(p)
             x == p[Len(p)]
             l == Len(p)
  <1>1. l \in Nat \ {0} /\ x \in Names /\ p \in Seq(Names)
  <2>1. Len(p) \in Nat \ {0} /\ p \in Seq(Names) /\ \A i \in 1..Len(p) : p[i] \in Names
    BY PathFacts
  <2>2. Len(p) \in 1..Len(p)
    BY <2>1
  <2> QED BY <2>1, <2>2
  <1>2. u \in Seq(Names) /\ Len(u) = l - 1 /\ \A n \in 1..(l - 1) : u[n] = p[n]
    BY ParentIsSeq
  <1> HIDE DEF u
  <1>3. p = u \o <<x>>
  <2> HIDE DEF x
  <2> DEFINE v == u \o <<x>>
  <2>1. v \in Seq(Names) /\ Len(v) = l /\ v[l] = x /\ \A n \in 1..(l - 1) : v[n] = u[n]
    BY <1>1, <1>2
  <2> HIDE DEF v
  <2>2. ASSUME NEW n \in 1..l PROVE p[n] = v[n]
      <3>1. CASE n = l
        BY <2>1, <3>1 DEF x
      <3>2. CASE n # l
        <4>1. n \in 1..(l - 1)
          BY <1>1, <3>2
        <4> QED BY <1>2, <2>1, <4>1
      <3> QED BY <3>1, <3>2
  <2>3. p = v
    BY <1>1, <2>1, <2>2, SeqEqual
  <2> QED BY <2>3 DEF v
  <1> HIDE DEF x
  <1>4. <<x>> \in Seq(Names) /\ <<x>> # <<>> /\ Len(<<x>>) = 1
    BY <1>1
  <1> QED BY <1>3, <1>4 DEF x, u, Last

\* What a file is asked to be called leads through folders that stay.
LEMMA NameFacts ==
    ASSUME job \in Jobs, Checked, NEW p \in DOMAIN job.tree
    PROVE  /\ NameFor(p) \in Seq(Names) /\ NameFor(p) # <<>>
           /\ FinOf[p] = Parent(p) \o NameFor(p)
           /\ \A k \in 1..(Len(NameFor(p)) - 1) :
                 /\ SubSeq(FinOf[p], 1, Len(FinOf[p]) - k) \in DOMAIN Base
                 /\ FinOf[SubSeq(FinOf[p], 1, Len(FinOf[p]) - k)] = SubSeq(FinOf[p], 1, Len(FinOf[p]) - k)
  <1>1. p \in Paths /\ p \in DOMAIN Base
    BY JobFacts, TreeFacts, BaseFacts
  <1>2. CASE \E i \in Rows : Source(i) = p
  <2>1. PICK i \in Rows : Source(i) = p
    BY <1>2
  <2>2. job.names[i] # <<>> /\ NoneRenamed
    BY DEF Checked
  <2>3. job.names[i] \in Seq(Names) /\ \A j \in Rows : Source(j) = p => j = i
    BY <2>1, JobFacts
  <2>4. NameFor(p) = job.names[i]
      <3>1. (CHOOSE j \in Rows : Source(j) = p) = i
        BY <2>1, <2>3
      <3> QED BY <1>2, <3>1 DEF NameFor
  <2>5. FinOf[p] = To(i)
    BY <2>1, FinFacts
  <2>6. To(i) = Parent(p) \o job.names[i]
    BY <2>1 DEF To, Aimed, Source
  <2>7. /\ Len(To(i)) = Len(p) - 1 + Len(job.names[i]) /\ Len(job.names[i]) \in Nat \ {0}
        /\ Len(p) \in Nat \ {0}
    BY <1>1, <2>1, <2>2, ToFacts, PathFacts
  <2>8. ASSUME NEW k \in 1..(Len(job.names[i]) - 1)
        PROVE  LET d == SubSeq(To(i), 1, Len(To(i)) - k) IN d \in DOMAIN Base /\ FinOf[d] = d
      <3> DEFINE d == SubSeq(To(i), 1, Len(To(i)) - k)
                 n == Len(To(i)) - k
      <3>1. n \in Len(p)..(Len(To(i)) - 1)
        BY <2>7
      <3>2. d \in Way(job, i)
        <4>1. Way(job, i) = {SubSeq(To(i), 1, m) : m \in Len(p)..(Len(To(i)) - 1)}
          BY <2>1 DEF Way, To, Source
        <4>2. d = SubSeq(To(i), 1, n)
          OBVIOUS
        <4> HIDE DEF d, n
        <4> QED BY <3>1, <4>1, <4>2
      <3> HIDE DEF d
      <3>3. d \in Paths /\ StrictlyUnder(d, To(i))
        BY <2>2, <3>2, WayFacts
      <3>4. d \in DOMAIN Base
        <4>1. d \in DOMAIN job.tree \/ Contains(wanted, d)
          BY <3>3, GoesThrough
        <4> QED BY <4>1, BaseFacts
      <3>5. i \in Mov
        <4>1. Len(To(i)) # Len(p)
          BY <2>7
        <4> QED BY <2>1, <4>1 DEF Mov
      <3>6. FinOf[d] = d
        <4> SUFFICES ASSUME FinOf[d] # d PROVE FALSE
          OBVIOUS
        <4>1. DOMAIN FinOf = DOMAIN Base
          BY FinFacts
        <4>2. d \in Moved(FinOf)
          BY <3>4, <4>1 DEF Moved
        <4>3. PICK j \in Mov : Source(j) = d
          BY <4>2, FinFacts
        <4> QED BY <2>2, <3>2, <3>5, <4>3 DEF NoneRenamed
      <3> QED BY <3>4, <3>6 DEF d
  <2> QED BY <2>2, <2>3, <2>4, <2>5, <2>6, <2>8
  <1>3. CASE ~\E i \in Rows : Source(i) = p
  <2>1. NameFor(p) = <<Last(p)>>
    BY <1>3 DEF NameFor
  <2>2. FinOf[p] = p
    BY <1>1, <1>3, FinFacts
  <2>3. 1..(Len(<<Last(p)>>) - 1) = {}
    BY <1>1, LastName
  <2> QED BY <1>1, <2>1, <2>2, <2>3, LastName
  <1> QED BY <1>2, <1>3

\* plan() and the executor: a run leaves every file of the volume, listed or
\* not, in the folder it was in, wherever that went, under the name asked for
\* and no other.
THEOREM FilesAreAsAsked ==
    Spec => []AsAsked
  <1>1. ASSUME PInv PROVE AsAsked
  <2> SUFFICES ASSUME Carried, NEW p \in DOMAIN job.tree
               PROVE  \E q \in DOMAIN Now :
                         /\ Now[q] = job.tree[p]
                         /\ IsSuffix(NameFor(p), q)
                         /\ FolderAbove(Now, q, Len(NameFor(p))) = FolderAbove(job.tree, p, 1)
    BY DEF AsAsked
  <2> DEFINE B == trees[A2 + 1]
  <2>1. job \in Jobs /\ Runnable /\ RunInv /\ Checked
    BY <1>1, OverFacts
  <2>2. Settled(Base, FinOf, B) /\ Wrote(B, Len(job.writes), Now)
    BY <2>1, RunOver
  <2>3. DOMAIN B \subseteq DOMAIN Now /\ \A q \in DOMAIN B : Now[q] = B[q]
    BY <2>2 DEF Wrote
  <2> HIDE DEF B
  <2>4. /\ NameFor(p) \in Seq(Names) /\ NameFor(p) # <<>>
        /\ FinOf[p] = Parent(p) \o NameFor(p)
        /\ \A k \in 1..(Len(NameFor(p)) - 1) :
              /\ SubSeq(FinOf[p], 1, Len(FinOf[p]) - k) \in DOMAIN Base
              /\ FinOf[SubSeq(FinOf[p], 1, Len(FinOf[p]) - k)] = SubSeq(FinOf[p], 1, Len(FinOf[p]) - k)
    BY <2>1, NameFacts
  <2>5. PICK q, c, s : q = Home(B, Base[p]) /\ c = FinOf[p] /\ s = NameFor(p)
    OBVIOUS
  <2>6. /\ s \in Seq(Names) /\ s # <<>> /\ c = Parent(p) \o s
        /\ \A k \in 1..(Len(s) - 1) : /\ SubSeq(c, 1, Len(c) - k) \in DOMAIN Base
                                      /\ FinOf[SubSeq(c, 1, Len(c) - k)] = SubSeq(c, 1, Len(c) - k)
    BY <2>4, <2>5
  <2>7. EndsIn(B, q, p, s)
      <3>1. Settled(Base, FinOf, B) /\ job \in Jobs /\ Checked
        BY <2>1, <2>2
      <3> QED BY <2>5, <2>6, <3>1, EndsAsAsked, Zenon
  <2>8. p \in Paths
    BY <2>1, JobFacts, TreeFacts
  <2>9. FolderAbove(Now, q, Len(s)) = FolderAbove(job.tree, p, 1)
      <3>0. Len(q) \in Nat /\ Len(s) \in Nat /\ Len(p) \in Nat
        <4>1. q \in Paths
          BY <2>2, <2>7, TreeFacts DEF Settled, EndsIn
        <4> QED BY <2>6, <2>8, <4>1, PathFacts, LenProperties
      <3>1. CASE Len(p) <= 1
        BY <2>7, <2>8, <3>1, FolderIs DEF FolderAbove, EndsIn
      <3>2. CASE Len(p) > 1
        <4>1. FolderAbove(job.tree, p, 1) = job.tree[Parent(p)]
          BY <2>8, <3>2, FolderIs
        <4>2. ~(Len(q) <= Len(s))
          BY <2>7, <3>0, <3>2 DEF EndsIn
        <4>3. Now[SubSeq(q, 1, Len(q) - Len(s))] = job.tree[Parent(p)]
          BY <2>3, <2>7, <3>2 DEF EndsIn
        <4> QED BY <4>1, <4>2, <4>3 DEF FolderAbove
      <3> QED BY <3>0, <3>1, <3>2
  <2>10. q \in DOMAIN Now /\ Now[q] = job.tree[p]
    BY <2>3, <2>7 DEF EndsIn
  <2>11. IsSuffix(s, q)
    BY <2>7 DEF EndsIn
  <2> QED BY <2>5, <2>9, <2>10, <2>11
  <1> QED BY <1>1, PlannerKeeps, PTL

-----------------------------------------------------------------------------
(* The search for temporary names.                                         *)

\* The names in the way beside p are finitely many.
LEMMA InTheWayFinite ==
    ASSUME job \in Jobs, NEW p \in Paths
    PROVE  IsFiniteSet(InTheWay(p))
  <1> DEFINE S == InTheWay(p)
             f == [q \in S |-> Last(q)]
  <1>1. \A q \in S : q \in Paths /\ Parent(q) = Parent(p) /\ Last(q) \in ToSet(Temps)
    BY JobFacts, TreeFacts DEF InTheWay
  <1>2. IsFiniteSet(ToSet(Temps))
  <2>1. Temps \in Seq(Names)
    BY ValuesAssumption
  <2>2. DOMAIN Temps = 1..Len(Temps) /\ Len(Temps) \in Nat
    BY <2>1, LenProperties
  <2>3. IsFiniteSet(DOMAIN Temps)
    BY <2>2, FS_Interval
  <2>4. IsFiniteSet({Temps[n] : n \in DOMAIN Temps})
    BY <2>3, FinitelyMany
  <2> QED BY <2>4 DEF ToSet
  <1> HIDE DEF S
  <1>3. \A q, r \in S : Last(q) = Last(r) => q = r
  <2> TAKE q, r \in S
  <2> HAVE Last(q) = Last(r)
  <2>1. q = Parent(q) \o <<Last(q)>> /\ r = Parent(r) \o <<Last(r)>>
    BY <1>1, LastName
  <2> QED BY <1>1, <2>1
  <1>4. f \in Injection(S, ToSet(Temps))
    BY <1>1, <1>3 DEF Injection, IsInjective
  <1> HIDE DEF f
  <1>5. IsFiniteSet(S)
    BY <1>2, <1>4, FS_Injection
  <1> QED BY <1>5 DEF S

\* Where none is free, all that were tried are names of the batch or in the
\* way; so at least as many are in the way as were to be allowed for.
LEMMA AllInTheWay ==
    ASSUME TypeInv, NEW v \in Rows, Free(Source(v)) = {}, Limit(Source(v)) <= Len(Temps)
    PROVE  Cardinality(InTheWay(Source(v))) >= TEMP_NAMES_ON_DISK
  <1> DEFINE p == Source(v)
             c == cursor[Parent(p)]
             w == Cardinality(Reserved) + TEMP_NAMES_ON_DISK
             S == c..(c + w - 1)
             T == Reserved \cup InTheWay(p)
             f == [k \in S |-> Temp(p, k)]
  <1>1. /\ job \in Jobs /\ p \in Paths /\ c \in Nat
        /\ IsFiniteSet(Reserved) /\ Cardinality(Reserved) \in Nat
        /\ TEMP_NAMES_ON_DISK \in Nat
    BY JobFacts, ReservedFinite, ValuesAssumption DEF TypeInv
  <1>2. Limit(p) = c + w /\ w \in Nat
    BY <1>1 DEF Limit
  <1>3. IsFiniteSet(InTheWay(p)) /\ Cardinality(InTheWay(p)) \in Nat
    BY <1>1, InTheWayFinite, FS_CardinalityType
  <1>4. /\ Temps \in Seq(Names) /\ Len(Temps) \in Nat /\ DOMAIN Temps = 1..Len(Temps)
        /\ \A m, n \in 1..Len(Temps) : Temps[m] = Temps[n] => m = n
  <2>1. Temps \in Seq(Names) /\ IsInjective(Temps)
    BY ValuesAssumption
  <2>2. DOMAIN Temps = 1..Len(Temps) /\ Len(Temps) \in Nat
    BY <2>1, LenProperties
  <2> QED BY <2>1, <2>2 DEF IsInjective
  <1>5. ASSUME NEW k \in S
        PROVE  /\ k \in Nat /\ k < Len(Temps) /\ k + 1 \in 1..Len(Temps)
               /\ Temp(p, k) \in Reserved \/ Temp(p, k) \in DOMAIN job.tree
  <2>1. k \in Nat /\ k < Len(Temps) /\ k + 1 \in 1..Len(Temps) /\ k \in c..(Limit(p) - 1)
    BY <1>1, <1>2, <1>4
  <2>2. k \notin Free(p)
    OBVIOUS
  <2> QED BY <2>1, <2>2 DEF Free, Exists
  <1>6. \A k \in S : Temp(p, k) \in T
  <2> TAKE k \in S
  <2>1. /\ k \in Nat /\ k < Len(Temps) /\ k + 1 \in 1..Len(Temps)
        /\ Temp(p, k) \in Reserved \/ Temp(p, k) \in DOMAIN job.tree
    BY <1>5
  <2> DEFINE q == Temp(p, k)
  <2>2. /\ q \in Paths /\ Len(q) = Len(p) /\ Parent(q) = Parent(p) /\ q[Len(p)] = Temps[k + 1]
    BY <1>1, <2>1, TempFacts
  <2> HIDE DEF q
  <2>3. Last(q) \in ToSet(Temps)
    BY <1>4, <2>1, <2>2 DEF Last, ToSet
  <2>4. q \in Reserved \/ q \in DOMAIN job.tree
    BY <2>1 DEF q
  <2>5. q \in T
    BY <2>2, <2>3, <2>4 DEF InTheWay
  <2> QED BY <2>5 DEF q
  <1>7. \A k, l \in S : Temp(p, k) = Temp(p, l) => k = l
  <2> TAKE k, l \in S
  <2> HAVE Temp(p, k) = Temp(p, l)
  <2>1. /\ k \in Nat /\ k < Len(Temps) /\ k + 1 \in 1..Len(Temps)
        /\ l \in Nat /\ l < Len(Temps) /\ l + 1 \in 1..Len(Temps)
    BY <1>5
  <2>2. Temp(p, k)[Len(p)] = Temps[k + 1] /\ Temp(p, l)[Len(p)] = Temps[l + 1]
    BY <1>1, <2>1, TempFacts
  <2>3. k + 1 = l + 1
    BY <1>4, <2>1, <2>2
  <2> QED BY <2>1, <2>3
  <1>8. IsFiniteSet(T) /\ Cardinality(T) <= Cardinality(Reserved) + Cardinality(InTheWay(p))
  <2> DEFINE U == Reserved
             V == InTheWay(p)
  <2>1. IsFiniteSet(U) /\ IsFiniteSet(V) /\ Cardinality(U) \in Nat /\ Cardinality(V) \in Nat
    BY <1>1, <1>3
  <2> HIDE DEF U, V
  <2>2. /\ IsFiniteSet(U \cup V)
        /\ Cardinality(U \cup V) = Cardinality(U) + Cardinality(V) - Cardinality(U \cap V)
    BY <2>1, FS_Union
  <2>3. Cardinality(U \cap V) \in Nat
      <3>1. (U \cap V) \in SUBSET U
        OBVIOUS
      <3>2. IsFiniteSet(U \cap V)
        BY <2>1, <3>1, FS_Subset
      <3> QED BY <3>2, FS_CardinalityType
  <2>4. Cardinality(U \cup V) <= Cardinality(U) + Cardinality(V)
    BY <2>1, <2>2, <2>3
  <2> QED BY <2>2, <2>4 DEF U, V
  <1>9. f \in Injection(S, T)
    BY <1>6, <1>7 DEF Injection, IsInjective
  <1>10. Cardinality(S) = w
  <2>1. c \in Int /\ c + w - 1 \in Int
    BY <1>1, <1>2
  <2> DEFINE d == c + w - 1
  <2>2. Cardinality(c..d) = IF c > d THEN 0 ELSE d - c + 1
    BY <2>1, FS_Interval
  <2> QED BY <1>1, <1>2, <2>2
  <1>11. Cardinality(S) <= Cardinality(T)
  <2> HIDE DEF f, S, T
  <2> QED BY <1>8, <1>9, FS_Injection
  <1>12. Cardinality(T) \in Nat
    BY <1>8, FS_CardinalityType
  <1> HIDE DEF S, T, f, p
  <1>13. Cardinality(InTheWay(p)) >= TEMP_NAMES_ON_DISK
    BY <1>1, <1>3, <1>8, <1>10, <1>11, <1>12
  <1> QED BY <1>13 DEF p

\* As long as the model has temporary names left to try; the code makes them
\* up without end.
NamesLast == pc = "order" => \A i \in Rows : Limit(Source(i)) <= Len(Temps)

\* order_renames, temp_path: no cycle is refused before as many temporary names
\* are taken on the disk as the bound allows for, whatever names the batch
\* itself has and gives.
THEOREM CyclesAreResolved ==
    Spec /\ []NamesLast => []CyclesResolve
  <1>1. Init => CyclesResolve
    BY DEF Init, CyclesResolve
  <1>2. ASSUME PInv, NamesLast, CyclesResolve, [Next]_vars
        PROVE  CyclesResolve'
  <2>1. job' = job
    BY <1>2 DEF Next, vars, DetectBlocked, DetectDuplicates, DetectExisting, DetectIntoRenamed,
       WantedDirectories, DetectNeeded, Refuse, Edges, Move, Stage, Stick, Finish, Place,
       ResolveTarget, AllResolved, PlanWrite, Conclude, Carry, Ended
  <2>2. \A p : InTheWay(p)' = InTheWay(p)
    BY <2>1 DEF InTheWay
  <2>3. \A i : Source(i)' = Source(i)
    BY <2>1 DEF Source
  <2>4. CASE Stick
      <3>1. /\ pc = "order" /\ TypeInv
            /\ \E v \in Movers : Free(Source(v)) = {} /\ stuck' = stuck \cup {v}
        BY <1>2, <2>4 DEF Stick, PInv, StateInv
      <3>2. PICK v \in Movers : Free(Source(v)) = {} /\ stuck' = stuck \cup {v}
        BY <3>1
      <3>3. v \in Rows /\ Limit(Source(v)) <= Len(Temps)
        BY <1>2, <3>1 DEF NamesLast, Movers
      <3>4. Cardinality(InTheWay(Source(v))) >= TEMP_NAMES_ON_DISK
        BY <3>1, <3>2, <3>3, AllInTheWay
      <3>5. ASSUME NEW i \in stuck'
            PROVE  Cardinality(InTheWay(Source(i))) >= TEMP_NAMES_ON_DISK
        BY <1>2, <3>2, <3>4, <3>5 DEF CyclesResolve
      <3> QED BY <2>2, <2>3, <3>5 DEF CyclesResolve
  <2>5. CASE ~Stick
      <3>1. stuck' = stuck
        BY <1>2, <2>5 DEF Next, vars, order, DetectBlocked, DetectDuplicates, DetectExisting,
           DetectIntoRenamed, WantedDirectories, DetectNeeded, Refuse, Edges, Move, Stage, Finish,
           Place, ResolveTarget, AllResolved, PlanWrite, Conclude, Carry, Ended
      <3> QED BY <1>2, <2>2, <2>3, <3>1 DEF CyclesResolve
  <2> QED BY <2>4, <2>5
  <1> QED BY <1>1, <1>2, PlannerKeeps, PTL DEF Spec

-----------------------------------------------------------------------------
(* Files that exchange their names.                                        *)

\* Where the names asked for are those the rows have, no two rows ask for one,
\* each is left by a row that goes elsewhere, and no folder is moved through.
LEMMA Exchange ==
    ASSUME job \in Jobs, Permutation
    PROVE  /\ \A i \in Rows : job.names[i] # <<>> /\ Len(job.names[i]) = 1 /\ Way(job, i) = {}
           /\ OneEach
           /\ \A i \in Mov : \E k \in Mov : Source(k) = To(i)
  <1> DEFINE T == {Source(i) : i \in Rows}
             f == [i \in Rows |-> To(i)]
             g == [i \in Rows |-> Source(i)]
  <1>1. IsFiniteSet(Rows) /\ \A i, j \in Rows : Source(i) = Source(j) => i = j
    BY JobFacts
  <1>2. {To(i) : i \in Rows} = T
    BY DEF Permutation, To
  <1>3. g \in Bijection(Rows, T)
    BY <1>1 DEF Bijection, Injection, Surjection, IsInjective
  <1>4. f \in Surjection(Rows, T)
    BY <1>2 DEF Surjection
  <1>5. \A i \in Rows : f[i] = To(i)
    OBVIOUS
  <1>6. \A i \in Rows : \E k \in Rows : Source(k) = To(i)
    BY <1>2
  <1> HIDE DEF f, g, T
  <1>7. Cardinality(Rows) = Cardinality(T)
    BY <1>1, <1>3, FS_Bijection DEF ExistsBijection
  <1>8. f \in Injection(Rows, T)
    BY <1>1, <1>4, <1>7, FS_SurjSameCardinalityImpliesInj
  <1>9. OneEach
    BY <1>5, <1>8 DEF OneEach, Injection, IsInjective
  <1>10. ASSUME NEW i \in Mov
         PROVE  \E k \in Mov : Source(k) = To(i)
  <2>1. i \in Rows /\ To(i) # Source(i)
    BY DEF Mov
  <2>2. PICK k \in Rows : Source(k) = To(i)
    BY <1>6, <2>1
  <2>3. k # i
    BY <2>1, <2>2
  <2>4. To(k) # To(i)
    BY <1>9, <2>1, <2>3 DEF OneEach
  <2>5. k \in Mov
    BY <2>2, <2>4 DEF Mov
  <2> QED BY <2>2, <2>5
  <1>11. ASSUME NEW i \in Rows
         PROVE  job.names[i] # <<>> /\ Len(job.names[i]) = 1 /\ Way(job, i) = {}
  <2>1. job.names[i] # <<>> /\ Len(job.names[i]) = 1
    BY DEF Permutation
  <2>2. Len(To(i)) = Len(Source(i)) - 1 + Len(job.names[i]) /\ Len(Source(i)) \in Nat
    BY <2>1, ToFacts, JobFacts, PathFacts
  <2>3. Len(To(i)) = Len(Source(i))
    BY <2>1, <2>2
  <2>4. Way(job, i) = {SubSeq(To(i), 1, n) : n \in Len(Source(i))..(Len(To(i)) - 1)}
    BY DEF Way, To, Source
  <2>5. Len(Source(i))..(Len(To(i)) - 1) = {}
    BY <2>2, <2>3
  <2> QED BY <2>1, <2>4, <2>5
  <1> QED BY <1>9, <1>10, <1>11

\* No row of an exchange is in conflict but for want of a temporary name.
ExchangeInv ==
    /\ Permutation => /\ \A i \in Rows : i \in Standing \/ i \in stuck
                      /\ pc \in Checking => stuck = {}
    /\ pc = "refused" => ~Executable

\* What the checks are to find of an exchange: nothing.
LEMMA ExchangeFacts ==
    ASSUME PInv, ExchangeInv, Permutation, pc \in Checking
    PROVE  /\ Movers = Mov /\ Mov \subseteq Rows
           /\ \A i \in Rows : i \in Standing /\ target[i] = To(i)
           /\ \A i \in Rows : Final(i) = To(i)
           /\ \A i \in Rows : job.names[i] # <<>> /\ Len(job.names[i]) = 1 /\ Way(job, i) = {}
           /\ OneEach
           /\ \A i \in Mov : \E k \in Mov : Source(k) = To(i)
           /\ \A p : ~Contains(wanted, p)
  <1>1. TypeInv /\ StatesInv /\ PassInv /\ job \in Jobs
    BY DEF PInv, StateInv, TypeInv
  <1>2. /\ \A i \in Rows : job.names[i] # <<>> /\ Len(job.names[i]) = 1 /\ Way(job, i) = {}
        /\ OneEach
        /\ \A i \in Mov : \E k \in Mov : Source(k) = To(i)
    BY <1>1, Exchange
  <1>3. Clean
  <2>1. stuck = {} /\ \A i \in Rows : i \in Standing
    BY DEF ExchangeInv
  <2>2. Standing \subseteq Rows
    BY DEF Standing
  <2> QED BY <2>1, <2>2 DEF Clean
  <1>4. CheckInv
    BY <1>3 DEF PInv, Checking
  <1>5. /\ Movers = Mov /\ Mov \subseteq Rows
        /\ \A i \in Rows : i \in Standing
        /\ \A i \in Rows : i \notin Mov => To(i) = Source(i)
    BY <1>1, <1>3, CleanFacts
  <1>6. DOMAIN lands = {}
    BY <1>1 DEF PassInv, Checking, Planning
  <1>7. \A i \in Rows : target[i] = To(i)
    BY <1>4, <1>6 DEF CheckInv, TargetInv
  <1>8. \A i \in Rows : Final(i) = To(i)
    BY <1>5, <1>7 DEF Final
  <1>9. \A n \in DOMAIN wanted : FALSE
    BY <1>2, <1>4, <1>5 DEF CheckInv, WantedInv
  <1>10. \A p : ~Contains(wanted, p)
    BY <1>9 DEF Contains
  <1> QED BY <1>2, <1>5, <1>7, <1>8, <1>10

\* A check that finds nothing leaves every row as it was.
LEMMA NothingFound ==
    ASSUME NEW S, NEW why, Refuse(S, why), S = {}
    PROVE  /\ UNCHANGED <<job, stuck>>
           /\ \A i \in Rows : state'[i] = state[i]
  BY DEF Refuse, order

\* One is not more than one.
LEMMA NoMoreThanOne ==
    ASSUME NEW n, n = 1
    PROVE  ~(n > 1)
  OBVIOUS

\* Each check finds nothing.
LEMMA ChecksFindNothing ==
    ASSUME PInv, ExchangeInv, Permutation,
           \/ DetectBlocked \/ DetectDuplicates \/ DetectExisting \/ DetectIntoRenamed
           \/ DetectNeeded
    PROVE  UNCHANGED <<job, stuck>> /\ \A i \in Rows : state'[i] = state[i]
  <1>1. pc \in Checking
    BY DEF DetectBlocked, DetectDuplicates, DetectExisting, DetectIntoRenamed, DetectNeeded, Checking
  <1>2. /\ Movers = Mov /\ Mov \subseteq Rows
        /\ \A i \in Rows : i \in Standing /\ target[i] = To(i)
        /\ \A i \in Rows : Final(i) = To(i)
        /\ \A i \in Rows : job.names[i] # <<>> /\ Len(job.names[i]) = 1 /\ Way(job, i) = {}
        /\ OneEach
        /\ \A i \in Mov : \E k \in Mov : Source(k) = To(i)
        /\ \A p : ~Contains(wanted, p)
    BY <1>1, ExchangeFacts
  <1>3. CASE DetectBlocked
  <2> DEFINE blocked == {i \in Movers : \E p \in Way(job, i) : Exists(job.tree, p) /\ job.tree[p] \notin Dirs}
             itself == {i \in Movers \ blocked :
                          Len(job.names[i]) > 1 /\ Head(job.names[i]) = Last(Source(i))}
  <2>1. /\ state' = [i \in Rows |-> IF i \in blocked THEN "BlockedByFile"
                                    ELSE IF i \in itself THEN "IntoItself" ELSE state[i]]
        /\ UNCHANGED <<job, stuck>>
    BY <1>3 DEF DetectBlocked, order
  <2>2. blocked = {}
    BY <1>2
  <2>3. itself = {}
      <3>1. \A i \in Movers : Len(job.names[i]) = 1
        BY <1>2, Zenon
      <3>2. \A i \in Movers : ~(Len(job.names[i]) > 1)
        BY <3>1, NoMoreThanOne, Zenon
      <3> QED BY <3>2
  <2> HIDE DEF blocked, itself
  <2> QED BY <2>1, <2>2, <2>3
  <1>4. CASE DetectDuplicates
  <2> DEFINE S == {i \in Movers : \E j \in Standing \ {i} : Final(j) = Final(i)}
  <2>1. Refuse(S, "DuplicateTarget")
    BY <1>4 DEF DetectDuplicates
  <2>2. Standing \subseteq Rows
    BY DEF Standing
  <2>3. S = {}
    BY <1>2, <2>2 DEF OneEach
  <2> QED BY <2>1, <2>3, NothingFound
  <1>5. CASE DetectExisting
  <2> DEFINE S == {i \in Movers : Exists(job.tree, target[i]) /\ target[i] \notin Freed}
  <2>1. Refuse(S, "TargetExists")
    BY <1>5 DEF DetectExisting
  <2>2. \A i \in Mov : target[i] \in Freed
    BY <1>2 DEF Freed
  <2>3. S = {}
    BY <1>2, <2>2
  <2> QED BY <2>1, <2>3, NothingFound
  <1>6. CASE DetectIntoRenamed
  <2> DEFINE S == {i \in Movers : \E j \in Movers : Source(j) \in Way(job, i)}
  <2>1. Refuse(S, "IntoRenamedFolder")
    BY <1>6 DEF DetectIntoRenamed
  <2>2. S = {}
    BY <1>2
  <2> QED BY <2>1, <2>2, NothingFound
  <1>7. CASE DetectNeeded
  <2> DEFINE S == {i \in Movers : Contains(wanted, target[i])}
  <2>1. Refuse(S, "NeededAsFolder")
    BY <1>7 DEF DetectNeeded
  <2>2. S = {}
    BY <1>2
  <2> QED BY <2>1, <2>2, NothingFound
  <1> QED BY <1>3, <1>4, <1>5, <1>6, <1>7

\* Every step keeps that.
LEMMA ExchangeNext ==
    ASSUME PInv, ExchangeInv, [Next]_vars
    PROVE  ExchangeInv'
  <1>1. job' = job
    BY DEF Next, vars, DetectBlocked, DetectDuplicates, DetectExisting, DetectIntoRenamed,
       WantedDirectories, DetectNeeded, Refuse, Edges, Move, Stage, Stick, Finish, Place,
       ResolveTarget, AllResolved, PlanWrite, Conclude, Carry, Ended
  <1>2. Rows' = Rows /\ (Permutation' <=> Permutation)
    BY <1>1 DEF Rows, Permutation, Source, Aimed
  <1>3. pc \in Checking \cup {"order", "refused"} \cup Planning /\ stuck \subseteq Rows
    BY DEF PInv, StateInv, TypeInv
  <1> DEFINE Detects == \/ DetectBlocked \/ DetectDuplicates \/ DetectExisting \/ DetectIntoRenamed
                        \/ DetectNeeded
             Others == \/ WantedDirectories \/ Edges \/ Move \/ Stage \/ Place \/ ResolveTarget
                       \/ AllResolved \/ PlanWrite \/ Carry
  <1>4. CASE Detects
  <2>1. pc \in Checking /\ pc' # "refused"
    BY <1>4 DEF DetectBlocked, DetectDuplicates, DetectExisting, DetectIntoRenamed, DetectNeeded, Checking
  <2>2. ASSUME Permutation
        PROVE  /\ \A i \in Rows : (i \in Standing \/ i \in stuck)'
               /\ stuck' = {}
      <3>1. stuck' = stuck /\ \A i \in Rows : state'[i] = state[i]
        BY <1>4, <2>2, ChecksFindNothing
      <3>2. stuck = {} /\ \A i \in Rows : i \in Standing
        BY <2>1, <2>2 DEF ExchangeInv
      <3> QED BY <1>2, <3>1, <3>2 DEF Standing
  <2> QED BY <1>2, <2>1, <2>2 DEF ExchangeInv
  <1>5. CASE Others
  <2>1. state' = state /\ stuck' = stuck /\ pc' # "refused"
    BY <1>5 DEF WantedDirectories, Edges, Move, Stage, Place, ResolveTarget, AllResolved, PlanWrite,
       Carry, listing, order
  <2>2. pc' \in Checking => pc \in Checking
    BY <1>5 DEF WantedDirectories, Edges, Move, Stage, Place, ResolveTarget, AllResolved, PlanWrite,
       Carry, Checking
  <2>3. Standing' = Standing
    BY <1>2, <2>1 DEF Standing
  <2> QED BY <1>2, <2>1, <2>2, <2>3 DEF ExchangeInv
  <1>6. CASE Stick
  <2>1. /\ pc = "order" /\ pc' = pc /\ state' = state
        /\ \E v : stuck' = stuck \cup {v}
    BY <1>6 DEF Stick, listing
  <2>2. Standing' = Standing
    BY <1>2, <2>1 DEF Standing
  <2> QED BY <1>2, <2>1, <2>2 DEF ExchangeInv, Checking
  <1>7. CASE Finish
  <2>1. /\ pc' = "place" /\ stuck' = stuck
        /\ state' = [i \in Rows |-> IF i \in stuck THEN "UnresolvedCycle" ELSE state[i]]
    BY <1>7 DEF Finish
  <2> QED BY <1>2, <2>1 DEF ExchangeInv, Standing, Checking
  <1>8. CASE Conclude
  <2>1. /\ UNCHANGED <<state, stuck, landed>> /\ pc' = IF Executable THEN "run" ELSE "refused"
    BY <1>8 DEF Conclude, listing, order
  <2>2. Standing' = Standing /\ (Executable' <=> Executable)
    BY <1>2, <2>1 DEF Standing, Executable
  <2> QED BY <1>2, <2>1, <2>2 DEF ExchangeInv, Checking
  <1>9. CASE UNCHANGED vars
  <2>1. UNCHANGED <<pc, state, stuck, landed>>
    BY <1>9 DEF vars, listing, order, plan
  <2>2. Standing' = Standing /\ (Executable' <=> Executable)
    BY <1>2, <2>1 DEF Standing, Executable
  <2> QED BY <1>2, <2>1, <2>2 DEF ExchangeInv
  <1> QED BY <1>4, <1>5, <1>6, <1>7, <1>8, <1>9 DEF Next, Ended

\* plan: rows that only exchange their names are never refused, however long
\* the cycles and whatever lies in the folders among them, unless no temporary
\* name was free or a script's write was refused.
THEOREM ExchangesRun ==
    Spec => []PermutationsRun
  <1>1. Init => ExchangeInv
  <2> SUFFICES ASSUME Init PROVE ExchangeInv
    OBVIOUS
  <2>1. pc = "blocked" /\ stuck = {} /\ \A i \in Rows : state[i] = Item(job, i).state
    BY DEF Init
  <2>2. ASSUME Permutation, NEW i \in Rows
        PROVE  i \in Standing
      <3>1. job.names[i] # <<>>
        BY <2>2 DEF Permutation
      <3>2. Item(job, i).state \in {"changed", "unchanged"}
        BY <3>1 DEF Item
      <3> QED BY <2>1, <3>2 DEF Standing
  <2> QED BY <2>1, <2>2 DEF ExchangeInv
  <1>2. PInv /\ ExchangeInv /\ [Next]_vars => ExchangeInv'
    BY ExchangeNext
  <1>3. ExchangeInv => PermutationsRun
  <2> SUFFICES ASSUME ExchangeInv, pc = "refused", Permutation, stuck = {} PROVE Contains(landed, <<>>)
    BY DEF PermutationsRun
  <2>1. \A i \in Rows : i \in Standing
    BY DEF ExchangeInv
  <2>2. Standing = Rows
    BY <2>1 DEF Standing
  <2> QED BY <2>2 DEF ExchangeInv, Executable
  <1> QED BY <1>1, <1>2, <1>3, PlannerKeeps, PTL DEF Spec
=============================================================================
