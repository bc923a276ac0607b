--------------------------- MODULE FileTreeProofs ---------------------------
(* What the operators of FileTree preserve, for every tree.                 *)
EXTENDS FileTree, SequenceTheorems, TLAPS

\* The parts of a path are paths, made of its first names.
LEMMA PrefixFacts ==
    ASSUME NEW p \in Paths, NEW n \in 1..Len(p)
    PROVE  /\ Len(p) \in Nat \ {0}
           /\ SubSeq(p, 1, n) \in Paths
           /\ Len(SubSeq(p, 1, n)) = n
           /\ \A i \in 1..n : SubSeq(p, 1, n)[i] = p[i]
  BY SubSeqProperties, EmptySeq, LenProperties DEF Paths

\* At or under, name by name.
LEMMA UnderFacts ==
    ASSUME NEW p \in Paths, NEW q \in Paths
    PROVE  AtOrUnder(p, q) <=> Len(p) <= Len(q) /\ \A i \in 1..Len(p) : q[i] = p[i]
  <1>1. Len(p) \in Nat \ {0} /\ Len(q) \in Nat \ {0}
    BY EmptySeq, LenProperties DEF Paths
  <1>2. CASE ~(Len(p) <= Len(q))
    BY <1>2 DEF AtOrUnder
  <1>3. CASE Len(p) <= Len(q)
  <2> DEFINE s == SubSeq(q, 1, Len(p))
  <2>1. s \in Paths /\ Len(s) = Len(p) /\ \A i \in 1..Len(p) : s[i] = q[i]
    BY <1>1, <1>3, PrefixFacts
  <2>2. s = p <=> \A i \in 1..Len(p) : s[i] = p[i]
    BY <2>1, SeqEqual DEF Paths
  <2> QED BY <2>1, <2>2, <1>3 DEF AtOrUnder
  <1> QED BY <1>2, <1>3

\* What lies in a folder of a folder lies in that folder.
LEMMA UnderTransitive ==
    ASSUME NEW p \in Paths, NEW q \in Paths, NEW r \in Paths,
           AtOrUnder(p, q), AtOrUnder(q, r)
    PROVE  AtOrUnder(p, r)
  <1>1. Len(p) \in Nat \ {0} /\ Len(q) \in Nat \ {0} /\ Len(r) \in Nat \ {0}
    BY EmptySeq, LenProperties DEF Paths
  <1> QED BY <1>1, UnderFacts

\* A path is at itself.
LEMMA UnderReflexive ==
    ASSUME NEW p \in Paths
    PROVE  AtOrUnder(p, p)
  BY UnderFacts, LenProperties DEF Paths

\* The folders on the way to q that are at or under f.
LEMMA PrefixUnder ==
    ASSUME NEW q \in Paths, NEW f \in Paths, NEW n \in 1..Len(q)
    PROVE  /\ AtOrUnder(SubSeq(q, 1, n), q)
           /\ AtOrUnder(f, SubSeq(q, 1, n)) => AtOrUnder(f, q) /\ Len(f) <= n
           /\ AtOrUnder(f, q) /\ Len(f) <= n => AtOrUnder(f, SubSeq(q, 1, n))
  <1>1. Len(f) \in Nat \ {0} /\ Len(q) \in Nat \ {0}
    BY EmptySeq, LenProperties DEF Paths
  <1>2. /\ SubSeq(q, 1, n) \in Paths
        /\ Len(SubSeq(q, 1, n)) = n
        /\ \A i \in 1..n : SubSeq(q, 1, n)[i] = q[i]
    BY PrefixFacts
  <1>3. AtOrUnder(SubSeq(q, 1, n), q)
  <2> DEFINE s == SubSeq(q, 1, n)
  <2>1. s \in Paths /\ Len(s) = n /\ n <= Len(q) /\ \A i \in 1..n : q[i] = s[i]
    BY <1>1, <1>2
  <2> HIDE DEF s
  <2>2. AtOrUnder(s, q)
    BY <2>1, UnderFacts
  <2> QED BY <2>2 DEF s
  <1>4. AtOrUnder(f, SubSeq(q, 1, n)) <=> Len(f) <= n /\ \A i \in 1..Len(f) : q[i] = f[i]
  <2>1. AtOrUnder(f, SubSeq(q, 1, n))
          <=> Len(f) <= n /\ \A i \in 1..Len(f) : SubSeq(q, 1, n)[i] = f[i]
    BY <1>2, UnderFacts
  <2>2. ASSUME Len(f) <= n, NEW i \in 1..Len(f) PROVE SubSeq(q, 1, n)[i] = q[i]
    BY <1>1, <1>2, <2>2
  <2> QED BY <2>1, <2>2
  <1>5. AtOrUnder(f, q) <=> Len(f) <= Len(q) /\ \A i \in 1..Len(f) : q[i] = f[i]
    BY UnderFacts
  <1> QED BY <1>1, <1>3, <1>4, <1>5

\* What a path is called after its folder f is called g, name by name, and
\* that calling it f again gives the path back.
LEMMA RebaseFacts ==
    ASSUME NEW q \in Paths, NEW f \in Paths, NEW g \in Paths, AtOrUnder(f, q)
    PROVE  /\ Rebase(q, f, g) \in Paths
           /\ Len(Rebase(q, f, g)) = Len(g) + Len(q) - Len(f)
           /\ \A i \in 1..Len(g) : Rebase(q, f, g)[i] = g[i]
           /\ \A i \in (Len(f) + 1)..Len(q) : Rebase(q, f, g)[i - Len(f) + Len(g)] = q[i]
           /\ AtOrUnder(g, Rebase(q, f, g))
  <1>1. /\ Len(f) \in Nat \ {0} /\ Len(q) \in Nat \ {0} /\ Len(g) \in Nat \ {0}
        /\ Len(f) <= Len(q)
    BY EmptySeq, LenProperties DEF Paths, AtOrUnder
  <1> DEFINE tail == SubSeq(q, Len(f) + 1, Len(q))
             r == Rebase(q, f, g)
  <1>2. \A i \in (Len(f) + 1)..Len(q) : q[i] \in Names
    BY <1>1, ElementOfSeq DEF Paths
  <1>3. /\ tail \in Seq(Names)
        /\ Len(tail) = Len(q) - Len(f)
        /\ \A i \in 1..(Len(q) - Len(f)) : tail[i] = q[Len(f) + i]
  <2>1. /\ tail \in Seq(Names)
        /\ Len(tail) = IF Len(f) + 1 <= Len(q) THEN Len(q) - (Len(f) + 1) + 1 ELSE 0
        /\ \A i \in 1..(Len(q) - (Len(f) + 1) + 1) : tail[i] = q[Len(f) + 1 + i - 1]
    BY <1>1, <1>2, SubSeqProperties
  <2> QED BY <1>1, <2>1
  <1>4. /\ r \in Seq(Names)
        /\ Len(r) = Len(g) + Len(tail)
        /\ \A i \in 1..(Len(g) + Len(tail)) :
              r[i] = IF i <= Len(g) THEN g[i] ELSE tail[i - Len(g)]
    BY <1>3, ConcatProperties DEF Rebase, Paths
  <1>5. r \in Paths
    BY <1>1, <1>3, <1>4, EmptySeq DEF Paths
  <1>6. Len(r) = Len(g) + Len(q) - Len(f)
    BY <1>1, <1>3, <1>4
  <1>7. \A i \in 1..Len(g) : r[i] = g[i]
    BY <1>1, <1>3, <1>4
  <1>8. \A i \in (Len(f) + 1)..Len(q) : r[i - Len(f) + Len(g)] = q[i]
  <2> TAKE i \in (Len(f) + 1)..Len(q)
  <2>1. /\ i - Len(f) + Len(g) \in 1..(Len(g) + Len(tail))
        /\ ~(i - Len(f) + Len(g) <= Len(g))
        /\ i - Len(f) + Len(g) - Len(g) = i - Len(f)
        /\ i - Len(f) \in 1..(Len(q) - Len(f))
        /\ Len(f) + (i - Len(f)) = i
    BY <1>1, <1>3
  <2>2. tail[i - Len(f)] = q[i]
    BY <2>1, <1>3
  <2> HIDE DEF r, tail
  <2>3. r[i - Len(f) + Len(g)] = tail[i - Len(f) + Len(g) - Len(g)]
    BY <2>1, <1>4
  <2> QED BY <2>1, <2>2, <2>3
  <1>9. AtOrUnder(g, r)
    BY <1>1, <1>5, <1>6, <1>7, UnderFacts
  <1> QED BY <1>5, <1>6, <1>7, <1>8, <1>9

\* Called back, a path is what it was.
LEMMA RebaseBack ==
    ASSUME NEW q \in Paths, NEW f \in Paths, NEW g \in Paths, AtOrUnder(f, q)
    PROVE  Rebase(Rebase(q, f, g), g, f) = q
  <1> DEFINE r == Rebase(q, f, g)
             b == Rebase(r, g, f)
  <1>1. /\ Len(f) \in Nat \ {0} /\ Len(q) \in Nat \ {0} /\ Len(g) \in Nat \ {0}
        /\ Len(f) <= Len(q)
        /\ \A i \in 1..Len(f) : q[i] = f[i]
    BY EmptySeq, LenProperties, UnderFacts DEF Paths
  <1>2. /\ r \in Paths /\ AtOrUnder(g, r)
        /\ Len(r) = Len(g) + Len(q) - Len(f)
        /\ \A i \in (Len(f) + 1)..Len(q) : r[i - Len(f) + Len(g)] = q[i]
    BY RebaseFacts
  <1>3. /\ b \in Paths
        /\ Len(b) = Len(f) + Len(r) - Len(g)
        /\ \A i \in 1..Len(f) : b[i] = f[i]
        /\ \A i \in (Len(g) + 1)..Len(r) : b[i - Len(g) + Len(f)] = r[i]
    BY <1>2, RebaseFacts, ZenonT(30)
  <1>4. Len(b) = Len(q)
    BY <1>1, <1>2, <1>3
  <1>5. ASSUME NEW i \in (Len(f) + 1)..Len(q) PROVE b[i] = q[i]
  <2>1. /\ i - Len(f) + Len(g) \in (Len(g) + 1)..Len(r)
        /\ (i - Len(f) + Len(g)) - Len(g) + Len(f) = i
    BY <1>1, <1>2
  <2>2. b[(i - Len(f) + Len(g)) - Len(g) + Len(f)] = r[i - Len(f) + Len(g)]
    BY <2>1, <1>3
  <2> QED BY <2>1, <2>2, <1>2
  <1>6. \A i \in 1..Len(b) : b[i] = q[i]
    BY <1>1, <1>3, <1>4, <1>5
  <1> HIDE DEF b
  <1>7. b = q
    BY <1>3, <1>4, <1>6, SeqEqual DEF Paths
  <1> QED BY <1>7 DEF b

\* A folder on the way to a renamed path is on the way to g, or is renamed.
LEMMA RebasePrefix ==
    ASSUME NEW q \in Paths, NEW f \in Paths, NEW g \in Paths, AtOrUnder(f, q),
           NEW n \in 1..Len(Rebase(q, f, g))
    PROVE  /\ n <= Len(g) => SubSeq(Rebase(q, f, g), 1, n) = SubSeq(g, 1, n)
           /\ n > Len(g) =>
                 /\ n - Len(g) + Len(f) \in 1..Len(q)
                 /\ SubSeq(Rebase(q, f, g), 1, n)
                       = Rebase(SubSeq(q, 1, n - Len(g) + Len(f)), f, g)
  <1> DEFINE r == Rebase(q, f, g)
             s == SubSeq(r, 1, n)
             m == n - Len(g) + Len(f)
  <1>1. /\ Len(f) \in Nat \ {0} /\ Len(q) \in Nat \ {0} /\ Len(g) \in Nat \ {0}
        /\ Len(f) <= Len(q)
    BY EmptySeq, LenProperties DEF Paths, AtOrUnder
  <1>2. /\ r \in Paths
        /\ Len(r) = Len(g) + Len(q) - Len(f)
        /\ \A i \in 1..Len(g) : r[i] = g[i]
        /\ \A i \in (Len(f) + 1)..Len(q) : r[i - Len(f) + Len(g)] = q[i]
        /\ n \in 1..Len(r)
    BY RebaseFacts
  <1> HIDE DEF r
  <1>3. s \in Paths /\ Len(s) = n /\ \A i \in 1..n : s[i] = r[i]
    BY <1>2, PrefixFacts DEF r
  <1>4. CASE n <= Len(g)
  <2> DEFINE h == SubSeq(g, 1, n)
  <2>1. h \in Paths /\ Len(h) = n /\ \A i \in 1..n : h[i] = g[i]
    BY <1>1, <1>3, <1>4, PrefixFacts
  <2>2. \A i \in 1..n : s[i] = h[i]
    BY <1>1, <1>2, <1>3, <1>4, <2>1
  <2> HIDE DEF s, h
  <2>3. s = h
    BY <1>3, <2>1, <2>2, SeqEqual DEF Paths
  <2> QED BY <2>3, <1>4, <1>1 DEF s, h, r
  <1>5. CASE n > Len(g)
  <2> DEFINE u == SubSeq(q, 1, m)
             v == Rebase(u, f, g)
  <2>1. m \in 1..Len(q) /\ Len(f) < m
    BY <1>1, <1>2, <1>5
  <2>2. u \in Paths /\ Len(u) = m /\ \A i \in 1..m : u[i] = q[i]
    BY <2>1, PrefixFacts
  <2>3. AtOrUnder(f, u)
    BY <1>1, <2>1, PrefixUnder
  <2> HIDE DEF u
  <2>4. /\ v \in Paths
        /\ Len(v) = Len(g) + Len(u) - Len(f)
        /\ \A i \in 1..Len(g) : v[i] = g[i]
        /\ \A i \in (Len(f) + 1)..Len(u) : v[i - Len(f) + Len(g)] = u[i]
    BY <2>2, <2>3, RebaseFacts, ZenonT(30)
  <2>5. Len(v) = n
    BY <1>1, <2>1, <2>2, <2>4
  <2>6. ASSUME NEW i \in (Len(g) + 1)..n PROVE v[i] = r[i]
      <3>1. /\ i - Len(g) + Len(f) \in (Len(f) + 1)..Len(u)
            /\ i - Len(g) + Len(f) \in (Len(f) + 1)..Len(q)
            /\ i - Len(g) + Len(f) \in 1..m
            /\ (i - Len(g) + Len(f)) - Len(f) + Len(g) = i
        BY <1>1, <1>2, <2>1, <2>2
      <3>2. v[(i - Len(g) + Len(f)) - Len(f) + Len(g)] = u[i - Len(g) + Len(f)]
        BY <3>1, <2>4
      <3>3. r[(i - Len(g) + Len(f)) - Len(f) + Len(g)] = q[i - Len(g) + Len(f)]
        BY <3>1, <1>2
      <3> QED BY <3>1, <3>2, <3>3, <2>2
  <2>7. \A i \in 1..n : s[i] = v[i]
      <3> HIDE DEF s, v
      <3> TAKE i \in 1..n
      <3>1. CASE i <= Len(g)
        BY <3>1, <1>1, <1>2, <1>3, <2>4, SMTT(30)
      <3>2. CASE i > Len(g)
        BY <3>2, <1>1, <1>2, <1>3, <2>6
      <3> QED BY <3>1, <3>2, <1>1, <1>2
  <2> HIDE DEF s, v
  <2>8. s = v
    BY <1>3, <2>4, <2>5, <2>7, SeqEqual DEF Paths
  <2> QED BY <2>8, <2>1, <1>5, <1>1 DEF s, v, u, r
  <1>6. n \in Nat
    BY <1>1, <1>2 DEF r
  <1> QED BY <1>1, <1>4, <1>5, <1>6

\* Nothing lies under a name that is free.
LEMMA FreeIsEmpty ==
    ASSUME NEW t, IsTree(t), NEW g \in Paths, ~Exists(t, g), NEW p \in DOMAIN t
    PROVE  ~AtOrUnder(g, p)
  <1> SUFFICES ASSUME AtOrUnder(g, p) PROVE FALSE
    OBVIOUS
  <1>1. p \in Paths
    BY DEF IsTree
  <1>2. Len(g) \in 1..Len(p) /\ SubSeq(p, 1, Len(g)) = g /\ Len(p) \in Nat
    BY <1>1, EmptySeq, LenProperties DEF Paths, AtOrUnder
  <1>3. CASE Len(g) = Len(p)
  <2>1. \A i \in 1..Len(p) : p[i] = g[i]
    BY <1>1, <1>3, UnderFacts
  <2>2. p = g
    BY <1>1, <1>3, <2>1, SeqEqual DEF Paths
  <2> QED BY <2>2 DEF Exists
  <1>4. CASE Len(g) # Len(p)
  <2>1. Len(g) \in 1..(Len(p) - 1)
    BY <1>2, <1>4
  <2> QED BY <1>2, <2>1 DEF IsTree, Exists
  <1> QED BY <1>3, <1>4

\* Where everything is after a rename that could be made.
LEMMA RenamedFacts ==
    ASSUME NEW t, IsTree(t), NEW f \in Paths, NEW g \in Paths, CanRename(t, f, g)
    PROVE  LET u == Renamed(t, f, g) IN
           /\ DOMAIN u \subseteq Paths
           /\ \A p \in DOMAIN u : u[p] \in Files
           /\ \A p \in DOMAIN t : ~AtOrUnder(f, p) => p \in DOMAIN u /\ u[p] = t[p]
           /\ \A p \in DOMAIN t : AtOrUnder(f, p) =>
                 Rebase(p, f, g) \in DOMAIN u /\ u[Rebase(p, f, g)] = t[p]
           /\ \A p \in DOMAIN u : AtOrUnder(g, p) =>
                 \E q \in DOMAIN t : AtOrUnder(f, q) /\ p = Rebase(q, f, g)
           /\ \A p \in DOMAIN u : ~AtOrUnder(g, p) => p \in DOMAIN t /\ ~AtOrUnder(f, p)
  <1> DEFINE stays == {p \in DOMAIN t : ~AtOrUnder(f, p)}
             moved == {Rebase(p, f, g) : p \in DOMAIN t \ stays}
             u == Renamed(t, f, g)
  <1>1. DOMAIN t \subseteq Paths /\ \A p \in DOMAIN t : t[p] \in Files
    BY DEF IsTree
  <1>2. /\ DOMAIN u = stays \cup moved
        /\ \A p \in stays \cup moved : u[p] = IF p \in stays THEN t[p] ELSE t[Rebase(p, g, f)]
    BY DEF Renamed
  <1>3. \A p \in DOMAIN t : ~AtOrUnder(g, p)
    BY FreeIsEmpty DEF CanRename
  <1>4. ASSUME NEW p \in DOMAIN t, AtOrUnder(f, p)
        PROVE  /\ Rebase(p, f, g) \in Paths
               /\ Rebase(p, f, g) \in moved
               /\ Rebase(p, f, g) \notin stays
               /\ u[Rebase(p, f, g)] = t[p]
               /\ AtOrUnder(g, Rebase(p, f, g))
  <2>1. Rebase(p, f, g) \in Paths /\ AtOrUnder(g, Rebase(p, f, g))
    BY <1>1, <1>4, RebaseFacts
  <2>2. Rebase(Rebase(p, f, g), g, f) = p
    BY <1>1, <1>4, RebaseBack
  <2>3. Rebase(p, f, g) \in moved
    BY <1>4
  <2>4. Rebase(p, f, g) \notin stays
    BY <2>1, <1>3
  <2> QED BY <2>1, <2>2, <2>3, <2>4, <1>2
  <1>5. ASSUME NEW p \in moved PROVE \E q \in DOMAIN t : AtOrUnder(f, q) /\ p = Rebase(q, f, g)
    OBVIOUS
  <1> HIDE DEF u
  <1>6. DOMAIN u \subseteq Paths /\ \A p \in DOMAIN u : u[p] \in Files
  <2> SUFFICES ASSUME NEW p \in DOMAIN u PROVE p \in Paths /\ u[p] \in Files
    OBVIOUS
  <2>1. CASE p \in stays
    BY <2>1, <1>1, <1>2
  <2>2. CASE p \in moved
      <3>1. PICK q \in DOMAIN t : AtOrUnder(f, q) /\ p = Rebase(q, f, g)
        BY <2>2, <1>5
      <3> QED BY <3>1, <1>1, <1>4
  <2> QED BY <2>1, <2>2, <1>2
  <1>7. \A p \in DOMAIN t : ~AtOrUnder(f, p) => p \in DOMAIN u /\ u[p] = t[p]
    BY <1>2
  <1>8. \A p \in DOMAIN t : AtOrUnder(f, p) =>
           Rebase(p, f, g) \in DOMAIN u /\ u[Rebase(p, f, g)] = t[p]
    BY <1>2, <1>4
  <1>9. \A p \in DOMAIN u : AtOrUnder(g, p) =>
           \E q \in DOMAIN t : AtOrUnder(f, q) /\ p = Rebase(q, f, g)
    BY <1>2, <1>3, <1>5
  <1>10. \A p \in DOMAIN u : ~AtOrUnder(g, p) => p \in DOMAIN t /\ ~AtOrUnder(f, p)
    BY <1>2, <1>4, <1>5
  <1> QED BY <1>6, <1>7, <1>8, <1>9, <1>10 DEF u

\* A rename that could be made leaves a tree, with every file still in it.
LEMMA RenamedIsTree ==
    ASSUME NEW t, IsTree(t), NEW f \in Paths, NEW g \in Paths, CanRename(t, f, g)
    PROVE  /\ IsTree(Renamed(t, f, g))
           /\ FilesIn(Renamed(t, f, g)) = FilesIn(t)
  <1> DEFINE u == Renamed(t, f, g)
  <1>1. /\ DOMAIN t \subseteq Paths
        /\ \A p, q \in DOMAIN t : t[p] = t[q] => p = q
        /\ \A p \in DOMAIN t : \A n \in 1..(Len(p) - 1) :
              SubSeq(p, 1, n) \in DOMAIN t /\ t[SubSeq(p, 1, n)] \in Dirs
    BY DEF IsTree
  <1>2. /\ DOMAIN u \subseteq Paths
        /\ \A p \in DOMAIN u : u[p] \in Files
        /\ \A p \in DOMAIN t : ~AtOrUnder(f, p) => p \in DOMAIN u /\ u[p] = t[p]
        /\ \A p \in DOMAIN t : AtOrUnder(f, p) =>
              Rebase(p, f, g) \in DOMAIN u /\ u[Rebase(p, f, g)] = t[p]
        /\ \A p \in DOMAIN u : AtOrUnder(g, p) =>
              \E q \in DOMAIN t : AtOrUnder(f, q) /\ p = Rebase(q, f, g)
        /\ \A p \in DOMAIN u : ~AtOrUnder(g, p) => p \in DOMAIN t /\ ~AtOrUnder(f, p)
    BY RenamedFacts
  <1>3. u = [p \in DOMAIN u |-> u[p]]
    BY DEF Renamed
  <1> HIDE DEF u
  \* every path of u was one path of t
  <1>4. ASSUME NEW p \in DOMAIN u
        PROVE  \E q \in DOMAIN t :
                  /\ u[p] = t[q]
                  /\ p = IF AtOrUnder(f, q) THEN Rebase(q, f, g) ELSE q
  <2>1. CASE AtOrUnder(g, p)
    BY <2>1, <1>2
  <2>2. CASE ~AtOrUnder(g, p)
    BY <2>2, <1>2
  <2> QED BY <2>1, <2>2
  <1>5. \A p, q \in DOMAIN u : u[p] = u[q] => p = q
    BY <1>1, <1>4
  <1>6. ASSUME NEW p \in DOMAIN u, NEW n \in 1..(Len(p) - 1)
        PROVE  SubSeq(p, 1, n) \in DOMAIN u /\ u[SubSeq(p, 1, n)] \in Dirs
  <2>1. Len(p) \in Nat /\ Len(f) \in Nat \ {0} /\ Len(g) \in Nat \ {0} /\ p \in Paths
    BY <1>2, EmptySeq, LenProperties DEF Paths
  <2>2. CASE ~AtOrUnder(g, p)
      <3>1. SubSeq(p, 1, n) \in DOMAIN t /\ t[SubSeq(p, 1, n)] \in Dirs
        BY <2>2, <1>1, <1>2
      <3>2. ~AtOrUnder(f, SubSeq(p, 1, n))
        BY <2>1, <2>2, <1>2, PrefixUnder
      <3> QED BY <3>1, <3>2, <1>2
  <2>3. CASE AtOrUnder(g, p)
      <3>1. PICK q \in DOMAIN t : AtOrUnder(f, q) /\ p = Rebase(q, f, g)
        BY <2>3, <1>2
      <3>2. q \in Paths /\ Len(q) \in Nat /\ Len(f) <= Len(q) /\ n \in 1..Len(p)
        BY <3>1, <1>1, <2>1, LenProperties DEF Paths, AtOrUnder
      <3>3. Len(p) = Len(g) + Len(q) - Len(f)
        BY <3>1, <3>2, RebaseFacts
      <3>4. CASE n > Len(g)
        <4> DEFINE m == n - Len(g) + Len(f)
                   h == SubSeq(q, 1, m)
        <4>1. m \in 1..(Len(q) - 1) /\ m >= Len(f) /\ m \in 1..Len(q)
          BY <2>1, <3>2, <3>3, <3>4
        <4>2. h \in DOMAIN t /\ t[h] \in Dirs
          BY <4>1, <1>1
        <4>3. AtOrUnder(f, h)
          BY <4>1, <3>1, <3>2, PrefixUnder
        <4>4. SubSeq(p, 1, n) = Rebase(h, f, g)
          BY <3>1, <3>2, <3>4, RebasePrefix
        <4> QED BY <4>2, <4>3, <4>4, <1>2
      <3>5. CASE n = Len(g)
        <4>1. SubSeq(p, 1, n) = g
          BY <2>3, <3>5 DEF AtOrUnder
        <4>2. f \in DOMAIN t /\ AtOrUnder(f, f) /\ t[f] \in Dirs
          <5>1. f \in DOMAIN t /\ AtOrUnder(f, f)
            BY UnderReflexive DEF CanRename, Exists
          <5>2. Len(f) \in 1..(Len(q) - 1) /\ SubSeq(q, 1, Len(f)) = f
            BY <2>1, <3>1, <3>2, <3>3, <3>5 DEF AtOrUnder
          <5> QED BY <5>1, <5>2, <1>1
        <4>3. Rebase(f, f, g) = g
          <5>1. /\ Rebase(f, f, g) \in Paths
                /\ Len(Rebase(f, f, g)) = Len(g) + Len(f) - Len(f)
                /\ \A i \in 1..Len(g) : Rebase(f, f, g)[i] = g[i]
            BY <4>2, RebaseFacts
          <5> QED BY <5>1, <2>1, SeqEqual DEF Paths
        <4> QED BY <4>1, <4>2, <4>3, <1>2
      <3>6. CASE n < Len(g)
        <4> DEFINE h == SubSeq(g, 1, n)
        <4>1. SubSeq(p, 1, n) = h
          BY <2>1, <3>1, <3>2, <3>6, RebasePrefix
        <4>2. n \in 1..(Len(g) - 1) /\ Len(g) - 1 \in 1..Len(g)
          BY <2>1, <3>6
        <4>3. Parent(g) \in DOMAIN t /\ t[Parent(g)] \in Dirs /\ Len(Parent(g)) = Len(g) - 1
          BY <2>1, <3>6, <4>2, PrefixFacts DEF CanRename, HasRoom, Parent, Exists
        <4>4. h \in DOMAIN t /\ t[h] \in Dirs
          <5>1. CASE n = Len(g) - 1
            BY <5>1, <4>3 DEF Parent
          <5>2. CASE n # Len(g) - 1
            <6>1. n \in 1..(Len(Parent(g)) - 1)
              BY <4>2, <4>3, <5>2, <2>1
            <6>2. SubSeq(Parent(g), 1, n) = h
              <7>1. /\ Parent(g) \in Paths
                    /\ \A i \in 1..(Len(g) - 1) : Parent(g)[i] = g[i]
                BY <4>2, PrefixFacts DEF Parent
              <7>2. /\ SubSeq(Parent(g), 1, n) \in Paths
                    /\ Len(SubSeq(Parent(g), 1, n)) = n
                    /\ \A i \in 1..n : SubSeq(Parent(g), 1, n)[i] = Parent(g)[i]
                <8>1. n \in 1..Len(Parent(g))
                  BY <6>1, <4>3, <2>1
                <8> QED BY <7>1, <8>1, PrefixFacts
              <7>3. h \in Paths /\ Len(h) = n /\ \A i \in 1..n : h[i] = g[i]
                BY <4>2, <2>1, PrefixFacts
              <7>4. \A i \in 1..n : SubSeq(Parent(g), 1, n)[i] = h[i]
                BY <7>1, <7>2, <7>3, <4>2, <2>1
              <7> HIDE DEF h
              <7> QED BY <7>2, <7>3, <7>4, SeqEqual DEF Paths
            <6> QED BY <6>1, <6>2, <4>3, <1>1
          <5> QED BY <5>1, <5>2
        <4>5. ~AtOrUnder(f, h)
          BY <4>2, <2>1, PrefixUnder DEF CanRename
        <4> QED BY <4>1, <4>4, <4>5, <1>2
      <3> QED BY <2>1, <3>4, <3>5, <3>6
  <2> QED BY <2>2, <2>3
  <1>7. IsTree(u)
    BY <1>2, <1>3, <1>5, <1>6 DEF IsTree
  <1>8. FilesIn(u) \subseteq FilesIn(t)
    BY <1>4 DEF FilesIn
  <1>9. FilesIn(t) \subseteq FilesIn(u)
    BY <1>2 DEF FilesIn
  <1> QED BY <1>7, <1>8, <1>9 DEF u

\* A rename that could be made can be made back, and gives the tree back.
LEMMA RenamedBack ==
    ASSUME NEW t, IsTree(t), NEW f \in Paths, NEW g \in Paths, CanRename(t, f, g)
    PROVE  /\ CanRename(Renamed(t, f, g), g, f)
           /\ Renamed(Renamed(t, f, g), g, f) = t
  <1> DEFINE u == Renamed(t, f, g)
             b == Renamed(u, g, f)
  <1>1. /\ DOMAIN t \subseteq Paths /\ f \in DOMAIN t /\ g \notin DOMAIN t
        /\ \A p \in DOMAIN t : \A n \in 1..(Len(p) - 1) :
              SubSeq(p, 1, n) \in DOMAIN t /\ t[SubSeq(p, 1, n)] \in Dirs
        /\ t = [p \in DOMAIN t |-> t[p]]
    BY DEF IsTree, CanRename, Exists
  <1>2. \A p \in DOMAIN t : ~AtOrUnder(g, p)
    BY FreeIsEmpty DEF CanRename
  <1>3. /\ DOMAIN u \subseteq Paths
        /\ \A p \in DOMAIN t : ~AtOrUnder(f, p) => p \in DOMAIN u /\ u[p] = t[p]
        /\ \A p \in DOMAIN t : AtOrUnder(f, p) =>
              Rebase(p, f, g) \in DOMAIN u /\ u[Rebase(p, f, g)] = t[p]
        /\ \A p \in DOMAIN u : AtOrUnder(g, p) =>
              \E q \in DOMAIN t : AtOrUnder(f, q) /\ p = Rebase(q, f, g)
        /\ \A p \in DOMAIN u : ~AtOrUnder(g, p) => p \in DOMAIN t /\ ~AtOrUnder(f, p)
    BY RenamedFacts
  <1>4. IsTree(u)
    BY RenamedIsTree
  <1> HIDE DEF u
  <1>5. Len(f) \in Nat \ {0} /\ Len(g) \in Nat \ {0} /\ AtOrUnder(f, f)
    BY UnderReflexive, EmptySeq, LenProperties DEF Paths
  <1>6. ~AtOrUnder(g, f)
    BY <1>1, <1>2
  <1>7. Exists(u, g)
  <2>1. /\ Rebase(f, f, g) \in Paths
        /\ Len(Rebase(f, f, g)) = Len(g) + Len(f) - Len(f)
        /\ \A i \in 1..Len(g) : Rebase(f, f, g)[i] = g[i]
    BY <1>5, RebaseFacts
  <2>2. Rebase(f, f, g) = g
    BY <2>1, <1>5, SeqEqual DEF Paths
  <2> QED BY <2>2, <1>1, <1>3, <1>5 DEF Exists
  <1>8. ~Exists(u, f)
    BY <1>3, <1>5, <1>6 DEF Exists
  <1>9. HasRoom(u, f)
  <2> SUFFICES ASSUME Len(f) > 1 PROVE Parent(f) \in DOMAIN u /\ u[Parent(f)] \in Dirs
    BY DEF HasRoom, Exists
  <2>1. Len(f) - 1 \in 1..(Len(f) - 1) /\ Len(f) - 1 \in 1..Len(f)
    BY <1>5
  <2>2. Parent(f) \in DOMAIN t /\ t[Parent(f)] \in Dirs
    BY <2>1, <1>1 DEF Parent
  <2>3. ~AtOrUnder(f, Parent(f))
    BY <2>1, <1>5, PrefixUnder DEF Parent
  <2> QED BY <2>2, <2>3, <1>3
  <1>10. CanRename(u, g, f)
    BY <1>6, <1>7, <1>8, <1>9 DEF CanRename
  <1>11. /\ \A p \in DOMAIN u : ~AtOrUnder(g, p) => p \in DOMAIN b /\ b[p] = u[p]
         /\ \A p \in DOMAIN u : AtOrUnder(g, p) =>
               Rebase(p, g, f) \in DOMAIN b /\ b[Rebase(p, g, f)] = u[p]
         /\ \A p \in DOMAIN b : AtOrUnder(f, p) =>
               \E q \in DOMAIN u : AtOrUnder(g, q) /\ p = Rebase(q, g, f)
         /\ \A p \in DOMAIN b : ~AtOrUnder(f, p) => p \in DOMAIN u /\ ~AtOrUnder(g, p)
    BY <1>4, <1>10, RenamedFacts
  <1>12. b = [p \in DOMAIN b |-> b[p]]
    BY DEF Renamed
  <1> HIDE DEF b
  <1>13. ASSUME NEW p \in DOMAIN t PROVE p \in DOMAIN b /\ b[p] = t[p]
  <2>1. CASE ~AtOrUnder(f, p)
    BY <2>1, <1>2, <1>3, <1>11
  <2>2. CASE AtOrUnder(f, p)
      <3>1. p \in Paths
        BY <1>1
      <3>2. Rebase(Rebase(p, f, g), g, f) = p /\ AtOrUnder(g, Rebase(p, f, g))
        BY <2>2, <3>1, RebaseBack, RebaseFacts
      <3> QED BY <2>2, <3>2, <1>3, <1>11
  <2> QED BY <2>1, <2>2
  <1>14. ASSUME NEW p \in DOMAIN b PROVE p \in DOMAIN t
  <2>1. CASE ~AtOrUnder(f, p)
    BY <2>1, <1>3, <1>11
  <2>2. CASE AtOrUnder(f, p)
      <3>1. PICK q \in DOMAIN u : AtOrUnder(g, q) /\ p = Rebase(q, g, f)
        BY <2>2, <1>11
      <3>2. PICK r \in DOMAIN t : AtOrUnder(f, r) /\ q = Rebase(r, f, g)
        BY <3>1, <1>3
      <3>3. r \in Paths
        BY <1>1
      <3>4. p = r
        BY <3>1, <3>2, <3>3, RebaseBack
      <3> QED BY <3>4
  <2> QED BY <2>1, <2>2
  <1>15. b = t
    BY <1>1, <1>12, <1>13, <1>14
  <1> QED BY <1>10, <1>15 DEF u, b

\* A new name in a folder that is there leaves a tree.
LEMMA CreatedIsTree ==
    ASSUME NEW t, IsTree(t), NEW p \in Paths, NEW x \in Files, CanCreate(t, p),
           x \notin FilesIn(t)
    PROVE  /\ IsTree(Created(t, p, x))
           /\ FilesIn(Created(t, p, x)) = FilesIn(t) \cup {x}
           /\ Removed(Created(t, p, x), p) = t
  <1> DEFINE u == Created(t, p, x)
  <1>1. /\ DOMAIN t \subseteq Paths /\ p \notin DOMAIN t
        /\ \A q \in DOMAIN t : t[q] \in Files /\ t[q] # x
        /\ t = [q \in DOMAIN t |-> t[q]]
        /\ \A q, r \in DOMAIN t : t[q] = t[r] => q = r
        /\ \A q \in DOMAIN t : \A n \in 1..(Len(q) - 1) :
              SubSeq(q, 1, n) \in DOMAIN t /\ t[SubSeq(q, 1, n)] \in Dirs
    BY DEF IsTree, CanCreate, Exists, FilesIn
  <1>2. /\ DOMAIN u = DOMAIN t \cup {p} /\ u[p] = x
        /\ \A q \in DOMAIN t : u[q] = t[q]
        /\ u = [q \in DOMAIN u |-> u[q]]
    BY <1>1 DEF Created
  <1>3. ASSUME NEW n \in 1..(Len(p) - 1)
        PROVE  SubSeq(p, 1, n) \in DOMAIN t /\ t[SubSeq(p, 1, n)] \in Dirs
  <2>1. Len(p) \in Nat \ {0} /\ Len(p) > 1
    BY EmptySeq, LenProperties DEF Paths
  <2>2. Parent(p) \in DOMAIN t /\ t[Parent(p)] \in Dirs
    BY <2>1 DEF CanCreate, HasRoom, Exists
  <2>3. CASE n = Len(p) - 1
    BY <2>2, <2>3 DEF Parent
  <2>4. CASE n # Len(p) - 1
      <3> DEFINE a == Parent(p)
      <3>1. Len(p) - 1 \in 1..Len(p) /\ n \in 1..Len(p)
        BY <2>1
      <3>2. a \in Paths /\ Len(a) = Len(p) - 1 /\ \A i \in 1..(Len(p) - 1) : a[i] = p[i]
        BY <3>1, PrefixFacts DEF Parent
      <3>3. n \in 1..(Len(a) - 1) /\ n \in 1..Len(a)
        BY <2>1, <2>4, <3>2
      <3>4. /\ SubSeq(a, 1, n) \in Paths /\ Len(SubSeq(a, 1, n)) = n
            /\ \A i \in 1..n : SubSeq(a, 1, n)[i] = a[i]
        BY <3>2, <3>3, PrefixFacts
      <3>5. /\ SubSeq(p, 1, n) \in Paths /\ Len(SubSeq(p, 1, n)) = n
            /\ \A i \in 1..n : SubSeq(p, 1, n)[i] = p[i]
        BY <3>1, PrefixFacts
      <3>6. \A i \in 1..n : SubSeq(a, 1, n)[i] = SubSeq(p, 1, n)[i]
        BY <2>1, <3>2, <3>4, <3>5
      <3>7. SubSeq(a, 1, n) = SubSeq(p, 1, n)
        BY <3>4, <3>5, <3>6, SeqEqual DEF Paths
      <3> QED BY <2>2, <3>3, <3>7, <1>1
  <2> QED BY <2>3, <2>4
  <1> HIDE DEF u
  <1>4. \A q \in DOMAIN u : \A n \in 1..(Len(q) - 1) :
           SubSeq(q, 1, n) \in DOMAIN u /\ u[SubSeq(q, 1, n)] \in Dirs
    BY <1>1, <1>2, <1>3
  <1>5. IsTree(u)
    BY <1>1, <1>2, <1>4 DEF IsTree
  <1>6. FilesIn(u) = FilesIn(t) \cup {x}
    BY <1>1, <1>2 DEF FilesIn
  <1>7. Removed(u, p) = t
  <2> DEFINE r == Removed(u, p)
  <2>1. DOMAIN r = DOMAIN u \ {p} /\ \A q \in DOMAIN u \ {p} : r[q] = u[q]
    BY DEF Removed
  <2>2. r = [q \in DOMAIN r |-> r[q]]
    BY DEF Removed
  <2> HIDE DEF r
  <2>3. DOMAIN r = DOMAIN t /\ \A q \in DOMAIN t : r[q] = t[q]
    BY <2>1, <1>1, <1>2
  <2>4. r = t
    BY <2>2, <2>3, <1>1
  <2> QED BY <2>4 DEF r
  <1> QED BY <1>5, <1>6, <1>7 DEF u

\* Removing what has nothing in it leaves a tree.
LEMMA RemovedIsTree ==
    ASSUME NEW t, IsTree(t), NEW p \in DOMAIN t,
           \A q \in DOMAIN t : AtOrUnder(p, q) => q = p
    PROVE  /\ IsTree(Removed(t, p))
           /\ FilesIn(Removed(t, p)) = FilesIn(t) \ {t[p]}
  <1> DEFINE u == Removed(t, p)
  <1>1. /\ DOMAIN t \subseteq Paths
        /\ \A q \in DOMAIN t : t[q] \in Files
        /\ \A q, r \in DOMAIN t : t[q] = t[r] => q = r
        /\ \A q \in DOMAIN t : \A n \in 1..(Len(q) - 1) :
              SubSeq(q, 1, n) \in DOMAIN t /\ t[SubSeq(q, 1, n)] \in Dirs
    BY DEF IsTree
  <1>2. /\ DOMAIN u = DOMAIN t \ {p}
        /\ \A q \in DOMAIN u : u[q] = t[q]
        /\ u = [q \in DOMAIN u |-> u[q]]
    BY DEF Removed
  <1> HIDE DEF u
  <1>3. ASSUME NEW q \in DOMAIN u, NEW n \in 1..(Len(q) - 1)
        PROVE  SubSeq(q, 1, n) \in DOMAIN u /\ u[SubSeq(q, 1, n)] \in Dirs
  <2>1. q \in Paths /\ Len(q) \in Nat /\ n \in 1..Len(q)
    BY <1>1, <1>2, LenProperties DEF Paths
  <2>2. SubSeq(q, 1, n) \in DOMAIN t /\ t[SubSeq(q, 1, n)] \in Dirs
    BY <1>1, <1>2
  <2>3. AtOrUnder(SubSeq(q, 1, n), q)
    BY <2>1, PrefixUnder
  <2>4. SubSeq(q, 1, n) # p
    BY <2>3, <1>2
  <2> QED BY <2>2, <2>4, <1>2
  <1>4. IsTree(u)
    BY <1>1, <1>2, <1>3 DEF IsTree
  <1>5. FilesIn(u) = FilesIn(t) \ {t[p]}
    BY <1>1, <1>2 DEF FilesIn
  <1> QED BY <1>4, <1>5 DEF u
=============================================================================
