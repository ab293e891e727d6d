------------------------- MODULE InstallationProofs -------------------------
(***************************************************************************)
(* Proofs about the installation of the gateway.                           *)
(*                                                                         *)
(* The first part is about the Windows runner (RunnerStore), for every     *)
(* package and every behaviour of the runner's processes.  Whether GitHub  *)
(* has a registration is decided by a process that may be cut off at any   *)
(* moment: the invariant says when the installer has noted that there may  *)
(* be one, and what an exit status of 0 is worth.                          *)
(*                                                                         *)
(* The second part is about the transaction around it                      *)
(* (InstallTransaction), on both platforms and for any number of runs: the *)
(* invariant says what the steps so far have made, what a rollback or an   *)
(* uninstallation still has to remove, and what the recorded state is      *)
(* worth.                                                                  *)
(***************************************************************************)
EXTENDS RunnerStore, InstallTransaction, FiniteSetTheorems, SequenceTheorems,
        WellFoundedInduction, TLAPS

-----------------------------------------------------------------------------
(***************************************************************************)
(* Lists, finite sets and induction.                                       *)
(***************************************************************************)
In(x, s) == \E i \in DOMAIN s : s[i] = x

LEMMA SetToSeqLists ==
    ASSUME NEW S, IsFiniteSet(S)
    PROVE  /\ SetToSeq(S) \in Seq(S)
           /\ \A x \in S : In(x, SetToSeq(S))
           /\ IsInjective(SetToSeq(S))
<1> DEFINE n == Cardinality(S)
<1>1. n \in Nat /\ ExistsBijection(1..n, S)
  BY FS_CardinalityType
<1>2. \E f \in [1..n -> S] : IsInjective(f)
  BY <1>1 DEF ExistsBijection, Bijection, Injection, IsInjective
<1>3. SetToSeq(S) \in [1..n -> S] /\ IsInjective(SetToSeq(S))
  BY <1>2 DEF SetToSeq
<1>4. SetToSeq(S) \in Injection(1..n, S)
  BY <1>3 DEF Injection, IsInjective
<1>5. IsFiniteSet(1..n) /\ Cardinality(1..n) = n
  BY <1>1, FS_Interval
<1>6. SetToSeq(S) \in Surjection(1..n, S)
  BY <1>4, <1>5, FS_Injection
<1> QED
  BY <1>1, <1>3, <1>6 DEF Surjection, In

LEMMA AboveShorter ==
    ASSUME NEW path \in Paths, path # <<>>
    PROVE  Above(path) \in Paths /\ Len(Above(path)) = Len(path) - 1 /\ Above(path) # path
<1>1. Len(path) \in Nat /\ Len(path) # 0 /\ \A i \in 1..Len(path) : path[i] \in Names
  BY DEF Paths
<1>2. Above(path) = [i \in 1..(Len(path) - 1) |-> path[i]]
  BY <1>1 DEF Above
<1>3. \A i \in 1..(Len(path) - 1) : path[i] \in Names
  BY <1>1
<1>4. Above(path) \in Paths /\ Len(Above(path)) = Len(path) - 1
  BY <1>1, <1>2, <1>3 DEF Paths
<1> QED
  BY <1>1, <1>4

\* Every nonempty set of naturals has a least element.
LEMMA Least ==
    ASSUME NEW T \in SUBSET Nat, T # {}
    PROVE  \E m \in T : \A n \in T : m <= n
<1> DEFINE R == OpToRel(<, Nat)
<1>1. IsWellFoundedOn(R, Nat)
  BY NatLessThanWellFounded
<1>2. T \subseteq Nat
  OBVIOUS
<1>3. \A x, y \in Nat : x < y => <<x, y>> \in R
  BY DEF OpToRel
<1> HIDE DEF R
<1>4. \E m \in T : \A y \in T : <<y, m>> \notin R
  BY <1>1, <1>2, WFMin
<1>5. PICK m \in T : \A y \in T : <<y, m>> \notin R
  BY <1>4
<1>6. \A y \in T : ~(y < m)
  BY <1>2, <1>3, <1>5
<1>7. \A y \in T : m <= y
  BY <1>2, <1>6
<1> QED
  BY <1>7

\* There is a shortest one among some paths.
LEMMA Shortest ==
    ASSUME NEW S \in SUBSET Paths, S # {}
    PROVE  \E p \in S : \A q \in S : Len(p) =< Len(q)
<1> DEFINE T == {Len(p) : p \in S}
<1>1. \A p \in S : Len(p) \in Nat
  <2> SUFFICES ASSUME NEW p \in S PROVE Len(p) \in Nat
    OBVIOUS
  <2>1. p \in Seq(Names)
    BY DEF Paths
  <2> QED
    BY <2>1
<1>2. \E m \in T : \A n \in T : m <= n
  <2>1. T \subseteq Nat
    BY <1>1
  <2>2. T # {}
    OBVIOUS
  <2> HIDE DEF T
  <2> QED
    BY <2>1, <2>2, Least
<1> QED
  BY <1>2

Sorted(order, S) ==
    /\ order \in [1..Cardinality(S) -> S]
    /\ IsInjective(order)
    /\ \A i, j \in DOMAIN order : i < j => Len(order[i]) =< Len(order[j])

\* The paths of a finite set have an order by depth.
LEMMA DepthOrderExists ==
    ASSUME NEW D \in SUBSET Paths, IsFiniteSet(D)
    PROVE  \E order : Sorted(order, D)
<1> DEFINE Bad(S) == \A order : ~Sorted(order, S)
           T == {n \in Nat : \E S \in SUBSET D : Cardinality(S) = n /\ Bad(S)}
<1>1. SUFFICES ASSUME Bad(D) PROVE FALSE
  OBVIOUS
<1>2. T \in SUBSET Nat /\ T # {}
  BY <1>1, FS_CardinalityType
<1>3. PICK m \in T : \A n \in T : m =< n
  <2> HIDE DEF T
  <2> QED
    BY <1>2, Least
<1>4. PICK S \in SUBSET D : Cardinality(S) = m /\ Bad(S)
  BY <1>3
<1>5. IsFiniteSet(S) /\ S \in SUBSET Paths
  BY FS_Subset
<1>6. S # {}
  <2> SUFFICES ASSUME S = {} PROVE FALSE
    OBVIOUS
  <2>1. m = 0
    BY <1>4, FS_EmptySet
  <2>2. Sorted([i \in 1..0 |-> i], S)
    BY <1>4, <2>1 DEF Sorted, IsInjective
  <2> QED
    BY <1>4, <2>2
<1>7. PICK x \in S : \A q \in S : Len(x) =< Len(q)
  BY <1>5, <1>6, Shortest
<1>8. IsFiniteSet(S \ {x}) /\ Cardinality(S \ {x}) = m - 1 /\ m \in Nat /\ m - 1 \in Nat
  <2>1. IsFiniteSet(S \ {x}) /\ Cardinality(S \ {x}) = m - 1
    BY <1>4, <1>5, FS_RemoveElement
  <2> QED
    BY <2>1, FS_CardinalityType
<1>9. PICK order : Sorted(order, S \ {x})
  <2>1. m - 1 \notin T
    BY <1>3, <1>8
  <2> QED
    BY <1>8, <2>1
<1> DEFINE first == [i \in 1..m |-> IF i = 1 THEN x ELSE order[i - 1]]
<1>10. order \in [1..(m - 1) -> S \ {x}]
  BY <1>8, <1>9 DEF Sorted
<1>11. \A i \in 1..m : i # 1 => i - 1 \in 1..(m - 1)
  BY <1>8
<1>12. first \in [1..m -> S]
  BY <1>10, <1>11
<1>13. IsInjective(first)
  <2> SUFFICES ASSUME NEW i \in 1..m, NEW j \in 1..m, first[i] = first[j] PROVE i = j
    BY DEF IsInjective
  <2>1. CASE i = 1 \/ j = 1
    BY <1>10, <1>11, <2>1
  <2>2. CASE i # 1 /\ j # 1
    <3>1. order[i - 1] = order[j - 1] /\ i - 1 \in DOMAIN order /\ j - 1 \in DOMAIN order
      BY <1>10, <1>11, <2>2
    <3>2. i - 1 = j - 1
      BY <1>9, <3>1 DEF Sorted, IsInjective
    <3> QED
      BY <3>2
  <2> QED
    BY <2>1, <2>2
<1>14. ASSUME NEW i \in 1..m, NEW j \in 1..m, i < j
       PROVE  Len(first[i]) =< Len(first[j])
  <2>1. j # 1 /\ j - 1 \in 1..(m - 1)
    BY <1>11, <1>14
  <2>2. CASE i = 1
    BY <1>7, <1>10, <2>1, <2>2
  <2>3. CASE i # 1
    <3>1. i - 1 \in DOMAIN order /\ j - 1 \in DOMAIN order /\ i - 1 < j - 1
      BY <1>10, <1>11, <1>14, <2>1, <2>3
    <3> QED
      BY <1>9, <2>1, <2>3, <3>1 DEF Sorted
  <2> QED
    BY <2>2, <2>3
<1>15. DOMAIN first = 1..m
  OBVIOUS
<1> HIDE DEF first
<1>16. Sorted(first, S)
  BY <1>4, <1>12, <1>13, <1>14, <1>15 DEF Sorted
<1> QED
  BY <1>4, <1>16

\* ByDepth lists the paths, none before a shorter one.
LEMMA ByDepthLists ==
    ASSUME NEW D \in SUBSET Paths, IsFiniteSet(D)
    PROVE  /\ ByDepth(D) \in Seq(D)
           /\ \A x \in D : In(x, ByDepth(D))
           /\ IsInjective(ByDepth(D))
           /\ \A i, j \in DOMAIN ByDepth(D) : i < j => Len(ByDepth(D)[i]) =< Len(ByDepth(D)[j])
<1> DEFINE n == Cardinality(D)
           o == ByDepth(D)
<1>1. \E order \in [1..n -> D] :
        /\ IsInjective(order)
        /\ \A i, j \in DOMAIN order : i < j => Len(order[i]) =< Len(order[j])
  BY DepthOrderExists DEF Sorted
<1>2. /\ o \in [1..n -> D] /\ IsInjective(o)
      /\ \A i, j \in DOMAIN o : i < j => Len(o[i]) =< Len(o[j])
  BY <1>1 DEF ByDepth
<1>3. n \in Nat
  BY FS_CardinalityType
<1>4. o \in Injection(1..n, D)
  BY <1>2 DEF Injection, IsInjective
<1>5. IsFiniteSet(1..n) /\ Cardinality(1..n) = n
  BY <1>3, FS_Interval
<1>6. o \in Surjection(1..n, D)
  BY <1>4, <1>5, FS_Injection
<1>7. o \in Seq(D) /\ \A x \in D : In(x, o)
  BY <1>2, <1>3, <1>6 DEF Surjection, In
<1> QED
  BY <1>2, <1>7


\* The image of a finite set is finite.
LEMMA ImageFinite ==
    ASSUME NEW S, IsFiniteSet(S), NEW f, DOMAIN f = S, f = [x \in S |-> f[x]]
    PROVE  IsFiniteSet({f[x] : x \in S})
<1> DEFINE T == {f[x] : x \in S}
<1>1. f \in Surjection(S, T)
  BY DEF Surjection
<1> QED
  BY <1>1, FS_Surjection

\* The prefixes of a path.
LEMMA ParentsFinite ==
    ASSUME NEW path \in Paths
    PROVE  ParentsOf(path) \subseteq Paths /\ IsFiniteSet(ParentsOf(path))
<1> DEFINE S == 1..(Len(path) - 1)
           f == [n \in S |-> SubSeq(path, 1, n)]
<1>1. path \in Seq(Names) /\ Len(path) \in Nat
  BY DEF Paths
<1>2. ASSUME NEW n \in S PROVE SubSeq(path, 1, n) \in Paths
  <2>1. n \in Nat /\ n =< Len(path)
    BY <1>1
  <2> QED
    BY <1>1, <2>1 DEF Paths
<1>3. IsFiniteSet(S)
  BY <1>1, FS_Interval
<1>4. IsFiniteSet({f[n] : n \in S})
  <2>1. f = [n \in S |-> f[n]] /\ DOMAIN f = S
    OBVIOUS
  <2> HIDE DEF S, f
  <2> QED
    BY <1>3, <2>1, ImageFinite
<1>5. ParentsOf(path) = {f[n] : n \in S}
  BY DEF ParentsOf
<1> QED
  BY <1>2, <1>4, <1>5 DEF ParentsOf

\* The image of a package is a finite set of paths.
LEMMA ImageOfPackage ==
    ASSUME NEW a \in Seq([path : Paths, dir : BOOLEAN, plain : BOOLEAN])
    PROVE  /\ AllFiles(a) \subseteq Paths /\ IsFiniteSet(AllFiles(a))
           /\ AllDirs(a) \subseteq Paths /\ IsFiniteSet(AllDirs(a))
<1> DEFINE I == 1..Len(a)
           paths == [i \in I |-> a[i].path]
           all == {paths[i] : i \in I}
           parents == [file \in AllFiles(a) |-> ParentsOf(file)]
<1>1. ASSUME NEW i \in I PROVE a[i].path \in Paths
  <2>1. a[i] \in [path : Paths, dir : BOOLEAN, plain : BOOLEAN]
    BY ElementOfSeq
  <2> QED
    BY <2>1
<1>2. IsFiniteSet(I)
  <2>1. Len(a) \in Nat
    OBVIOUS
  <2> QED
    BY <2>1, FS_Interval
<1>3. IsFiniteSet(all)
  <2>1. paths = [i \in I |-> paths[i]] /\ DOMAIN paths = I
    OBVIOUS
  <2> HIDE DEF paths, I
  <2> QED
    BY <1>2, <2>1, ImageFinite
<1>4. AllFiles(a) \subseteq all /\ Explicit(a, Len(a)) \subseteq all
  BY DEF AllFiles, Files, Explicit
<1>5. IsFiniteSet(AllFiles(a)) /\ IsFiniteSet(Explicit(a, Len(a)))
  BY <1>3, <1>4, FS_Subset
<1>6. all \subseteq Paths
  BY <1>1
<1>7. \A file \in AllFiles(a) : ParentsOf(file) \subseteq Paths /\ IsFiniteSet(ParentsOf(file))
  BY <1>4, <1>6, ParentsFinite
<1>8. IsFiniteSet({parents[file] : file \in AllFiles(a)})
  <2>1. parents = [file \in AllFiles(a) |-> parents[file]] /\ DOMAIN parents = AllFiles(a)
    OBVIOUS
  <2> HIDE DEF parents
  <2> QED
    BY <1>5, <2>1, ImageFinite
<1>9. IsFiniteSet(UNION {parents[file] : file \in AllFiles(a)})
  <2>1. \A T \in {parents[file] : file \in AllFiles(a)} : IsFiniteSet(T)
    BY <1>7
  <2> HIDE DEF parents
  <2> QED
    BY <1>8, <2>1, FS_UNION
<1>10. AllDirs(a) = Explicit(a, Len(a)) \cup UNION {parents[file] : file \in AllFiles(a)}
  BY DEF AllDirs, Dirs, AllFiles
<1>11. UNION {parents[file] : file \in AllFiles(a)} \subseteq Paths
  BY <1>7
<1> HIDE DEF parents, all
<1> QED
  BY <1>4, <1>5, <1>6, <1>9, <1>10, <1>11, FS_Union

\* A sequence keeps its first element when another follows it.
LEMMA ConcatStart ==
    ASSUME NEW S, NEW s \in Seq(S), NEW t \in Seq(S), Len(s) > 0
    PROVE  s \o t \in Seq(S) /\ Len(s \o t) > 0 /\ (s \o t)[1] = s[1]
<1>1. Len(s) \in Nat /\ Len(t) \in Nat
  BY LenProperties
<1>2. 1 \in 1 .. Len(s) + Len(t) /\ 1 =< Len(s)
  BY <1>1
<1>3. /\ s \o t \in Seq(S) /\ Len(s \o t) = Len(s) + Len(t)
      /\ (s \o t)[1] = IF 1 <= Len(s) THEN s[1] ELSE t[1 - Len(s)]
  BY <1>2, ConcatProperties
<1> QED
  BY <1>1, <1>2, <1>3

Item == [path : Paths, dir : BOOLEAN]

\* The items of an extraction are objects with a path.
LEMMA LayoutType ==
    ASSUME archive \in Archives
    PROVE  /\ Layout \in Seq(Item) /\ Len(Layout) > 0
           /\ Layout[1] = [path |-> <<>>, dir |-> TRUE]
<1> DEFINE Each(paths, dir) == [i \in DOMAIN paths |-> [path |-> paths[i], dir |-> dir]]
           root == <<[path |-> <<>>, dir |-> TRUE]>>
           runtime == [i \in DOMAIN RuntimeDirs |-> [path |-> RuntimeDirs[i], dir |-> TRUE]]
<1>1. archive \in Seq([path : Paths, dir : BOOLEAN, plain : BOOLEAN])
  BY StoreAssumption
<1>2. ASSUME NEW s \in Seq(Paths), NEW dir \in BOOLEAN PROVE Each(s, dir) \in Seq(Item)
  <2>1. \A i \in 1..Len(s) : [path |-> s[i], dir |-> dir] \in Item
    BY DEF Item
  <2> QED
    BY <2>1
<1>3. ByDepth(AllDirs(archive)) \in Seq(Paths)
  <2>1. ByDepth(AllDirs(archive)) \in Seq(AllDirs(archive)) /\ AllDirs(archive) \subseteq Paths
    BY <1>1, ImageOfPackage, ByDepthLists
  <2> QED
    BY <2>1
<1>4. SetToSeq(AllFiles(archive)) \in Seq(Paths)
  <2>1. SetToSeq(AllFiles(archive)) \in Seq(AllFiles(archive)) /\ AllFiles(archive) \subseteq Paths
    BY <1>1, ImageOfPackage, SetToSeqLists
  <2> QED
    BY <2>1
<1>5. Extraction(archive) \in Seq(Item)
  <2>1. Extraction(archive) = Each(ByDepth(AllDirs(archive)), TRUE)
                                 \o Each(SetToSeq(AllFiles(archive)), FALSE)
    BY DEF Extraction
  <2>2. Each(ByDepth(AllDirs(archive)), TRUE) \in Seq(Item)
    BY <1>2, <1>3
  <2>3. Each(SetToSeq(AllFiles(archive)), FALSE) \in Seq(Item)
    BY <1>2, <1>4
  <2> HIDE DEF Each
  <2> QED
    BY <2>1, <2>2, <2>3, ConcatProperties
<1>6. runtime \in Seq(Item)
  <2>1. runtime = Each(RuntimeDirs, TRUE)
    OBVIOUS
  <2> HIDE DEF Each
  <2> QED
    BY <1>2, <2>1, StoreAssumption
<1>7. root \in Seq(Item) /\ Len(root) > 0 /\ root[1] = [path |-> <<>>, dir |-> TRUE]
  BY DEF Item, Paths
<1>8. ControlImage \in Seq(Item)
  BY StoreAssumption DEF Item
<1>9. Layout = root \o Extraction(archive) \o runtime \o ControlImage
  BY DEF Layout
<1> HIDE DEF root, runtime
<1>10. root \o Extraction(archive) \in Seq(Item) /\ Len(root \o Extraction(archive)) > 0
       /\ (root \o Extraction(archive))[1] = root[1]
  BY <1>5, <1>7, ConcatStart
<1>11. root \o Extraction(archive) \o runtime \in Seq(Item)
       /\ Len(root \o Extraction(archive) \o runtime) > 0
       /\ (root \o Extraction(archive) \o runtime)[1] = root[1]
  BY <1>6, <1>10, ConcatStart
<1> QED
  BY <1>7, <1>8, <1>9, <1>10, <1>11, ConcatStart

-----------------------------------------------------------------------------
(***************************************************************************)
(* Trees of objects, as a file system keeps them.                          *)
(***************************************************************************)
Objects == [dir : BOOLEAN, whole : BOOLEAN, sealed : BOOLEAN]

\* Every object but the root lies in a directory.
TreeOf(d) ==
    /\ DOMAIN d \subseteq Paths /\ IsFiniteSet(DOMAIN d)
    /\ d \in [DOMAIN d -> Objects]
    /\ \A p \in DOMAIN d : p # <<>> => Above(p) \in DOMAIN d /\ d[Above(p)].dir

\* What holds of the root and of the children of what it holds of, holds of
\* every object.
LEMMA TreeInduction ==
    ASSUME NEW d, TreeOf(d), NEW C, <<>> \in DOMAIN d => <<>> \in C,
           \A p \in DOMAIN d : p # <<>> /\ Above(p) \in C => p \in C
    PROVE  DOMAIN d \subseteq C
<1> DEFINE rest == DOMAIN d \ C
<1>1. SUFFICES ASSUME rest # {} PROVE FALSE
  OBVIOUS
<1>2. rest \in SUBSET Paths
  BY DEF TreeOf
<1>3. PICK p \in rest : \A q \in rest : Len(p) =< Len(q)
  BY <1>1, <1>2, Shortest
<1>4. p # <<>> /\ p \in Paths /\ Above(p) \in DOMAIN d
  BY <1>3 DEF TreeOf
<1>5. Above(p) \notin rest
  <2>1. Len(Above(p)) = Len(p) - 1 /\ Len(p) \in Nat
    BY <1>4, AboveShorter, LenProperties DEF Paths
  <2>2. ~(Len(p) =< Len(Above(p)))
    BY <2>1
  <2> QED
    BY <1>3, <2>2
<1> QED
  BY <1>3, <1>4, <1>5

\* A new object in a directory.
Placed(d, p) == /\ p \in Paths \ DOMAIN d
                /\ p # <<>> => Above(p) \in DOMAIN d /\ d[Above(p)].dir
Grown(d, p, object, e) ==
    /\ TreeOf(e) /\ DOMAIN e = DOMAIN d \cup {p}
    /\ e[p] = object
    /\ \A q \in DOMAIN d : e[q] = d[q]

LEMMA TreePut ==
    ASSUME NEW d, TreeOf(d), NEW p, Placed(d, p), NEW object \in Objects,
           NEW e, e = Put(d, p, object)
    PROVE  Grown(d, p, object, e)
<1> USE DEF Placed
<1>1. e = [q \in DOMAIN d \cup {p} |-> IF q = p THEN object ELSE d[q]]
  BY DEF Put
<1>2. DOMAIN e = DOMAIN d \cup {p} /\ e[p] = object /\ \A q \in DOMAIN d : e[q] = d[q]
  BY <1>1
<1>3. e \in [DOMAIN e -> Objects]
  BY <1>1 DEF TreeOf
<1>4. IsFiniteSet(DOMAIN e)
  BY <1>2, FS_AddElement DEF TreeOf
<1>5. \A q \in DOMAIN e : q # <<>> => Above(q) \in DOMAIN e /\ e[Above(q)].dir
  BY <1>2 DEF TreeOf
<1>6. TreeOf(e)
  BY <1>2, <1>3, <1>4, <1>5 DEF TreeOf
<1> QED
  BY <1>2, <1>6 DEF Grown

\* An object without children goes.
Childless(d, p) == \A q \in DOMAIN d : q # <<>> => Above(q) # p
Shrunk(d, p, e) ==
    /\ TreeOf(e) /\ DOMAIN e = DOMAIN d \ {p}
    /\ \A q \in DOMAIN e : e[q] = d[q]

LEMMA TreeRemove ==
    ASSUME NEW d, TreeOf(d), NEW p, Childless(d, p), NEW e, e = Remove1(d, p)
    PROVE  Shrunk(d, p, e)
<1>1. e = [q \in DOMAIN d \ {p} |-> d[q]]
  BY DEF Remove1
<1>2. DOMAIN e = DOMAIN d \ {p} /\ \A q \in DOMAIN e : e[q] = d[q]
  BY <1>1
<1>3. e \in [DOMAIN e -> Objects]
  BY <1>1 DEF TreeOf
<1>4. IsFiniteSet(DOMAIN e)
  BY <1>2, FS_RemoveElement DEF TreeOf
<1>5. \A q \in DOMAIN e : q # <<>> => Above(q) \in DOMAIN e /\ e[Above(q)].dir
  BY <1>2 DEF TreeOf, Childless
<1>6. TreeOf(e)
  BY <1>2, <1>3, <1>4, <1>5 DEF TreeOf
<1> QED
  BY <1>2, <1>6 DEF Shrunk

\* A descriptor is set.
Resealed(d, p, e) ==
    /\ TreeOf(e) /\ DOMAIN e = DOMAIN d
    /\ \A q \in DOMAIN d : /\ e[q].dir = d[q].dir /\ e[q].whole = d[q].whole
                           /\ e[q].sealed = (d[q].sealed \/ q = p)

LEMMA TreeSeal ==
    ASSUME NEW d, TreeOf(d), NEW p \in DOMAIN d,
           NEW e, e = [d EXCEPT ![p].sealed = TRUE]
    PROVE  Resealed(d, p, e)
<1>1. \A q \in DOMAIN d : d[q] \in Objects
  BY DEF TreeOf
<1>2. DOMAIN e = DOMAIN d
  OBVIOUS
<1>3. \A q \in DOMAIN d : e[q] = IF q = p THEN [d[q] EXCEPT !.sealed = TRUE] ELSE d[q]
  OBVIOUS
<1>4. ASSUME NEW q \in DOMAIN d
      PROVE  /\ e[q] \in Objects /\ e[q].dir = d[q].dir /\ e[q].whole = d[q].whole
             /\ e[q].sealed = (d[q].sealed \/ q = p)
  BY <1>1, <1>3 DEF Objects
<1>5. e \in [DOMAIN e -> Objects]
  BY <1>2, <1>4 DEF TreeOf
<1>6. TreeOf(e)
  BY <1>2, <1>4, <1>5 DEF TreeOf
<1> QED
  BY <1>2, <1>4, <1>6 DEF Resealed

-----------------------------------------------------------------------------
(***************************************************************************)
(* Lists of directories in which a parent comes before its children.       *)
(***************************************************************************)
DirsOrdered(dirs) ==
    /\ dirs \in Seq(Paths)
    /\ IsInjective(dirs)
    /\ \A j \in DOMAIN dirs : dirs[j] # <<>> =>
           \E i \in DOMAIN dirs : i < j /\ dirs[i] = Above(dirs[j])

LEMMA InAppend ==
    ASSUME NEW S, NEW s \in Seq(S), NEW x \in S
    PROVE  /\ Append(s, x) \in Seq(S)
           /\ \A y : In(y, Append(s, x)) <=> In(y, s) \/ y = x
<1>1. /\ Append(s, x) \in Seq(S)
      /\ DOMAIN s = 1..Len(s) /\ Len(s) \in Nat
      /\ DOMAIN Append(s, x) = 1..(Len(s) + 1)
      /\ \A i \in 1..Len(s) : Append(s, x)[i] = s[i]
      /\ Append(s, x)[Len(s) + 1] = x
  OBVIOUS
<1>2. \A i \in 1..(Len(s) + 1) : i \in 1..Len(s) \/ i = Len(s) + 1
  BY <1>1
<1>3. \A i \in 1..Len(s) : i \in 1..(Len(s) + 1)
  BY <1>1
<1>4. Len(s) + 1 \in 1..(Len(s) + 1)
  BY <1>1
<1> QED
  BY <1>1, <1>2, <1>3, <1>4 DEF In

LEMMA InTail ==
    ASSUME NEW S, NEW s \in Seq(S), s # <<>>
    PROVE  /\ s[1] \in S /\ Tail(s) \in Seq(S)
           /\ \A y : In(y, s) => y = s[1] \/ In(y, Tail(s))
           /\ \A y : In(y, Tail(s)) => In(y, s)
<1>1. /\ Tail(s) \in Seq(S) /\ s[1] \in S
      /\ DOMAIN s = 1..Len(s) /\ Len(s) \in Nat
      /\ DOMAIN Tail(s) = 1..(Len(s) - 1)
      /\ \A i \in 1..(Len(s) - 1) : Tail(s)[i] = s[i + 1]
  OBVIOUS
<1>2. \A i \in 1..Len(s) : i = 1 \/ (i - 1 \in 1..(Len(s) - 1) /\ (i - 1) + 1 = i)
  BY <1>1
<1>3. \A i \in 1..(Len(s) - 1) : i + 1 \in 1..Len(s)
  BY <1>1
<1>4. ASSUME NEW y, In(y, s) PROVE y = s[1] \/ In(y, Tail(s))
  <2>1. PICK i \in 1..Len(s) : s[i] = y
    BY <1>1, <1>4 DEF In
  <2>2. CASE i # 1
    <3>1. i - 1 \in 1..(Len(s) - 1) /\ Tail(s)[i - 1] = y
      BY <1>1, <1>2, <2>1, <2>2
    <3> QED
      BY <1>1, <3>1 DEF In
  <2> QED
    BY <2>1, <2>2
<1>5. \A y : In(y, Tail(s)) => In(y, s)
  BY <1>1, <1>3 DEF In
<1> QED
  BY <1>1, <1>4, <1>5

LEMMA InConcat ==
    ASSUME NEW S, NEW s \in Seq(S), NEW t \in Seq(S)
    PROVE  /\ s \o t \in Seq(S)
           /\ \A y : In(y, s \o t) <=> In(y, s) \/ In(y, t)
<1> DEFINE m == Len(s)
           n == Len(t)
           u == s \o t
<1>1. /\ m \in Nat /\ n \in Nat /\ DOMAIN s = 1..m /\ DOMAIN t = 1..n
  BY LenProperties
<1>2. /\ u \in Seq(S) /\ Len(u) = m + n
      /\ \A i \in 1..(m + n) : u[i] = IF i <= m THEN s[i] ELSE t[i - m]
  BY ConcatProperties
<1>3. DOMAIN u = 1..(m + n)
  BY <1>2, LenProperties
<1> HIDE DEF m, n, u
<1>4. \A i \in 1..(m + n) : (i <= m /\ i \in 1..m) \/ (~(i <= m) /\ i - m \in 1..n)
  BY <1>1
<1>5. \A i \in 1..m : i \in 1..(m + n) /\ i <= m
  BY <1>1
<1>6. \A i \in 1..n : i + m \in 1..(m + n) /\ ~(i + m <= m) /\ (i + m) - m = i
  BY <1>1
<1>7. \A y : In(y, u) => In(y, s) \/ In(y, t)
  BY <1>1, <1>2, <1>3, <1>4 DEF In
<1>8. \A y : In(y, s) => In(y, u)
  BY <1>1, <1>2, <1>3, <1>5 DEF In
<1>9. \A y : In(y, t) => In(y, u)
  BY <1>1, <1>2, <1>3, <1>6 DEF In
<1> QED
  BY <1>2, <1>7, <1>8, <1>9 DEF u

\* A directory that is listed after its parent keeps the order.
LEMMA DirsAppend ==
    ASSUME NEW dirs, DirsOrdered(dirs), NEW p \in Paths, ~In(p, dirs),
           p # <<>> => In(Above(p), dirs)
    PROVE  DirsOrdered(Append(dirs, p))
<1> DEFINE n == Len(dirs)
           more == Append(dirs, p)
<1>1. /\ more \in Seq(Paths) /\ dirs \in Seq(Paths)
      /\ DOMAIN dirs = 1..n /\ n \in Nat
      /\ DOMAIN more = 1..(n + 1)
      /\ \A i \in 1..n : more[i] = dirs[i]
      /\ more[n + 1] = p
  BY DEF DirsOrdered
<1>2. \A i \in 1..(n + 1) : i \in 1..n \/ i = n + 1
  BY <1>1
<1>3. \A i \in 1..n : i \in 1..(n + 1) /\ i < n + 1
  BY <1>1
<1>4. \A i \in 1..n : dirs[i] # p
  BY <1>1 DEF In
<1> HIDE DEF more, n
<1>5. IsInjective(more)
  BY <1>1, <1>2, <1>4 DEF DirsOrdered, IsInjective
<1>6. ASSUME NEW j \in DOMAIN more, more[j] # <<>>
      PROVE  \E i \in DOMAIN more : i < j /\ more[i] = Above(more[j])
  <2>1. CASE j = n + 1
    <3>1. PICK i \in 1..n : dirs[i] = Above(p)
      BY <1>1, <1>6, <2>1 DEF In
    <3> QED
      BY <1>1, <1>3, <2>1, <3>1
  <2>2. CASE j \in 1..n
    <3>1. PICK i \in 1..n : i < j /\ dirs[i] = Above(dirs[j])
      BY <1>1, <1>6, <2>2 DEF DirsOrdered
    <3> QED
      BY <1>1, <1>3, <2>2, <3>1
  <2> QED
    BY <1>1, <1>2, <2>1, <2>2
<1> QED
  BY <1>1, <1>5, <1>6 DEF DirsOrdered, more

\* The list Lease.Close works through: everything owned, and every object
\* before the directory it lies in.
ClosesAll(list, files, dirs) ==
    /\ list \in Seq(Paths)
    /\ \A p : In(p, files) \/ In(p, dirs) => In(p, list)
    /\ \A p \in Paths, i \in DOMAIN list :
          /\ p # <<>> /\ list[i] = Above(p) /\ ~In(Above(p), files)
          /\ In(p, files) \/ In(p, dirs)
          => \E k \in DOMAIN list : k < i /\ list[k] = p

LEMMA CloseList ==
    ASSUME NEW files \in Seq(Paths), NEW dirs, DirsOrdered(dirs)
    PROVE  ClosesAll(Reverse(files) \o Reverse(dirs), files, dirs)
<1> DEFINE list == Reverse(files) \o Reverse(dirs)
           m == Len(files)
           n == Len(dirs)
<1>1. /\ dirs \in Seq(Paths) /\ m \in Nat /\ n \in Nat
      /\ DOMAIN files = 1..m /\ DOMAIN dirs = 1..n
      /\ \A i \in 1..m : files[i] \in Paths
      /\ \A i \in 1..n : dirs[i] \in Paths
  BY DEF DirsOrdered
<1>2. /\ Reverse(files) \in Seq(Paths) /\ Len(Reverse(files)) = m
      /\ \A i \in 1..m : Reverse(files)[i] = files[(m - i) + 1]
  <2>1. Reverse(files) = [i \in 1..m |-> files[(m - i) + 1]]
    BY DEF Reverse
  <2>2. \A i \in 1..m : (m - i) + 1 \in 1..m
    BY <1>1
  <2> QED
    BY <1>1, <2>1, <2>2
<1>3. /\ Reverse(dirs) \in Seq(Paths) /\ Len(Reverse(dirs)) = n
      /\ \A i \in 1..n : Reverse(dirs)[i] = dirs[(n - i) + 1]
  <2>1. Reverse(dirs) = [i \in 1..n |-> dirs[(n - i) + 1]]
    BY DEF Reverse
  <2>2. \A i \in 1..n : (n - i) + 1 \in 1..n
    BY <1>1
  <2> QED
    BY <1>1, <2>1, <2>2
<1>4. /\ list \in Seq(Paths) /\ Len(list) = m + n
      /\ \A i \in 1..(m + n) :
            list[i] = IF i <= m THEN Reverse(files)[i] ELSE Reverse(dirs)[i - m]
  <2> DEFINE s == Reverse(files)
             t == Reverse(dirs)
  <2>1. s \in Seq(Paths) /\ t \in Seq(Paths) /\ list = s \o t /\ Len(s) = m /\ Len(t) = n
    BY <1>2, <1>3
  <2> HIDE DEF s, t, m, n
  <2>2. /\ list \in Seq(Paths) /\ Len(list) = Len(s) + Len(t)
        /\ \A i \in 1..(Len(s) + Len(t)) :
              list[i] = IF i <= Len(s) THEN s[i] ELSE t[i - Len(s)]
    BY <2>1, ConcatProperties
  <2>3. /\ list \in Seq(Paths) /\ Len(list) = m + n
        /\ \A i \in 1..(m + n) : list[i] = IF i <= m THEN s[i] ELSE t[i - m]
    BY <2>1, <2>2
  <2> QED
    BY <2>3 DEF s, t
<1> HIDE DEF list
<1>5. DOMAIN list = 1..(m + n)
  BY <1>4
<1>6. ASSUME NEW i \in 1..m
      PROVE  (m - i) + 1 \in DOMAIN list /\ list[(m - i) + 1] = files[i] /\ (m - i) + 1 =< m
  <2>1. (m - i) + 1 \in 1..m /\ (m - ((m - i) + 1)) + 1 = i
    BY <1>1
  <2>2. (m - i) + 1 \in 1..(m + n) /\ (m - i) + 1 =< m
    BY <1>1, <2>1
  <2> QED
    BY <1>2, <1>4, <1>5, <2>1, <2>2
<1>7. ASSUME NEW i \in 1..n
      PROVE  (m + (n - i)) + 1 \in DOMAIN list /\ list[(m + (n - i)) + 1] = dirs[i]
  <2> DEFINE k == (m + (n - i)) + 1
  <2>1. k \in 1..(m + n) /\ ~(k =< m) /\ k - m = (n - i) + 1
    BY <1>1
  <2>2. (n - i) + 1 \in 1..n /\ (n - ((n - i) + 1)) + 1 = i
    BY <1>1
  <2>3. list[k] = Reverse(dirs)[k - m]
    BY <1>4, <2>1
  <2> QED
    BY <1>3, <1>5, <2>1, <2>2, <2>3
<1>8. ASSUME NEW i \in DOMAIN list
      PROVE  \/ i =< m /\ In(list[i], files)
             \/ ~(i =< m) /\ \E j \in 1..n : list[i] = dirs[j] /\ i = (m + (n - j)) + 1
  <2>1. CASE i =< m
    <3>1. i \in 1..m /\ (m - i) + 1 \in 1..m
      BY <1>1, <1>5, <2>1
    <3>2. list[i] = files[(m - i) + 1]
      BY <1>2, <1>4, <1>5, <2>1, <3>1
    <3> QED
      BY <1>1, <2>1, <3>1, <3>2 DEF In
  <2>2. CASE ~(i =< m)
    <3> DEFINE j == (n - (i - m)) + 1
    <3>1. i - m \in 1..n /\ j \in 1..n /\ i = (m + (n - j)) + 1
      BY <1>1, <1>5, <2>2
    <3>2. list[i] = dirs[j]
      BY <1>3, <1>4, <1>5, <2>2, <3>1
    <3> QED
      BY <2>2, <3>1, <3>2
  <2> QED
    BY <2>1, <2>2
<1>9. ASSUME NEW p, In(p, files) \/ In(p, dirs) PROVE In(p, list)
  <2>1. CASE In(p, files)
    BY <1>1, <1>6, <2>1 DEF In
  <2>2. CASE In(p, dirs)
    BY <1>1, <1>7, <2>2 DEF In
  <2> QED
    BY <1>9, <2>1, <2>2
<1>10. ASSUME NEW p \in Paths, NEW i \in DOMAIN list, p # <<>>, list[i] = Above(p),
              ~In(Above(p), files), In(p, files) \/ In(p, dirs)
       PROVE  \E k \in DOMAIN list : k < i /\ list[k] = p
  <2>1. PICK j \in 1..n : list[i] = dirs[j] /\ i = (m + (n - j)) + 1 /\ ~(i =< m)
    BY <1>8, <1>10
  <2>2. CASE In(p, files)
    <3>1. PICK f \in 1..m : files[f] = p
      BY <1>1, <2>2 DEF In
    <3>2. (m - f) + 1 < i
      BY <1>1, <2>1, <3>1
    <3> QED
      BY <1>6, <3>1, <3>2
  <2>3. CASE In(p, dirs)
    <3>1. PICK c \in 1..n : dirs[c] = p
      BY <1>1, <2>3 DEF In
    <3>2. PICK b \in 1..n : b < c /\ dirs[b] = Above(p)
      BY <1>1, <1>10, <3>1 DEF DirsOrdered
    <3>3. b = j
      BY <1>1, <1>10, <2>1, <3>2 DEF DirsOrdered, IsInjective
    <3>4. (m + (n - c)) + 1 < i
      BY <1>1, <2>1, <3>1, <3>2, <3>3
    <3> QED
      BY <1>7, <3>1, <3>4
  <2> QED
    BY <1>10, <2>2, <2>3
<1>11. ClosesAll(list, files, dirs)
  BY <1>4, <1>9, <1>10 DEF ClosesAll
<1> QED
  BY <1>11 DEF list

-----------------------------------------------------------------------------
(***************************************************************************)
(* The registration.                                                       *)
(***************************************************************************)
\* Before the first process there is nothing to undo at GitHub.
Untouched == run = NoRun /\ alive = {} /\ ~remote /\ ~cleanup

\* The part of the state the invariant is about, in its types.
RunInv ==
    /\ pc \in {"inspect", "create", "running", "seal", "ready", "close", "done"}
    /\ run \in [command : {"none", "configure", "remove"}, started : BOOLEAN, ok : BOOLEAN]
    /\ alive \subseteq {"leader", "helper"}
    /\ remote \in BOOLEAN /\ cleanup \in BOOLEAN
    /\ storage \in {"none", "open", "committed", "clean", "failed"}
    /\ registration \in {"none", "open", "committed", "clean", "failed"}
    /\ pc \in {"inspect", "create"} => Untouched
    /\ alive # {} => pc = "running" /\ run.started
    /\ storage = "committed" => pc = "done"

\* A registration was noted, or the process that makes it still runs.
NotedInv ==
    /\ remote => cleanup \/ (pc = "running" /\ run.command = "configure" /\ run.started)
    /\ pc \in {"seal", "ready"} /\ run.started => cleanup
    /\ run.ok => "leader" \notin alive /\ (remote <=> run.command = "configure")

\* The rollback of the store has begun: GitHub agreed, or a failure is noted.
EndedInv ==
    pc \in {"close", "done"} /\ storage # "committed" /\ remote => registration = "failed"

IInv == RunInv /\ NotedInv /\ EndedInv

LEMMA InitInv == Init => IInv
<1> SUFFICES ASSUME Init PROVE IInv
  OBVIOUS
<1>1. run = NoRun /\ alive = {} /\ remote = FALSE /\ cleanup = FALSE /\ pc = "inspect"
      /\ storage = "none" /\ registration = "none"
  BY DEF Init
<1>2. run \in [command : {"none", "configure", "remove"}, started : BOOLEAN, ok : BOOLEAN]
      /\ ~run.ok
  BY <1>1 DEF NoRun
<1> QED
  BY <1>1, <1>2 DEF IInv, RunInv, NotedInv, EndedInv, Untouched

\* The runner's processes.
LEMMA RunnerKeeps == ASSUME IInv, Runner PROVE IInv'
<1> USE DEF IInv, RunInv, NotedInv, EndedInv, Untouched, NoRun
<1>1. CASE RunnerSpawns
  BY <1>1 DEF RunnerSpawns
<1>2. CASE WritesLog \/ WritesState
  <2>1. UNCHANGED <<pc, storage, run, alive, remote, cleanup, registration>>
    BY <1>2 DEF WritesLog, WritesState, RunnerWrites
  <2> QED
    BY <2>1
<1>3. CASE ErasesState
  BY <1>3 DEF ErasesState
<1>4. CASE TalksToGitHub
  BY <1>4 DEF TalksToGitHub
<1>5. CASE LeaderExits
  BY <1>5 DEF LeaderExits, ExitsWell, Outcome
<1> QED
  BY <1>1, <1>2, <1>3, <1>4, <1>5 DEF Runner

\* What the installer starts, and how the last process ends.
LEMMA ProcessKeeps == ASSUME IInv, Configure \/ RunReturns \/ RunCutOff PROVE IInv'
<1> USE DEF IInv, RunInv, NotedInv, EndedInv, Untouched, NoRun
<1>1. CASE Configure
  BY <1>1 DEF Configure, Start
<1>2. CASE RunReturns
  BY <1>2 DEF RunReturns, SealAfterRun, CleanupRequired, JobTerminated
<1>3. CASE RunCutOff
  BY <1>3 DEF RunCutOff, SealAfterRun, CleanupRequired, JobTerminated, Outcome
<1> QED
  BY <1>1, <1>2, <1>3

\* The end of a seal, and the transaction: the remove command, or the store.
LEMMA EndKeeps == ASSUME IInv, SealFails \/ Sealed \/ Abort PROVE IInv'
<1> USE DEF IInv, RunInv, NotedInv, EndedInv, Untouched, NoRun
<1>1. ASSUME pc \in {"seal", "ready"}, CloseRegistration, UNCHANGED <<remote, cleanup, storage>>
      PROVE  IInv'
  <2>1. CASE cleanup
    <3>1. PICK isStarted \in BOOLEAN : Start("remove", isStarted)
      BY <1>1, <2>1 DEF CloseRegistration
    <3>2. /\ run' = [command |-> "remove", started |-> isStarted, ok |-> FALSE]
          /\ pc' = "running" /\ alive' = IF isStarted THEN {"leader"} ELSE {}
      BY <3>1 DEF Start
    <3>3. UNCHANGED registration
      BY <1>1, <2>1 DEF CloseRegistration
    <3> QED
      BY <1>1, <2>1, <3>2, <3>3
  <2>2. CASE ~cleanup
    BY <1>1, <2>2 DEF CloseRegistration, Rollback
  <2> QED
    BY <2>1, <2>2
<1>2. CASE Abort
  BY <1>1, <1>2 DEF Abort
<1>3. ASSUME NEW sealed \in BOOLEAN, SealEnds(sealed) PROVE IInv'
  <2>1. pc = "seal" /\ UNCHANGED <<remote, cleanup, storage>>
    BY <1>3 DEF SealEnds
  <2>2. CASE run.command = "remove"
    BY <1>3, <2>1, <2>2 DEF SealEnds, Rollback
  <2>3. CASE run.command # "remove" /\ (sealed /\ run.ok /\ VerifyRegistrationState)
    BY <1>3, <2>1, <2>3 DEF SealEnds
  <2>4. CASE run.command # "remove" /\ ~(sealed /\ run.ok /\ VerifyRegistrationState)
    <3>1. CloseRegistration
      BY <1>3, <2>4 DEF SealEnds
    <3> QED
      BY <1>1, <2>1, <3>1
  <2> QED
    BY <2>2, <2>3, <2>4
<1> QED
  BY <1>2, <1>3 DEF SealFails, Sealed

\* The store: nothing of it touches the registration.
LEMMA StoreKeeps ==
    ASSUME IInv, Inspect \/ CreateNext \/ SealNext \/ Commit \/ CloseNext \/ Closed
    PROVE  IInv'
<1> USE DEF IInv, RunInv, NotedInv, EndedInv, Untouched, NoRun
<1>1. CASE Inspect
  BY <1>1 DEF Inspect
<1>2. CASE CreateNext
  <2>1. pc = "create" /\ UNCHANGED <<storage, run, alive, remote, cleanup, registration>>
        /\ pc' \in {"create", "close"}
    BY <1>2 DEF CreateNext, Rollback
  <2> QED
    BY <2>1
<1>3. CASE SealNext
  BY <1>3 DEF SealNext
<1>4. CASE Commit
  BY <1>4 DEF Commit
<1>5. CASE CloseNext
  BY <1>5 DEF CloseNext
<1>6. CASE Closed
  BY <1>6 DEF Closed
<1> QED
  BY <1>1, <1>2, <1>3, <1>4, <1>5, <1>6

LEMMA Invariant == Spec => []IInv
<1>1. ASSUME IInv, [Next]_vars PROVE IInv'
  <2>1. CASE UNCHANGED vars
    BY <1>1, <2>1 DEF vars, IInv, RunInv, NotedInv, EndedInv, Untouched
  <2> QED
    BY <1>1, <2>1, RunnerKeeps, ProcessKeeps, EndKeeps, StoreKeeps DEF Next, Installer
<1> QED
  BY InitInv, <1>1, PTL DEF Spec

-----------------------------------------------------------------------------
(***************************************************************************)
(* What the inspection of a package admits, and the image it is            *)
(* extracted to.                                                           *)
(***************************************************************************)
Archive == Seq([path : Paths, dir : BOOLEAN, plain : BOOLEAN])

\* The entry stands for the path: as its own, or as a parent of its file.
Brings(entry, p) == p = entry.path \/ (~entry.dir /\ p \in ParentsOf(entry.path))

LEMMA MetIsBrought ==
    ASSUME NEW a, NEW n, NEW p
    PROVE  p \in Met(a, n) <=> \E i \in 1..n : Brings(a[i], p)
<1>1. p \in Files(a, n) <=> \E i \in 1..n : ~a[i].dir /\ p = a[i].path
  BY DEF Files
<1>2. p \in Explicit(a, n) <=> \E i \in 1..n : a[i].dir /\ p = a[i].path
  BY DEF Explicit
<1>3. p \in Dirs(a, n) <=> \/ p \in Explicit(a, n)
                           \/ \E i \in 1..n : ~a[i].dir /\ p \in ParentsOf(a[i].path)
  BY DEF Dirs, Files
<1> QED
  BY <1>1, <1>2, <1>3 DEF Met, Brings

LEMMA Parents ==
    ASSUME NEW path \in Paths
    PROVE  /\ \A p \in ParentsOf(path) :
                 p \in Paths /\ Len(p) \in 1..(Len(path) - 1) /\ p = SubSeq(path, 1, Len(p))
                 /\ p[1] = path[1]
           /\ Len(path) > 1 => Above(path) \in ParentsOf(path)
           /\ Len(path) = 1 => Above(path) = <<>>
<1>1. path \in Seq(Names) /\ Len(path) \in Nat
  BY DEF Paths
<1>2. ASSUME NEW n \in 1..(Len(path) - 1)
      PROVE  /\ SubSeq(path, 1, n) \in Seq(Names) /\ Len(SubSeq(path, 1, n)) = n
             /\ SubSeq(path, 1, n)[1] = path[1]
  <2>1. n \in Nat /\ n =< Len(path) /\ 1 =< n
    BY <1>1
  <2>2. SubSeq(path, 1, n) = [i \in 1..n |-> path[i]]
    BY <1>1, <2>1
  <2>3. SubSeq(path, 1, n) \in Seq(Names)
    BY <1>1, <2>1
  <2> QED
    BY <2>1, <2>2, <2>3
<1>3. ASSUME NEW p \in ParentsOf(path)
      PROVE  p \in Paths /\ Len(p) \in 1..(Len(path) - 1) /\ p = SubSeq(path, 1, Len(p))
             /\ p[1] = path[1]
  <2>1. PICK n \in 1..(Len(path) - 1) : p = SubSeq(path, 1, n)
    BY <1>3 DEF ParentsOf
  <2> QED
    BY <1>2, <2>1 DEF Paths
<1>4. Len(path) > 1 => Above(path) \in ParentsOf(path)
  <2> SUFFICES ASSUME Len(path) > 1 PROVE Above(path) \in ParentsOf(path)
    OBVIOUS
  <2>1. Len(path) - 1 \in 1..(Len(path) - 1)
    BY <1>1
  <2> QED
    BY <2>1 DEF Above, ParentsOf
<1>5. Len(path) = 1 => Above(path) = <<>>
  <2> SUFFICES ASSUME Len(path) = 1 PROVE Above(path) = <<>>
    OBVIOUS
  <2>1. path # <<>>
    BY EmptySeq
  <2>2. Above(path) \in Seq(Names) /\ Len(Above(path)) = 0
    BY <2>1, AboveShorter DEF Paths
  <2> QED
    BY <2>2, EmptySeq
<1> QED
  BY <1>3, <1>4, <1>5

LEMMA LowerType ==
    ASSUME NEW path \in Paths
    PROVE  Lower(path) \in Paths /\ Len(Lower(path)) = Len(path)
<1>1. path \in Seq(Names) /\ Len(path) \in Nat /\ DOMAIN path = 1..Len(path)
  BY DEF Paths
<1>2. \A i \in 1..Len(path) : Fold[path[i]] \in Names
  BY <1>1, PackageAssumption
<1>3. Lower(path) = [i \in 1..Len(path) |-> Fold[path[i]]]
  BY <1>1 DEF Lower
<1> QED
  BY <1>1, <1>2, <1>3 DEF Paths

LEMMA LowerRoot == Lower(<<>>) = <<>>
<1>1. <<>> \in Paths /\ Len(<<>>) = 0
  BY EmptySeq DEF Paths
<1>2. Lower(<<>>) \in Seq(Names) /\ Len(Lower(<<>>)) = 0
  BY <1>1, LowerType DEF Paths
<1> QED
  BY <1>2, EmptySeq

LEMMA LowerAbove ==
    ASSUME NEW path \in Paths, path # <<>>
    PROVE  Above(Lower(path)) = Lower(Above(path))
<1> DEFINE n == Len(path)
           low == Lower(path)
<1>1. path \in Seq(Names) /\ n \in Nat /\ n # 0 /\ DOMAIN path = 1..n
  BY DEF Paths
<1>2. low \in Seq(Names) /\ Len(low) = n
  BY LowerType DEF Paths
<1>3. \A i \in 1..n : low[i] = Fold[path[i]]
  BY <1>1 DEF Lower
<1>4. Above(low) = [i \in 1..(n - 1) |-> low[i]]
  <2> HIDE DEF low
  <2> QED
    BY <1>1, <1>2 DEF Above
<1>5. Above(path) = [i \in 1..(n - 1) |-> path[i]]
  BY <1>1 DEF Above
<1>6. Lower(Above(path)) = [i \in 1..(n - 1) |-> Fold[path[i]]]
  BY <1>5 DEF Lower
<1>7. \A i \in 1..(n - 1) : i \in 1..n
  BY <1>1
<1> HIDE DEF low, n
<1>8. Above(low) = [i \in 1..(n - 1) |-> Fold[path[i]]]
  BY <1>3, <1>4, <1>7
<1> QED
  BY <1>6, <1>8 DEF low

\* No two paths of the image have the same spelling when folded, no path is
\* a file and a directory, and none lies in the runtime state.
ImageSound(a) ==
    /\ \A p, q \in AllFiles(a) \cup AllDirs(a) : Lower(p) = Lower(q) => p = q
    /\ AllFiles(a) \cap AllDirs(a) = {}
    /\ \A p \in AllFiles(a) \cup AllDirs(a) : Len(p) >= 1 /\ Fold[p[1]] \notin ReservedRoots

LEMMA AcceptedIsSound ==
    ASSUME NEW a \in Archive, Accepted(a)
    PROVE  ImageSound(a)
<1> DEFINE N == Len(a)
<1>1. N \in Nat /\ \A i \in 1..N : a[i].path \in Paths /\ a[i].dir \in BOOLEAN
  <2>1. \A i \in 1..N : a[i] \in [path : Paths, dir : BOOLEAN, plain : BOOLEAN]
    BY ElementOfSeq DEF Archive
  <2> QED
    BY <2>1, LenProperties DEF Archive
<1>2. \A i \in 1..N : Admitted(a, i)
  BY LenProperties DEF Accepted, Archive
<1>3. AllFiles(a) \cup AllDirs(a) = Met(a, N)
  BY DEF AllFiles, AllDirs, Met
<1>4. ASSUME NEW i \in 1..N, NEW p, Brings(a[i], p)
      PROVE  /\ p \in Paths /\ Len(p) \in 1..Len(a[i].path) /\ p[1] = a[i].path[1]
             /\ Len(p) = Len(a[i].path) => p = a[i].path
             /\ Len(p) # Len(a[i].path) => p = SubSeq(a[i].path, 1, Len(p))
  <2>1. a[i].path \in Paths /\ Len(a[i].path) \in Nat /\ Len(a[i].path) >= 1
    <3>1. Len(a[i].path) \in Nat
      BY <1>1, LenProperties DEF Paths
    <3>2. Len(a[i].path) \in 1..MaxPathDepth
      BY <1>2 DEF Admitted, ValidEntry
    <3> QED
      BY <1>1, <3>1, <3>2
  <2>2. CASE p = a[i].path
    BY <2>1, <2>2
  <2>3. CASE p \in ParentsOf(a[i].path)
    BY <2>1, <2>3, Parents
  <2> QED
    BY <1>4, <2>2, <2>3 DEF Brings
\* A path that an earlier entry brought is spelt the same.
<1>5. ASSUME NEW i \in 1..N, NEW j \in 1..N, i < j, NEW p, NEW q,
             Brings(a[i], p), Brings(a[j], q), Lower(p) = Lower(q)
      PROVE  p = q
  <2>1. p \in Met(a, j - 1)
    <3>1. i \in 1..(j - 1)
      BY <1>1, <1>5
    <3> QED
      BY <1>5, <3>1, MetIsBrought
  <2>2. ~Aliased(Met(a, j - 1), q)
    BY <1>2, <1>5 DEF Admitted, Brings, FileAdmitted
  <2> QED
    BY <1>5, <2>1, <2>2 DEF Aliased
<1>6. ASSUME NEW i \in 1..N, NEW p, NEW q, Brings(a[i], p), Brings(a[i], q), Lower(p) = Lower(q)
      PROVE  p = q
  <2>1. Len(p) = Len(q)
    BY <1>4, <1>6, LowerType
  <2> QED
    BY <1>4, <1>6, <2>1
<1>7. ASSUME NEW p \in Met(a, N), NEW q \in Met(a, N), Lower(p) = Lower(q) PROVE p = q
  <2>1. PICK i \in 1..N : Brings(a[i], p)
    BY MetIsBrought
  <2>2. PICK j \in 1..N : Brings(a[j], q)
    BY MetIsBrought
  <2>3. i < j \/ j < i \/ i = j
    BY <1>1
  <2> QED
    BY <1>5, <1>6, <1>7, <2>1, <2>2, <2>3
<1>8. ASSUME NEW p \in AllFiles(a), p \in AllDirs(a) PROVE FALSE
  <2>1. PICK i \in 1..N : ~a[i].dir /\ p = a[i].path
    BY DEF AllFiles, Files
  <2>2. PICK j \in 1..N : IF a[j].dir THEN p = a[j].path ELSE p \in ParentsOf(a[j].path)
    BY <1>8 DEF AllDirs, Dirs, Explicit, Files
  <2>3. CASE j < i
    <3>1. j \in 1..(i - 1)
      BY <1>1, <2>3
    <3>2. p \in Met(a, i - 1)
      BY <2>2, <3>1, MetIsBrought DEF Brings
    <3> QED
      BY <1>2, <2>1, <3>2 DEF Admitted, FileAdmitted
  <2>4. CASE i < j
    <3>1. i \in 1..(j - 1)
      BY <1>1, <2>4
    <3>2. p \in Files(a, j - 1)
      BY <2>1, <3>1 DEF Files
    <3> QED
      BY <1>2, <2>2, <3>2 DEF Admitted, FileAdmitted, DirectoryAdmitted
  <2>5. CASE i = j
    <3>1. p \in Paths /\ p \in ParentsOf(p)
      BY <1>1, <2>1, <2>2, <2>5
    <3>2. Len(p) \in 1..(Len(p) - 1) /\ Len(p) \in Nat
      BY <3>1, Parents, LenProperties DEF Paths
    <3> QED
      BY <3>2
  <2> QED
    BY <1>1, <2>3, <2>4, <2>5
<1>9. ASSUME NEW p \in Met(a, N) PROVE Len(p) >= 1 /\ Fold[p[1]] \notin ReservedRoots
  <2>1. PICK i \in 1..N : Brings(a[i], p)
    BY MetIsBrought
  <2>2. Fold[a[i].path[1]] \notin ReservedRoots
    BY <1>2 DEF Admitted, ValidEntry
  <2>3. Len(p) \in 1..Len(a[i].path) /\ p[1] = a[i].path[1]
    BY <1>4, <2>1
  <2> QED
    BY <2>2, <2>3
<1> QED
  BY <1>3, <1>7, <1>8, <1>9 DEF ImageSound

\* Each object of the list can be created after the ones before it: its name
\* is free, and its parent is there.
Spot(item) == Lower(item.path)
Holds(item, other) == item.dir /\ Spot(item) = Above(Spot(other))

Buildable(s) ==
    \A n \in DOMAIN s :
        /\ \A i \in DOMAIN s : i < n => Spot(s[i]) # Spot(s[n])
        /\ Spot(s[n]) # <<>> => \E i \in DOMAIN s : i < n /\ Holds(s[i], s[n])

Follows(s, t) ==
    \A n \in DOMAIN t :
        /\ \A x : In(x, s) => Spot(x) # Spot(t[n])
        /\ \A i \in DOMAIN t : i < n => Spot(t[i]) # Spot(t[n])
        /\ Spot(t[n]) # <<>> => \/ \E x : In(x, s) /\ Holds(x, t[n])
                                \/ \E i \in DOMAIN t : i < n /\ Holds(t[i], t[n])

LEMMA BuildOn ==
    ASSUME NEW s \in Seq(Item), NEW t \in Seq(Item), Buildable(s), Follows(s, t)
    PROVE  Buildable(s \o t)
<1> DEFINE m == Len(s)
           k == Len(t)
           u == s \o t
<1>1. /\ m \in Nat /\ k \in Nat /\ DOMAIN s = 1..m /\ DOMAIN t = 1..k
  BY LenProperties
<1>2. /\ u \in Seq(Item) /\ Len(u) = m + k
      /\ \A i \in 1..(m + k) : u[i] = IF i <= m THEN s[i] ELSE t[i - m]
  BY ConcatProperties
<1>3. DOMAIN u = 1..(m + k)
  BY <1>2, LenProperties
<1> HIDE DEF m, k, u
<1>4. \A i \in 1..(m + k) : (i <= m /\ i \in 1..m) \/ (~(i <= m) /\ i - m \in 1..k)
  BY <1>1
<1>5. \A i \in 1..m : i \in 1..(m + k) /\ u[i] = s[i]
  BY <1>1, <1>2
<1>6. \A i \in 1..k : i + m \in 1..(m + k) /\ u[i + m] = t[i]
  <2>1. \A i \in 1..k : i + m \in 1..(m + k) /\ ~(i + m <= m) /\ (i + m) - m = i
    BY <1>1
  <2> QED
    BY <1>2, <2>1
<1>7. ASSUME NEW n \in 1..m
      PROVE  /\ \A i \in 1..(m + k) : i < n => Spot(u[i]) # Spot(u[n])
             /\ Spot(u[n]) # <<>> => \E i \in 1..(m + k) : i < n /\ Holds(u[i], u[n])
  <2>1. \A i \in 1..(m + k) : i < n => i \in 1..m
    BY <1>1
  <2>2. \A i \in 1..m : i < n => Spot(s[i]) # Spot(s[n])
    BY <1>1 DEF Buildable
  <2>3. Spot(s[n]) # <<>> => \E i \in 1..m : i < n /\ Holds(s[i], s[n])
    BY <1>1 DEF Buildable
  <2> QED
    BY <1>5, <2>1, <2>2, <2>3
<1>8. ASSUME NEW n \in 1..k
      PROVE  /\ \A i \in 1..(m + k) : i < n + m => Spot(u[i]) # Spot(u[n + m])
             /\ Spot(u[n + m]) # <<>> => \E i \in 1..(m + k) : i < n + m /\ Holds(u[i], u[n + m])
  <2>1. u[n + m] = t[n]
    BY <1>6
  <2>2. ASSUME NEW i \in 1..(m + k), i < n + m PROVE Spot(u[i]) # Spot(t[n])
    <3>1. CASE i <= m
      <4>1. u[i] = s[i] /\ i \in DOMAIN s
        BY <1>1, <1>4, <1>5, <3>1
      <4>2. In(s[i], s)
        BY <4>1 DEF In
      <4> QED
        BY <1>1, <4>1, <4>2 DEF Follows
    <3>2. CASE ~(i <= m)
      <4>1. i - m \in 1..k /\ u[i] = t[i - m] /\ i - m < n
        BY <1>1, <1>2, <1>4, <2>2, <3>2
      <4>2. Spot(t[i - m]) # Spot(t[n])
        BY <1>1, <4>1 DEF Follows
      <4> QED
        BY <4>1, <4>2
    <3> QED
      BY <3>1, <3>2
  <2>3. ASSUME Spot(t[n]) # <<>>
        PROVE  \E i \in 1..(m + k) : i < n + m /\ Holds(u[i], t[n])
    <3>1. CASE \E x : In(x, s) /\ Holds(x, t[n])
      <4>1. PICK i \in 1..m : Holds(s[i], t[n])
        BY <1>1, <3>1 DEF In
      <4>2. i \in 1..(m + k) /\ i < n + m /\ u[i] = s[i]
        BY <1>1, <1>5
      <4> QED
        BY <4>1, <4>2
    <3>2. CASE \E i \in 1..k : i < n /\ Holds(t[i], t[n])
      <4>1. PICK i \in 1..k : i < n /\ Holds(t[i], t[n])
        BY <3>2
      <4>2. i + m \in 1..(m + k) /\ i + m < n + m /\ u[i + m] = t[i]
        BY <1>1, <1>6, <4>1
      <4> QED
        BY <4>1, <4>2
    <3> QED
      BY <1>1, <2>3, <3>1, <3>2 DEF Follows
  <2> QED
    BY <2>1, <2>2, <2>3
<1>9. ASSUME NEW n \in 1..(m + k)
      PROVE  /\ \A i \in 1..(m + k) : i < n => Spot(u[i]) # Spot(u[n])
             /\ Spot(u[n]) # <<>> => \E i \in 1..(m + k) : i < n /\ Holds(u[i], u[n])
  <2>1. CASE n <= m
    <3>1. n \in 1..m
      BY <1>4, <2>1
    <3> QED
      BY <1>7, <3>1
  <2>2. CASE ~(n <= m)
    <3>1. n - m \in 1..k /\ (n - m) + m = n
      BY <1>1, <1>4, <2>2
    <3> DEFINE j == n - m
    <3>2. j \in 1..k /\ j + m = n
      BY <3>1
    <3> HIDE DEF j
    <3>3. /\ \A i \in 1..(m + k) : i < j + m => Spot(u[i]) # Spot(u[j + m])
          /\ Spot(u[j + m]) # <<>> => \E i \in 1..(m + k) : i < j + m /\ Holds(u[i], u[j + m])
      BY <1>8, <3>2
    <3> QED
      BY <3>2, <3>3
  <2> QED
    BY <2>1, <2>2
<1>10. Buildable(u)
  BY <1>3, <1>9 DEF Buildable
<1> QED
  BY <1>10 DEF u

Items(paths, dir) == [i \in DOMAIN paths |-> [path |-> paths[i], dir |-> dir]]

LEMMA ItemsType ==
    ASSUME NEW s \in Seq(Paths), NEW dir \in BOOLEAN
    PROVE  /\ Items(s, dir) \in Seq(Item) /\ DOMAIN Items(s, dir) = DOMAIN s
           /\ \A i \in DOMAIN s : Items(s, dir)[i].path = s[i] /\ Items(s, dir)[i].dir = dir
           /\ \A x : In(x, Items(s, dir)) => In(x.path, s) /\ x.dir = dir
           /\ \A p : In(p, s) => In([path |-> p, dir |-> dir], Items(s, dir))
<1>1. \A i \in 1..Len(s) : [path |-> s[i], dir |-> dir] \in Item
  BY DEF Item
<1>2. DOMAIN s = 1..Len(s) /\ Len(s) \in Nat
  OBVIOUS
<1>3. Items(s, dir) = [i \in 1..Len(s) |-> [path |-> s[i], dir |-> dir]]
  BY <1>2 DEF Items
<1>4. Items(s, dir) \in Seq(Item) /\ DOMAIN Items(s, dir) = DOMAIN s
  BY <1>1, <1>2, <1>3
<1>5. \A i \in DOMAIN s : Items(s, dir)[i] = [path |-> s[i], dir |-> dir]
  BY DEF Items
<1> QED
  BY <1>4, <1>5 DEF In

RootItems == <<[path |-> <<>>, dir |-> TRUE]>>
DirItems == Items(ByDepth(AllDirs(archive)), TRUE)
FileItems == Items(SetToSeq(AllFiles(archive)), FALSE)
RuntimeItems == Items(RuntimeDirs, TRUE)

\* The four parts of the layout, and what they are made of.
LEMMA LayoutParts ==
    ASSUME archive \in Archives
    PROVE  /\ archive \in Archive
           /\ RootItems \in Seq(Item) /\ DirItems \in Seq(Item) /\ FileItems \in Seq(Item)
           /\ RuntimeItems \in Seq(Item) /\ ControlImage \in Seq(Item)
           /\ Layout = (((RootItems \o DirItems) \o FileItems) \o RuntimeItems) \o ControlImage
<1>1. archive \in Archive
  BY StoreAssumption DEF Archive
<1>2. RootItems \in Seq(Item)
  BY DEF RootItems, Item, Paths
<1>3. DirItems \in Seq(Item) /\ FileItems \in Seq(Item)
  <2>1. ByDepth(AllDirs(archive)) \in Seq(Paths)
    <3>1. ByDepth(AllDirs(archive)) \in Seq(AllDirs(archive)) /\ AllDirs(archive) \subseteq Paths
      BY <1>1, ImageOfPackage, ByDepthLists DEF Archive
    <3> QED
      BY <3>1
  <2>2. SetToSeq(AllFiles(archive)) \in Seq(Paths)
    <3>1. SetToSeq(AllFiles(archive)) \in Seq(AllFiles(archive)) /\ AllFiles(archive) \subseteq Paths
      BY <1>1, ImageOfPackage, SetToSeqLists DEF Archive
    <3> QED
      BY <3>1
  <2> QED
    BY <2>1, <2>2, ItemsType DEF DirItems, FileItems
<1>4. RuntimeItems \in Seq(Item)
  BY StoreAssumption, ItemsType DEF RuntimeItems
<1>5. ControlImage \in Seq(Item)
  BY StoreAssumption DEF Item
<1>6. Layout = RootItems \o (DirItems \o FileItems) \o RuntimeItems \o ControlImage
  BY DEF Layout, Extraction, RootItems, DirItems, FileItems, RuntimeItems, Items
<1>7. RootItems \o (DirItems \o FileItems) = (RootItems \o DirItems) \o FileItems
  BY <1>2, <1>3, ConcatAssociative
<1> QED
  BY <1>1, <1>2, <1>3, <1>4, <1>5, <1>6, <1>7

LEMMA RootListed ==
    \A x : In(x, RootItems) <=> x = [path |-> <<>>, dir |-> TRUE]
<1> DEFINE root == [path |-> <<>>, dir |-> TRUE]
<1>1. RootItems = <<root>>
  BY DEF RootItems
<1> HIDE DEF root
<1>2. DOMAIN RootItems = 1..1 /\ RootItems[1] = root
  BY <1>1
<1>3. \A i \in 1..1 : i = 1
  OBVIOUS
<1>4. 1 \in 1..1
  OBVIOUS
<1>5. \A x : In(x, RootItems) <=> x = root
  BY <1>2, <1>3, <1>4 DEF In
<1> QED
  BY <1>5 DEF root

\* An object at the top of the root.
LEMMA AtTop ==
    ASSUME NEW p \in Paths, Len(p) = 1
    PROVE  Lower(p) # <<>> /\ Above(Lower(p)) = <<>> /\ Len(Lower(p)) = 1
<1>1. Lower(p) \in Paths /\ Len(Lower(p)) = 1
  BY LowerType
<1> QED
  BY <1>1, Parents, EmptySeq

LEMMA NotRoot ==
    ASSUME NEW p \in Paths, Len(p) >= 1
    PROVE  Lower(p) # <<>> /\ Lower(p) \in Paths /\ Len(Lower(p)) = Len(p)
           /\ Fold[p[1]] = Lower(p)[1] /\ p # <<>>
<1>1. Lower(p) \in Paths /\ Len(Lower(p)) = Len(p)
  BY LowerType
<1>2. p \in Seq(Names) /\ Len(p) \in Nat /\ 1 \in DOMAIN p
  BY DEF Paths
<1>3. Lower(p)[1] = Fold[p[1]]
  BY <1>2 DEF Lower
<1> QED
  BY <1>1, <1>2, <1>3, EmptySeq

\* The image of a package that was accepted: the directories, after the root.
LEMMA DirsFollow ==
    ASSUME archive \in Archives, ImageSound(archive), ~Orphaned
    PROVE  Follows(RootItems, DirItems)
<1> DEFINE D == AllDirs(archive)
           o == ByDepth(D)
<1>1. D \subseteq Paths /\ IsFiniteSet(D)
  BY LayoutParts, ImageOfPackage DEF Archive
<1>2. /\ o \in Seq(D) /\ \A x \in D : In(x, o)
      /\ IsInjective(o)
      /\ \A i, j \in DOMAIN o : i < j => Len(o[i]) =< Len(o[j])
  <2> HIDE DEF D
  <2> QED
    BY <1>1, ByDepthLists
<1>3. o \in Seq(Paths)
  BY <1>1, <1>2
<1>4. /\ DOMAIN DirItems = DOMAIN o
      /\ \A i \in DOMAIN o : DirItems[i].path = o[i] /\ DirItems[i].dir = TRUE
  BY <1>3, ItemsType DEF DirItems
<1>5. \A i \in DOMAIN o : o[i] \in D /\ i \in Nat
  BY <1>2
<1>6. \A p \in D : Len(p) >= 1 /\ \A q \in D : Lower(p) = Lower(q) => p = q
  BY DEF ImageSound
<1>7. \A x : In(x, RootItems) <=> x = [path |-> <<>>, dir |-> TRUE]
  BY RootListed
<1> HIDE DEF o
<1>8. ASSUME NEW n \in DOMAIN o
      PROVE  /\ \A x : In(x, RootItems) => Spot(x) # Spot(DirItems[n])
             /\ \A i \in DOMAIN o : i < n => Spot(DirItems[i]) # Spot(DirItems[n])
             /\ \/ \E x : In(x, RootItems) /\ Holds(x, DirItems[n])
                \/ \E i \in DOMAIN o : i < n /\ Holds(DirItems[i], DirItems[n])
  <2> DEFINE p == o[n]
  <2>1. p \in D /\ p \in Paths /\ Len(p) >= 1 /\ Len(p) \in Nat
    BY <1>1, <1>5, <1>6, LenProperties DEF Paths
  <2>2. Spot(DirItems[n]) = Lower(p) /\ Lower(p) # <<>>
    BY <1>4, <2>1, NotRoot DEF Spot
  <2>3. \A x : In(x, RootItems) => Spot(x) # Spot(DirItems[n])
    BY <1>7, <2>2, LowerRoot DEF Spot
  <2>4. ASSUME NEW i \in DOMAIN o, i < n PROVE Spot(DirItems[i]) # Spot(DirItems[n])
    <3>1. o[i] # o[n]
      BY <1>2, <1>5, <2>4 DEF IsInjective
    <3> QED
      BY <1>4, <1>5, <1>6, <3>1 DEF Spot
  <2>5. CASE Len(p) = 1
    <3>1. Above(Lower(p)) = <<>>
      BY <2>1, <2>5, AtTop
    <3>2. Holds([path |-> <<>>, dir |-> TRUE], DirItems[n])
      BY <2>2, <3>1, LowerRoot DEF Holds, Spot
    <3> QED
      BY <1>7, <2>3, <2>4, <3>2
  <2>6. CASE Len(p) # 1
    <3>1. p # <<>> /\ Lower(p) \in Paths /\ Len(Lower(p)) = Len(p) /\ Len(p) > 1
      <4> DEFINE m == Len(p)
      <4>2. m >= 1 /\ m \in Nat /\ m # 1
        BY <2>1, <2>6
      <4> HIDE DEF m
      <4>3. m > 1
        BY <4>2
      <4>1. Len(p) > 1
        BY <4>3 DEF m
      <4> HIDE DEF p
      <4> QED
        BY <2>1, <4>1, NotRoot
    <3>2. Above(Lower(p)) \in ParentsOf(Lower(p))
      BY <3>1, Parents
    <3>3. PICK q \in D : Lower(q) = Above(Lower(p))
      BY <2>1, <3>2 DEF Orphaned
    <3>4. PICK i \in DOMAIN o : o[i] = q
      BY <1>2, <3>3 DEF In
    <3>5. Len(q) = Len(p) - 1
      <4>1. Len(Above(Lower(p))) = Len(p) - 1
        BY <2>2, <3>1, AboveShorter
      <4>2. Len(Lower(q)) = Len(q)
        BY <1>1, <3>3, LowerType
      <4> QED
        BY <3>3, <4>1, <4>2
    <3>6. ~(Len(p) =< Len(q))
      BY <2>1, <3>5
    <3>7. i < n
      <4>1. i < n \/ i = n \/ n < i
        BY <1>5
      <4>2. i # n
        BY <2>1, <3>4, <3>5
      <4>3. ~(n < i)
        BY <1>2, <3>4, <3>6
      <4> QED
        BY <4>1, <4>2, <4>3
    <3>8. Holds(DirItems[i], DirItems[n])
      BY <1>4, <2>2, <3>3, <3>4 DEF Holds, Spot
    <3> QED
      BY <2>3, <2>4, <3>7, <3>8
  <2> QED
    BY <2>5, <2>6
<1> QED
  BY <1>4, <1>8 DEF Follows

\* The files, after the directories they lie in.
LEMMA FilesFollow ==
    ASSUME archive \in Archives, ImageSound(archive)
    PROVE  Follows(RootItems \o DirItems, FileItems)
<1> DEFINE D == AllDirs(archive)
           F == AllFiles(archive)
           o == SetToSeq(F)
           s == RootItems \o DirItems
<1>1. D \subseteq Paths /\ F \subseteq Paths /\ IsFiniteSet(D) /\ IsFiniteSet(F)
  BY LayoutParts, ImageOfPackage DEF Archive
<1>2. o \in Seq(F) /\ IsInjective(o)
  <2> HIDE DEF F
  <2> QED
    BY <1>1, SetToSeqLists
<1>3. o \in Seq(Paths)
  BY <1>1, <1>2
<1>4. /\ DOMAIN FileItems = DOMAIN o
      /\ \A i \in DOMAIN o : FileItems[i].path = o[i]
  BY <1>3, ItemsType DEF FileItems
<1>5. \A i \in DOMAIN o : o[i] \in F /\ i \in Nat
  BY <1>2
<1>6. ByDepth(D) \in Seq(D) /\ \A x \in D : In(x, ByDepth(D))
  <2> HIDE DEF D
  <2> QED
    BY <1>1, ByDepthLists
<1>7. /\ \A x : In(x, s) => x = [path |-> <<>>, dir |-> TRUE] \/ x.path \in D
      /\ In([path |-> <<>>, dir |-> TRUE], s)
      /\ \A p \in D : In([path |-> p, dir |-> TRUE], s)
  <2>1. \A x : In(x, RootItems) <=> x = [path |-> <<>>, dir |-> TRUE]
    BY RootListed
  <2>2. \A x : In(x, s) <=> In(x, RootItems) \/ In(x, DirItems)
    BY LayoutParts, InConcat
  <2>3. ByDepth(D) \in Seq(Paths)
    BY <1>1, <1>6
  <2>4. /\ \A x : In(x, DirItems) => In(x.path, ByDepth(D)) /\ x.dir = TRUE
        /\ \A p : In(p, ByDepth(D)) => In([path |-> p, dir |-> TRUE], DirItems)
    BY <2>3, ItemsType DEF DirItems
  <2>5. \A p : In(p, ByDepth(D)) => p \in D
    BY <1>6, ElementOfSeq DEF In
  <2> HIDE DEF s, D
  <2> QED
    BY <1>6, <2>1, <2>2, <2>4, <2>5
<1> HIDE DEF o, s
<1>8. ASSUME NEW n \in DOMAIN o
      PROVE  /\ \A x : In(x, s) => Spot(x) # Spot(FileItems[n])
             /\ \A i \in DOMAIN o : i < n => Spot(FileItems[i]) # Spot(FileItems[n])
             /\ \E x : In(x, s) /\ Holds(x, FileItems[n])
  <2> DEFINE p == o[n]
  <2>1. p \in F /\ p \in Paths /\ Len(p) >= 1 /\ Len(p) \in Nat
    BY <1>1, <1>5, LenProperties DEF Paths, ImageSound
  <2>2. Spot(FileItems[n]) = Lower(p) /\ Lower(p) # <<>> /\ p # <<>>
    BY <1>4, <2>1, NotRoot DEF Spot
  <2>3. ASSUME NEW x, In(x, s) PROVE Spot(x) # Lower(p)
    <3>1. CASE x = [path |-> <<>>, dir |-> TRUE]
      BY <2>2, <3>1, LowerRoot DEF Spot
    <3>2. CASE x.path \in D
      BY <2>1, <3>2 DEF Spot, ImageSound
    <3> QED
      BY <1>7, <2>3, <3>1, <3>2
  <2>4. ASSUME NEW i \in DOMAIN o, i < n PROVE Spot(FileItems[i]) # Lower(p)
    <3>1. o[i] # o[n]
      BY <1>2, <1>5, <2>4 DEF IsInjective
    <3>2. o[i] \in F
      BY <1>5
    <3> QED
      BY <1>4, <2>1, <3>1, <3>2 DEF Spot, ImageSound
  <2>5. \E x : In(x, s) /\ Holds(x, FileItems[n])
    <3>1. CASE Len(p) = 1
      <4>1. Above(Lower(p)) = <<>>
        BY <2>1, <3>1, AtTop
      <4>2. Holds([path |-> <<>>, dir |-> TRUE], FileItems[n])
        BY <2>2, <4>1, LowerRoot DEF Holds, Spot
      <4> QED
        BY <1>7, <4>2
    <3>2. CASE Len(p) # 1
      <4>1. Above(p) \in ParentsOf(p)
        <5> DEFINE m == Len(p)
        <5>2. m >= 1 /\ m \in Nat /\ m # 1
          BY <2>1, <3>2
        <5> HIDE DEF m
        <5>3. m > 1
          BY <5>2
        <5>1. Len(p) > 1
          BY <5>3 DEF m
        <5> HIDE DEF p
        <5> QED
          BY <2>1, <5>1, Parents
      <4>2. Above(p) \in D
        BY <2>1, <4>1 DEF AllDirs, Dirs, AllFiles
      <4>3. Lower(Above(p)) = Above(Lower(p))
        BY <2>1, <2>2, LowerAbove
      <4>4. Holds([path |-> Above(p), dir |-> TRUE], FileItems[n])
        BY <2>2, <4>3 DEF Holds, Spot
      <4> QED
        BY <1>7, <4>2, <4>4
    <3> QED
      BY <3>1, <3>2
  <2> QED
    BY <2>2, <2>3, <2>4, <2>5
<1> QED
  BY <1>4, <1>8 DEF Follows, s

\* What the image of the package puts into the root.
LEMMA ImageListed ==
    ASSUME archive \in Archives, NEW x, In(x, (RootItems \o DirItems) \o FileItems)
    PROVE  x = [path |-> <<>>, dir |-> TRUE] \/ x.path \in AllFiles(archive) \cup AllDirs(archive)
<1> DEFINE D == AllDirs(archive)
           F == AllFiles(archive)
<1>1. D \subseteq Paths /\ F \subseteq Paths /\ IsFiniteSet(D) /\ IsFiniteSet(F)
  BY LayoutParts, ImageOfPackage DEF Archive
<1>2. ByDepth(D) \in Seq(D) /\ SetToSeq(F) \in Seq(F)
  <2> HIDE DEF D, F
  <2> QED
    BY <1>1, ByDepthLists, SetToSeqLists
<1>3. ByDepth(D) \in Seq(Paths) /\ SetToSeq(F) \in Seq(Paths)
  BY <1>1, <1>2
<1>4. RootItems \o DirItems \in Seq(Item)
  BY LayoutParts, InConcat
<1>5. In(x, RootItems) \/ In(x, DirItems) \/ In(x, FileItems)
  BY <1>4, LayoutParts, InConcat
<1>6. CASE In(x, RootItems)
  BY <1>6, RootListed
<1>7. CASE In(x, DirItems)
  <2>1. In(x.path, ByDepth(D))
    BY <1>3, <1>7, ItemsType DEF DirItems
  <2> QED
    BY <1>2, <2>1, ElementOfSeq DEF In
<1>8. CASE In(x, FileItems)
  <2>1. In(x.path, SetToSeq(F))
    BY <1>3, <1>8, ItemsType DEF FileItems
  <2> QED
    BY <1>2, <2>1, ElementOfSeq DEF In
<1> QED
  BY <1>5, <1>6, <1>7, <1>8

LEMMA RootStays ==
    ASSUME archive \in Archives
    PROVE  /\ (RootItems \o DirItems) \o FileItems \in Seq(Item)
           /\ In([path |-> <<>>, dir |-> TRUE], (RootItems \o DirItems) \o FileItems)
<1> DEFINE root == [path |-> <<>>, dir |-> TRUE]
           s == RootItems \o DirItems
           t == s \o FileItems
<1>1. In(root, RootItems)
  BY RootListed
<1> HIDE DEF root
<1>2. s \in Seq(Item) /\ In(root, s)
  BY <1>1, LayoutParts, InConcat
<1> HIDE DEF s
<1>3. t \in Seq(Item) /\ In(root, t)
  BY <1>2, LayoutParts, InConcat
<1> QED
  BY <1>3 DEF s, root

\* The work and the response directory, whose names are reserved.
LEMMA RuntimeFollows ==
    ASSUME archive \in Archives, ImageSound(archive)
    PROVE  Follows((RootItems \o DirItems) \o FileItems, RuntimeItems)
<1> DEFINE s == (RootItems \o DirItems) \o FileItems
           root == [path |-> <<>>, dir |-> TRUE]
<1>1. AllFiles(archive) \cup AllDirs(archive) \subseteq Paths
  BY LayoutParts, ImageOfPackage DEF Archive
<1>2. /\ \A x : In(x, s) => x = root \/ x.path \in AllFiles(archive) \cup AllDirs(archive)
      /\ In(root, s)
  BY RootStays, ImageListed
<1>3. /\ DOMAIN RuntimeItems = DOMAIN RuntimeDirs
      /\ \A i \in DOMAIN RuntimeDirs : RuntimeItems[i].path = RuntimeDirs[i]
  BY ItemsType, StoreAssumption DEF RuntimeItems
<1> HIDE DEF s
<1>4. ASSUME NEW n \in DOMAIN RuntimeDirs
      PROVE  /\ \A x : In(x, s) => Spot(x) # Spot(RuntimeItems[n])
             /\ \A i \in DOMAIN RuntimeDirs : i < n => Spot(RuntimeItems[i]) # Spot(RuntimeItems[n])
             /\ Holds(root, RuntimeItems[n])
  <2>1. PICK p : p = RuntimeDirs[n]
    OBVIOUS
  <2>2. p \in Paths /\ Len(p) = 1 /\ Fold[p[1]] \in ReservedRoots
    BY <2>1, StoreAssumption, ImageAssumption, ElementOfSeq
  <2>3. /\ Spot(RuntimeItems[n]) = Lower(p) /\ Lower(p) # <<>> /\ Above(Lower(p)) = <<>>
        /\ Fold[p[1]] = Lower(p)[1]
    BY <1>3, <2>1, <2>2, AtTop, NotRoot DEF Spot
  <2>4. ASSUME NEW x, In(x, s) PROVE Spot(x) # Lower(p)
    <3>1. CASE x = root
      BY <2>3, <3>1, LowerRoot DEF Spot
    <3>2. CASE x.path \in AllFiles(archive) \cup AllDirs(archive)
      <4>1. x.path \in Paths /\ Len(x.path) >= 1 /\ Fold[x.path[1]] \notin ReservedRoots
        BY <1>1, <3>2 DEF ImageSound
      <4>2. Lower(x.path)[1] \notin ReservedRoots
        BY <4>1, NotRoot
      <4> QED
        BY <2>2, <2>3, <4>2 DEF Spot
    <3> QED
      BY <1>2, <2>4, <3>1, <3>2
  <2>5. ASSUME NEW i \in DOMAIN RuntimeDirs, i < n PROVE Spot(RuntimeItems[i]) # Lower(p)
    <3>1. i # n
      <4>1. n \in Nat /\ i \in Nat
        BY StoreAssumption
      <4> QED
        BY <2>5, <4>1
    <3> QED
      BY <1>3, <2>1, <3>1, ImageAssumption DEF Spot
  <2>6. Holds(root, RuntimeItems[n])
    BY <2>3, LowerRoot DEF Holds, Spot
  <2> QED
    BY <2>3, <2>4, <2>5, <2>6
<1>5. ASSUME NEW n \in DOMAIN RuntimeDirs
      PROVE  \E x : In(x, s) /\ Holds(x, RuntimeItems[n])
  BY <1>2, <1>4
<1> QED
  BY <1>3, <1>4, <1>5 DEF Follows, s

\* The directory and the file of the control image.
LEMMA ControlFollows ==
    ASSUME archive \in Archives, ImageSound(archive), ~Orphaned, ~ControlRootTaken
    PROVE  Follows(((RootItems \o DirItems) \o FileItems) \o RuntimeItems, ControlImage)
<1> DEFINE r == (RootItems \o DirItems) \o FileItems
           s == r \o RuntimeItems
           root == [path |-> <<>>, dir |-> TRUE]
           image == AllFiles(archive) \cup AllDirs(archive)
<1>1. image \subseteq Paths
  BY LayoutParts, ImageOfPackage DEF Archive
<1>2. /\ \A x : In(x, s) => \/ x = root \/ x.path \in image
                            \/ In(x.path, RuntimeDirs)
      /\ In(root, s)
  <2>2. r \in Seq(Item) /\ In(root, r)
    BY RootStays
  <2>3. \A x : In(x, s) <=> In(x, r) \/ In(x, RuntimeItems)
    <3> HIDE DEF r
    <3> QED
      BY <2>2, LayoutParts, InConcat
  <2>4. \A x : In(x, RuntimeItems) => In(x.path, RuntimeDirs)
    BY ItemsType, StoreAssumption DEF RuntimeItems
  <2>5. \A x : In(x, r) => x = root \/ x.path \in image
    BY ImageListed
  <2> HIDE DEF r, s, image
  <2> QED
    BY <2>2, <2>3, <2>4, <2>5
<1> HIDE DEF s, r
<1>3. PICK top, below : top = ControlImage[1].path /\ below = ControlImage[2].path
  OBVIOUS
<1>4. DOMAIN ControlImage = 1..2
  BY StoreAssumption, ImageAssumption
<1>5. /\ top \in Paths /\ Len(top) = 1 /\ below \in Paths /\ Len(below) = 2
      /\ Above(below) = top /\ ControlImage[1].dir
  <2>1. /\ ControlImage[1] \in [path : Paths, dir : BOOLEAN]
        /\ ControlImage[2] \in [path : Paths, dir : BOOLEAN]
    <3> DEFINE S == [path : Paths, dir : BOOLEAN]
    <3>1. ControlImage \in Seq(S)
      BY StoreAssumption
    <3> HIDE DEF S
    <3>2. \A i \in DOMAIN ControlImage : ControlImage[i] \in S
      BY <3>1
    <3> USE DEF S
    <3>3. 1 \in 1..2 /\ 2 \in 1..2
      OBVIOUS
    <3> QED
      BY <1>4, <3>2, <3>3
  <2> QED
    BY <1>3, <2>1, ImageAssumption
<1>6. /\ Lower(top) # <<>> /\ Above(Lower(top)) = <<>> /\ Len(Lower(top)) = 1
      /\ Lower(below) # <<>> /\ Len(Lower(below)) = 2 /\ Lower(below) \in Paths
      /\ Above(Lower(below)) = Lower(top)
  <2>1. Len(below) >= 1
    BY <1>5
  <2>2. Lower(below) # <<>> /\ Len(Lower(below)) = Len(below) /\ Lower(below) \in Paths
        /\ below # <<>>
    BY <1>5, <2>1, NotRoot
  <2> QED
    BY <1>5, <2>2, AtTop, LowerAbove
<1>7. \A p \in image : Lower(p) # Lower(top)
  BY <1>3 DEF ControlRootTaken
<1>8. ASSUME NEW p \in image, Lower(p) = Lower(below) PROVE FALSE
  <2>1. p \in Paths /\ p # <<>> /\ Len(p) = 2
    <3>1. p \in Paths /\ Len(Lower(p)) = Len(p)
      BY <1>1, LowerType
    <3>2. Len(p) = 2
      BY <1>6, <1>8, <3>1
    <3>3. Len(<<>>) # 2
      OBVIOUS
    <3> QED
      BY <3>1, <3>2, <3>3
  <2>2. Lower(Above(p)) = Lower(top)
    BY <1>6, <1>8, <2>1, LowerAbove
  <2>3. CASE p \in AllFiles(archive)
    <3>1. Above(p) \in ParentsOf(p)
      BY <2>1, Parents
    <3>2. Above(p) \in AllDirs(archive)
      BY <2>3, <3>1 DEF AllDirs, Dirs, AllFiles
    <3> QED
      BY <1>7, <2>2, <3>2
  <2>4. CASE p \in AllDirs(archive)
    <3>1. Above(Lower(p)) \in ParentsOf(Lower(p))
      BY <1>6, <1>8, Parents
    <3>2. PICK q \in AllDirs(archive) : Lower(q) = Above(Lower(p))
      BY <2>4, <3>1 DEF Orphaned
    <3> QED
      BY <1>6, <1>7, <1>8, <3>2
  <2> QED
    BY <1>8, <2>3, <2>4
<1>9. ASSUME NEW x, In(x, s) PROVE Spot(x) # Lower(top) /\ Spot(x) # Lower(below)
  <2>1. CASE x = root
    BY <1>6, <2>1, LowerRoot DEF Spot
  <2>2. CASE x.path \in image
    BY <1>7, <1>8, <2>2 DEF Spot
  <2>3. CASE In(x.path, RuntimeDirs)
    <3>1. PICK i \in DOMAIN RuntimeDirs : RuntimeDirs[i] = x.path
      BY <2>3 DEF In
    <3>2. x.path \in Paths /\ Len(x.path) = 1 /\ Lower(x.path) # Lower(top)
      BY <1>3, <3>1, StoreAssumption, ImageAssumption, ElementOfSeq
    <3>3. Len(Lower(x.path)) = 1
      BY <3>2, LowerType
    <3> QED
      BY <1>6, <3>2, <3>3 DEF Spot
  <2> QED
    BY <1>2, <1>9, <2>1, <2>2, <2>3
<1>10. Spot(ControlImage[1]) = Lower(top) /\ Spot(ControlImage[2]) = Lower(below)
  BY <1>3 DEF Spot
<1>11. Holds(root, ControlImage[1]) /\ Holds(ControlImage[1], ControlImage[2])
  BY <1>5, <1>6, <1>10, LowerRoot DEF Holds, Spot
<1>12. Spot(ControlImage[1]) # Spot(ControlImage[2])
  BY <1>6, <1>10
<1>13. \A n \in 1..2 : n = 1 \/ n = 2
  OBVIOUS
<1>14. 1 \in 1..2 /\ 1 < 2 /\ ~(1 < 1) /\ ~(2 < 1) /\ ~(2 < 2)
  OBVIOUS
<1> HIDE DEF image
<1>15. ASSUME NEW n \in 1..2
       PROVE  /\ \A x : In(x, s) => Spot(x) # Spot(ControlImage[n])
              /\ \A i \in 1..2 : i < n => Spot(ControlImage[i]) # Spot(ControlImage[n])
              /\ \/ \E x : In(x, s) /\ Holds(x, ControlImage[n])
                 \/ \E i \in 1..2 : i < n /\ Holds(ControlImage[i], ControlImage[n])
  <2>1. \A x : In(x, s) => Spot(x) # Spot(ControlImage[n])
    BY <1>9, <1>10, <1>13
  <2>2. \A i \in 1..2 : i < n => Spot(ControlImage[i]) # Spot(ControlImage[n])
    BY <1>12, <1>13, <1>14
  <2>3. CASE n = 1
    BY <1>2, <1>11, <2>1, <2>2, <2>3
  <2>4. CASE n = 2
    BY <1>11, <1>14, <2>1, <2>2, <2>4
  <2> QED
    BY <1>13, <2>3, <2>4
<1> QED
  BY <1>4, <1>15 DEF Follows, s, r

LEMMA LayoutBuildable ==
    ASSUME archive \in Archives, Accepted(archive), ~Orphaned, ~ControlRootTaken
    PROVE  Buildable(Layout)
<1>1. ImageSound(archive)
  BY LayoutParts, AcceptedIsSound
<1>2. Buildable(RootItems)
  <2>1. DOMAIN RootItems = 1..1 /\ RootItems[1].path = <<>>
    BY DEF RootItems
  <2>2. \A n \in 1..1 : n = 1 /\ ~(n < n)
    OBVIOUS
  <2> QED
    BY <2>1, <2>2, LowerRoot DEF Buildable, Spot
<1> DEFINE s == RootItems \o DirItems
           t == s \o FileItems
           u == t \o RuntimeItems
<1>3. s \in Seq(Item) /\ Buildable(s)
  BY <1>1, <1>2, LayoutParts, InConcat, BuildOn, DirsFollow
<1>4. t \in Seq(Item) /\ Buildable(t)
  <2>1. Follows(s, FileItems)
    BY <1>1, FilesFollow
  <2> HIDE DEF s
  <2> QED
    BY <1>3, <2>1, LayoutParts, InConcat, BuildOn
<1>5. u \in Seq(Item) /\ Buildable(u)
  <2>1. Follows(t, RuntimeItems)
    BY <1>1, RuntimeFollows
  <2> HIDE DEF t
  <2> QED
    BY <1>4, <2>1, LayoutParts, InConcat, BuildOn
<1>6. Follows(u, ControlImage)
  BY <1>1, ControlFollows
<1>7. Layout = u \o ControlImage
  BY LayoutParts
<1> HIDE DEF u
<1> QED
  BY <1>5, <1>6, <1>7, LayoutParts, BuildOn

-----------------------------------------------------------------------------
(***************************************************************************)
(* What the store holds, phase by phase.                                   *)
(***************************************************************************)
\* The object has its descriptor and an owner of its kind.
Good(p) == disk[p].sealed /\ IF disk[p].dir THEN OwnsDir(p) ELSE OwnsFile(p)
AllGood == \A p \in DOMAIN disk : Good(p)
AllWhole == \A p \in DOMAIN disk : disk[p].whole

Made(item) == Lower(item.path) \in DOMAIN disk /\ disk[Lower(item.path)].dir = item.dir
AllMade == \A i \in DOMAIN Layout : Made(Layout[i])

TreeInv ==
    /\ TreeOf(disk)
    /\ <<>> \in DOMAIN disk => OwnsDir(<<>>) /\ disk[<<>>].sealed

\* The lease knows directories from files, and lists parents first.
LeaseInv ==
    /\ lease \in [files : Seq(Paths), dirs : Seq(Paths)]
    /\ DirsOrdered(lease.dirs)
    /\ \A p \in DOMAIN disk : (OwnsDir(p) => disk[p].dir) /\ (OwnsFile(p) => ~disk[p].dir)

\* Until the rollback, only state files of the runner are owned and gone.
KeptInv ==
    /\ \A p : OwnsDir(p) => p \in DOMAIN disk
    /\ \A p : OwnsFile(p) => p \in DOMAIN disk \cup StateFiles

CreateInv ==
    /\ todo \in Seq(Item)
    /\ <<>> \in DOMAIN disk \/ todo = Layout
    /\ AllGood /\ AllWhole
    /\ \A p : OwnsFile(p) => p \in DOMAIN disk
    /\ \A i \in DOMAIN Layout : Made(Layout[i]) \/ In(Layout[i], todo)

\* What was taken from the layout so far is what the store holds.
Reached(n, layout, rest, d) ==
    /\ rest \in Seq(Item) /\ Len(rest) = Len(layout) - n
    /\ \A k \in 1..Len(rest) : rest[k] = layout[k + n]
    /\ DOMAIN d = {Spot(layout[i]) : i \in 1..n}
    /\ \A i \in 1..n : d[Spot(layout[i])].dir = layout[i].dir

ProgressInv == /\ Accepted(archive)
               /\ \E n \in 0..Len(Layout) : Reached(n, Layout, todo, disk)

PresentInv ==
    /\ <<>> \in DOMAIN disk /\ AllWhole
    /\ run.command # "none"
    /\ run.command = "configure" => AllMade

\* Some objects were visited, the root among them; all others hang on an
\* object that is visited yet.
SealInv ==
    /\ todo \in Seq(Paths)
    /\ \A p : In(p, todo) => p \in DOMAIN disk /\ p # <<>> /\ OwnsDir(Above(p))
    /\ \E visited \in SUBSET DOMAIN disk :
           /\ <<>> \in visited /\ \A p \in visited : Good(p)
           /\ \A p \in DOMAIN disk :
                  p # <<>> /\ Above(p) \in visited => p \in visited \/ In(p, todo)

SettledInv == AllGood /\ AllWhole /\ AllMade /\ StateFiles \subseteq DOMAIN disk /\ remote

\* An object is removed before the directory it lies in.
InsideOut == \A p \in DOMAIN disk, i \in DOMAIN todo :
    p # <<>> /\ todo[i] = Above(p) => \E k \in DOMAIN todo : k < i /\ todo[k] = p

CloseInv ==
    /\ todo \in Seq(Paths)
    /\ failed \/ DOMAIN disk = {} \/ In(<<>>, todo)
    /\ refused \/ (~failed /\ AllGood /\ InsideOut /\ \A p \in DOMAIN disk : In(p, todo))

PhaseInv ==
    /\ archive \in Archives /\ refused \in BOOLEAN /\ failed \in BOOLEAN
    /\ pc = "inspect" => DOMAIN disk = {} /\ lease = Owned(<<>>, <<>>)
    /\ pc \in {"create", "running", "seal", "ready"} => KeptInv
    /\ pc = "create" => CreateInv /\ ProgressInv
    /\ pc \in {"running", "seal", "ready"} => PresentInv
    /\ pc = "seal" => SealInv
    /\ pc = "ready" \/ storage = "committed" => SettledInv
    /\ pc = "close" => CloseInv
    /\ storage = "clean" => pc = "done" /\ DOMAIN disk = {}
    /\ storage = "failed" => pc = "done" /\ refused

StoreInv == TreeInv /\ LeaseInv /\ PhaseInv

LEMMA OwnsIsIn ==
    /\ \A p : OwnsDir(p) <=> In(p, lease.dirs)
    /\ \A p : OwnsFile(p) <=> In(p, lease.files)
BY DEF OwnsDir, OwnsFile, In

LEMMA LeaseRecord ==
    ASSUME NEW files \in Seq(Paths), NEW dirs \in Seq(Paths), NEW l,
           l = [files |-> files, dirs |-> dirs]
    PROVE  l \in [files : Seq(Paths), dirs : Seq(Paths)] /\ l.files = files /\ l.dirs = dirs
<1> DEFINE S == Seq(Paths)
<1>1. files \in S /\ dirs \in S
  OBVIOUS
<1> HIDE DEF S
<1>2. l \in [files : S, dirs : S] /\ l.files = files /\ l.dirs = dirs
  BY <1>1
<1> QED
  BY <1>2 DEF S

\* An object becomes the lease's: what the lease knows stays right.
LEMMA OwnKeeps ==
    ASSUME LeaseInv, NEW p \in Paths, NEW dir \in BOOLEAN,
           lease' = IF dir THEN [lease EXCEPT !.dirs = Append(@, p)]
                           ELSE [lease EXCEPT !.files = Append(@, p)],
           p \in DOMAIN disk', disk'[p].dir = dir,
           OwnsDir(p) => dir, OwnsFile(p) => ~dir,
           dir => ~OwnsDir(p) /\ (p # <<>> => OwnsDir(Above(p))),
           \A q \in DOMAIN disk' : q # p => q \in DOMAIN disk /\ disk'[q].dir = disk[q].dir
    PROVE  /\ LeaseInv'
           /\ \A q : OwnsDir(q)' <=> OwnsDir(q) \/ (q = p /\ dir)
           /\ \A q : OwnsFile(q)' <=> OwnsFile(q) \/ (q = p /\ ~dir)
<1>1. lease.files \in Seq(Paths) /\ lease.dirs \in Seq(Paths) /\ DirsOrdered(lease.dirs)
  BY DEF LeaseInv
<1>2. CASE dir
  <2>1. lease' = [files |-> lease.files, dirs |-> Append(lease.dirs, p)]
    BY <1>2 DEF LeaseInv
  <2>2. DirsOrdered(Append(lease.dirs, p))
    BY <1>1, <1>2, DirsAppend, OwnsIsIn
  <2>3. /\ Append(lease.dirs, p) \in Seq(Paths)
        /\ \A q : In(q, Append(lease.dirs, p)) <=> In(q, lease.dirs) \/ q = p
    BY <1>1, InAppend
  <2>4. /\ \A q : OwnsDir(q)' <=> OwnsDir(q) \/ (q = p /\ dir)
        /\ \A q : OwnsFile(q)' <=> OwnsFile(q) \/ (q = p /\ ~dir)
    BY <1>2, <2>1, <2>3 DEF OwnsDir, OwnsFile, In
  <2>5. \A q \in DOMAIN disk' : (OwnsDir(q)' => disk'[q].dir) /\ (OwnsFile(q)' => ~disk'[q].dir)
    BY <1>2, <2>4 DEF LeaseInv
  <2>6. lease' \in [files : Seq(Paths), dirs : Seq(Paths)] /\ lease'.dirs = Append(lease.dirs, p)
    <3> DEFINE a == lease.files
               b == Append(lease.dirs, p)
    <3>1. a \in Seq(Paths) /\ b \in Seq(Paths) /\ lease' = [files |-> a, dirs |-> b]
      BY <1>1, <2>1, <2>3
    <3> HIDE DEF a, b
    <3>2. lease' \in [files : Seq(Paths), dirs : Seq(Paths)] /\ lease'.dirs = b
      BY <3>1, LeaseRecord
    <3> QED
      BY <3>2 DEF b
  <2> QED
    BY <2>2, <2>4, <2>5, <2>6 DEF LeaseInv
<1>3. CASE ~dir
  <2>1. lease' = [files |-> Append(lease.files, p), dirs |-> lease.dirs]
    BY <1>3 DEF LeaseInv
  <2>2. /\ Append(lease.files, p) \in Seq(Paths)
        /\ \A q : In(q, Append(lease.files, p)) <=> In(q, lease.files) \/ q = p
    BY <1>1, InAppend
  <2>3. /\ \A q : OwnsDir(q)' <=> OwnsDir(q) \/ (q = p /\ dir)
        /\ \A q : OwnsFile(q)' <=> OwnsFile(q) \/ (q = p /\ ~dir)
    BY <1>3, <2>1, <2>2 DEF OwnsDir, OwnsFile, In
  <2>4. \A q \in DOMAIN disk' : (OwnsDir(q)' => disk'[q].dir) /\ (OwnsFile(q)' => ~disk'[q].dir)
    BY <1>3, <2>3 DEF LeaseInv
  <2>5. lease' \in [files : Seq(Paths), dirs : Seq(Paths)] /\ lease'.dirs = lease.dirs
    <3> DEFINE a == Append(lease.files, p)
               b == lease.dirs
    <3>1. a \in Seq(Paths) /\ b \in Seq(Paths) /\ lease' = [files |-> a, dirs |-> b]
      BY <1>1, <2>1, <2>2
    <3> HIDE DEF a, b
    <3>2. lease' \in [files : Seq(Paths), dirs : Seq(Paths)] /\ lease'.dirs = b
      BY <3>1, LeaseRecord
    <3> QED
      BY <3>2 DEF b
  <2> QED
    BY <1>1, <2>3, <2>4, <2>5 DEF LeaseInv
<1> QED
  BY <1>2, <1>3

\* A store without its root holds nothing.
LEMMA NoRootNoStore ==
    ASSUME NEW d, TreeOf(d), <<>> \notin DOMAIN d
    PROVE  DOMAIN d = {}
<1>1. <<>> \in DOMAIN d => <<>> \in {}
  OBVIOUS
<1>2. \A p \in DOMAIN d : p # <<>> /\ Above(p) \in {} => p \in {}
  OBVIOUS
<1>3. DOMAIN d \subseteq {}
  BY <1>1, <1>2, TreeInduction
<1> QED
  BY <1>3

\* The rollback of the store begins with all it owns, inside out.
LEMMA RollbackBegins ==
    ASSUME TreeInv', LeaseInv', Rollback, refused' \in BOOLEAN, refused' \/ AllGood'
    PROVE  CloseInv'
<1>1. /\ lease'.files \in Seq(Paths) /\ DirsOrdered(lease'.dirs)
      /\ todo' = Reverse(lease'.files) \o Reverse(lease'.dirs) /\ failed' = FALSE
  BY DEF LeaseInv, Rollback
<1>2. ClosesAll(todo', lease'.files, lease'.dirs)
  BY <1>1, CloseList
<1>3. /\ \A p : OwnsDir(p)' <=> In(p, lease'.dirs)
      /\ \A p : OwnsFile(p)' <=> In(p, lease'.files)
  BY DEF OwnsDir, OwnsFile, In
<1>4. DOMAIN disk' = {} \/ In(<<>>, todo')
  <2>1. CASE <<>> \in DOMAIN disk'
    BY <1>2, <1>3, <2>1 DEF TreeInv, ClosesAll
  <2>2. CASE <<>> \notin DOMAIN disk'
    <3>1. TreeOf(disk')
      BY DEF TreeInv
    <3> QED
      BY <2>2, <3>1, NoRootNoStore
  <2> QED
    BY <2>1, <2>2
<1>5. CASE AllGood'
  <2>1. ASSUME NEW p \in DOMAIN disk' PROVE In(p, lease'.files) \/ In(p, lease'.dirs)
    BY <1>3, <1>5 DEF AllGood, Good
  <2>2. InsideOut'
    <3> SUFFICES ASSUME NEW p \in DOMAIN disk', NEW i \in DOMAIN todo', p # <<>>,
                        todo'[i] = Above(p)
                 PROVE  \E k \in DOMAIN todo' : k < i /\ todo'[k] = p
      BY DEF InsideOut
    <3>1. p \in Paths /\ Above(p) \in DOMAIN disk' /\ disk'[Above(p)].dir
      BY DEF TreeInv, TreeOf
    <3>2. ~In(Above(p), lease'.files)
      BY <1>3, <3>1 DEF LeaseInv
    <3> QED
      BY <1>2, <2>1, <3>1, <3>2 DEF ClosesAll
  <2> QED
    BY <1>1, <1>2, <1>4, <1>5, <2>1, <2>2 DEF CloseInv, ClosesAll
<1> QED
  BY <1>1, <1>2, <1>4, <1>5 DEF CloseInv, ClosesAll

-----------------------------------------------------------------------------
(***************************************************************************)
(* The store, step by step.                                                *)
(***************************************************************************)
LEMMA StoreInit == Init => StoreInv
<1> SUFFICES ASSUME Init PROVE StoreInv
  OBVIOUS
<1>1. /\ archive \in Archives /\ pc = "inspect" /\ storage = "none" /\ refused = FALSE
      /\ failed = FALSE /\ lease = Owned(<<>>, <<>>)
      /\ disk = [path \in {} |-> Object(TRUE, TRUE, TRUE)]
  BY DEF Init
<1>2. DOMAIN disk = {} /\ disk \in [DOMAIN disk -> Objects]
  BY <1>1
<1>3. TreeInv
  BY <1>2, FS_EmptySet DEF TreeInv, TreeOf
<1>4. lease \in [files : Seq(Paths), dirs : Seq(Paths)] /\ lease.dirs = <<>>
  <2>1. <<>> \in Seq(Paths)
    BY EmptySeq
  <2> QED
    BY <1>1, <2>1, LeaseRecord DEF Owned
<1>5. DirsOrdered(lease.dirs)
  <2>1. <<>> \in Seq(Paths) /\ DOMAIN <<>> = {}
    BY EmptySeq
  <2> QED
    BY <1>4, <2>1 DEF DirsOrdered, IsInjective
<1>6. LeaseInv
  BY <1>2, <1>4, <1>5 DEF LeaseInv
<1>7. PhaseInv
  BY <1>1, <1>2 DEF PhaseInv
<1> QED
  BY <1>3, <1>6, <1>7 DEF StoreInv

\* Steps that leave the store and the lease alone.
LEMMA SameStore ==
    ASSUME UNCHANGED <<archive, disk, lease>>
    PROVE  /\ TreeInv => TreeInv'
           /\ LeaseInv => LeaseInv'
           /\ KeptInv => KeptInv'
           /\ AllGood => AllGood'
           /\ AllWhole => AllWhole'
           /\ AllMade => AllMade'
           /\ Layout' = Layout
BY DEF TreeInv, LeaseInv, KeptInv, AllGood, Good, AllWhole, AllMade, Made, OwnsDir, OwnsFile, Layout

LEMMA NothingReached ==
    ASSUME NEW layout \in Seq(Item), NEW d, DOMAIN d = {}
    PROVE  0 \in 0..Len(layout) /\ Reached(0, layout, layout, d)
<1>1. Len(layout) \in Nat
  BY LenProperties
<1>2. \A k \in 1..Len(layout) : k + 0 = k
  BY <1>1
<1>3. 1..0 = {} /\ Len(layout) = Len(layout) - 0 /\ 0 \in 0..Len(layout)
  BY <1>1
<1>4. {} = {Spot(layout[i]) : i \in 1..0}
  BY <1>3
<1> QED
  BY <1>2, <1>3, <1>4 DEF Reached

\* The next object of the layout was created.
LEMMA OneReached ==
    ASSUME NEW layout \in Seq(Item), NEW rest, NEW d, NEW e, NEW n \in 0..Len(layout),
           Reached(n, layout, rest, d), rest # <<>>, NEW p, p = Spot(rest[1]),
           p \notin DOMAIN d, DOMAIN e = DOMAIN d \cup {p}, e[p].dir = rest[1].dir,
           \A q \in DOMAIN d : e[q].dir = d[q].dir
    PROVE  /\ rest[1] = layout[n + 1] /\ n + 1 \in DOMAIN layout
           /\ n + 1 \in 0..Len(layout) /\ Reached(n + 1, layout, Tail(rest), e)
<1>1. /\ rest \in Seq(Item) /\ Len(rest) \in Nat /\ Len(layout) \in Nat /\ n \in Nat
      /\ Len(rest) = Len(layout) - n
      /\ DOMAIN layout = 1..Len(layout)
  BY LenProperties DEF Reached
<1>2. Len(rest) # 0
  BY <1>1
<1>3. n + 1 \in 1..Len(layout) /\ n + 1 \in 0..Len(layout) /\ 1 \in 1..Len(rest) /\ 1 + n = n + 1
  BY <1>1, <1>2
<1>4. rest[1] = layout[n + 1]
  BY <1>3 DEF Reached
<1>5. /\ Tail(rest) \in Seq(Item) /\ Len(Tail(rest)) = Len(rest) - 1
      /\ \A k \in 1..(Len(rest) - 1) : Tail(rest)[k] = rest[k + 1]
  BY <1>1, <1>2
<1>6. Len(Tail(rest)) = Len(layout) - (n + 1)
  BY <1>1, <1>5
<1>7. ASSUME NEW k \in 1..Len(Tail(rest)) PROVE Tail(rest)[k] = layout[k + (n + 1)]
  <2>1. k \in 1..(Len(rest) - 1) /\ k + 1 \in 1..Len(rest) /\ (k + 1) + n = k + (n + 1)
    BY <1>1, <1>5
  <2>2. rest[k + 1] = layout[(k + 1) + n]
    BY <2>1 DEF Reached
  <2> QED
    BY <1>5, <2>1, <2>2
<1>8. \A i \in 1..(n + 1) : i \in 1..n \/ i = n + 1
  BY <1>1
<1>9. \A i \in 1..n : i \in 1..(n + 1)
  BY <1>1
<1>10. n + 1 \in 1..(n + 1)
  BY <1>1
<1>11. p = Spot(layout[n + 1])
  BY <1>4
<1>12. DOMAIN e = {Spot(layout[i]) : i \in 1..(n + 1)}
  <2>1. DOMAIN d = {Spot(layout[i]) : i \in 1..n}
    BY DEF Reached
  <2> QED
    BY <1>8, <1>9, <1>10, <1>11, <2>1
<1>13. ASSUME NEW i \in 1..(n + 1) PROVE e[Spot(layout[i])].dir = layout[i].dir
  <2>1. CASE i = n + 1
    BY <1>4, <1>11, <2>1
  <2>2. CASE i \in 1..n
    BY <2>2 DEF Reached
  <2> QED
    BY <1>8, <2>1, <2>2
<1> QED
  BY <1>1, <1>3, <1>4, <1>5, <1>6, <1>7, <1>12, <1>13 DEF Reached

LEMMA InspectStore == ASSUME IInv, StoreInv, Inspect PROVE StoreInv'
<1>1. /\ pc = "inspect" /\ UNCHANGED <<archive, disk, lease, failed, refused>>
  BY DEF Inspect
<1>2. TreeInv' /\ LeaseInv' /\ Layout' = Layout
  BY <1>1, SameStore DEF StoreInv
<1>3. DOMAIN disk = {} /\ lease = Owned(<<>>, <<>>) /\ archive \in Archives
      /\ refused \in BOOLEAN /\ failed \in BOOLEAN /\ storage \notin {"committed", "clean", "failed"}
  BY <1>1 DEF StoreInv, PhaseInv, IInv, RunInv
<1>4. CASE Accepted(archive)
  <2>1. pc' = "create" /\ todo' = Layout /\ storage' = "open"
    BY <1>4 DEF Inspect
  <2>2. todo' \in Seq(Item)
    BY <1>3, <2>1, LayoutType
  <2>3. \A p : ~OwnsDir(p)' /\ ~OwnsFile(p)'
    <3>1. lease' = Owned(<<>>, <<>>)
      BY <1>1, <1>3
    <3> QED
      BY <3>1 DEF Owned, OwnsDir, OwnsFile
  <2>4. KeptInv'
    BY <2>3 DEF KeptInv
  <2>5. CreateInv'
    BY <1>1, <1>2, <1>3, <2>1, <2>2, <2>3 DEF CreateInv, AllGood, AllWhole, In
  <2>6. ProgressInv'
    <3>1. Layout' = Layout /\ archive' = archive /\ DOMAIN disk' = {} /\ todo' = Layout
      BY <1>1, <1>2, <1>3, <2>1
    <3>2. Layout \in Seq(Item)
      BY <1>3, LayoutType
    <3>3. 0 \in 0..Len(Layout) /\ Reached(0, Layout, todo', disk')
      BY <3>1, <3>2, NothingReached
    <3> QED
      BY <1>4, <3>1, <3>3 DEF ProgressInv
  <2> QED
    BY <1>1, <1>2, <1>3, <2>1, <2>4, <2>5, <2>6 DEF StoreInv, PhaseInv
<1>5. CASE ~Accepted(archive)
  <2>1. pc' = "done" /\ storage' = storage
    BY <1>5 DEF Inspect
  <2> QED
    BY <1>1, <1>2, <1>3, <2>1 DEF StoreInv, PhaseInv
<1> QED
  BY <1>4, <1>5

\* An object of the image is created: it belongs to the lease.
LEMMA CreateOwns ==
    ASSUME IInv, StoreInv, pc = "create", NEW item \in Item, NEW whole \in BOOLEAN,
           item = todo[1], todo # <<>>, Create(item, whole), archive' = archive
    PROVE  /\ TreeInv' /\ LeaseInv' /\ KeptInv' /\ AllGood'
           /\ \A p : OwnsFile(p)' => p \in DOMAIN disk'
           /\ <<>> \in DOMAIN disk'
           /\ whole => AllWhole'
           /\ Made(item)' /\ \A i \in DOMAIN Layout : Made(Layout[i]) => Made(Layout[i])'
           /\ Spot(item) \notin DOMAIN disk /\ DOMAIN disk' = DOMAIN disk \cup {Spot(item)}
           /\ disk'[Spot(item)].dir = item.dir
           /\ \A q \in DOMAIN disk : disk'[q].dir = disk[q].dir
<1> DEFINE p == Lower(item.path)
           dir == item.dir
<1>1. p \in Paths /\ dir \in BOOLEAN
  BY LowerType DEF Item
<1>2. /\ p \notin DOMAIN disk
      /\ p # <<>> => OwnsDir(Above(p)) /\ Above(p) \in DOMAIN disk /\ disk[Above(p)].dir
      /\ disk' = Put(disk, p, Object(dir, whole, TRUE))
      /\ lease' = IF dir THEN [lease EXCEPT !.dirs = Append(@, p)]
                          ELSE [lease EXCEPT !.files = Append(@, p)]
  BY DEF Create, Creatable, Own
<1>3. /\ TreeOf(disk) /\ LeaseInv /\ KeptInv /\ CreateInv /\ archive \in Archives
      /\ <<>> \in DOMAIN disk => OwnsDir(<<>>) /\ disk[<<>>].sealed
  BY DEF StoreInv, TreeInv, PhaseInv
<1>4. p = <<>> => dir
  <2> SUFFICES ASSUME p = <<>> PROVE dir
    OBVIOUS
  <2>1. todo = Layout
    BY <1>2, <1>3 DEF CreateInv
  <2>2. item = [path |-> <<>>, dir |-> TRUE]
    BY <1>3, <2>1, LayoutType
  <2> QED
    BY <2>2
<1> HIDE DEF p, dir
<1>5. /\ TreeOf(disk') /\ DOMAIN disk' = DOMAIN disk \cup {p}
      /\ disk'[p] = Object(dir, whole, TRUE)
      /\ \A q \in DOMAIN disk : disk'[q] = disk[q]
  <2> DEFINE object == Object(dir, whole, TRUE)
  <2>1. Placed(disk, p)
    BY <1>1, <1>2 DEF Placed
  <2>2. disk' = Put(disk, p, object)
    BY <1>2
  <2>3. object \in Objects
    BY <1>1 DEF Object, Objects
  <2> HIDE DEF object
  <2>4. Grown(disk, p, object, disk')
    BY <1>3, <2>1, <2>2, <2>3, TreePut
  <2> QED
    BY <2>4 DEF object, Grown
<1>6. disk'[p].dir = dir /\ disk'[p].whole = whole /\ disk'[p].sealed
  BY <1>5 DEF Object
<1>7. ~OwnsDir(p) /\ ~OwnsFile(p)
  BY <1>2, <1>3 DEF KeptInv, CreateInv
<1>8. /\ LeaseInv'
      /\ \A q : OwnsDir(q)' <=> OwnsDir(q) \/ (q = p /\ dir)
      /\ \A q : OwnsFile(q)' <=> OwnsFile(q) \/ (q = p /\ ~dir)
  <2>1. \A q \in DOMAIN disk' : q # p => q \in DOMAIN disk /\ disk'[q].dir = disk[q].dir
    BY <1>5
  <2>2. p \in DOMAIN disk'
    BY <1>5
  <2>3. OwnsDir(p) => dir
    BY <1>7
  <2>4. OwnsFile(p) => ~dir
    BY <1>7
  <2>5. dir => ~OwnsDir(p) /\ (p # <<>> => OwnsDir(Above(p)))
    BY <1>2, <1>7
  <2> QED
    BY <1>1, <1>2, <1>3, <1>6, <2>1, <2>2, <2>3, <2>4, <2>5, OwnKeeps
<1>9. <<>> \in DOMAIN disk' /\ OwnsDir(<<>>)' /\ disk'[<<>>].sealed
  <2>1. CASE <<>> \in DOMAIN disk
    BY <1>3, <1>5, <1>8, <2>1
  <2>2. CASE <<>> \notin DOMAIN disk
    <3>1. DOMAIN disk = {}
      BY <1>3, <2>2, NoRootNoStore
    <3>2. p = <<>>
      BY <1>2, <3>1
    <3> QED
      BY <1>4, <1>5, <1>6, <1>8, <3>2
  <2> QED
    BY <2>1, <2>2
<1>10. TreeInv'
  BY <1>5, <1>9 DEF TreeInv
<1>11. KeptInv' /\ \A q : OwnsFile(q)' => q \in DOMAIN disk'
  BY <1>3, <1>5, <1>8 DEF KeptInv, CreateInv
<1>12. AllGood'
  BY <1>3, <1>5, <1>6, <1>8 DEF CreateInv, AllGood, Good
<1>13. whole => AllWhole'
  BY <1>3, <1>5, <1>6 DEF CreateInv, AllWhole
<1>14. Made(item)'
  BY <1>5, <1>6 DEF Made, p, dir
<1>15. \A i \in DOMAIN Layout : Made(Layout[i]) => Made(Layout[i])'
  <2>1. Layout' = Layout
    BY DEF Layout
  <2> HIDE DEF Layout
  <2> QED
    BY <1>5, <2>1 DEF Made
<1>16. /\ Spot(item) \notin DOMAIN disk /\ DOMAIN disk' = DOMAIN disk \cup {Spot(item)}
       /\ disk'[Spot(item)].dir = item.dir
       /\ \A q \in DOMAIN disk : disk'[q].dir = disk[q].dir
  BY <1>2, <1>5, <1>6 DEF Spot, p, dir
<1> QED
  BY <1>8, <1>9, <1>10, <1>11, <1>12, <1>13, <1>14, <1>15, <1>16

LEMMA CreateStore == ASSUME IInv, StoreInv, CreateNext PROVE StoreInv'
<1>1. /\ pc = "create" /\ todo # <<>> /\ UNCHANGED <<archive, storage, run, registration>>
  BY DEF CreateNext
<1>2. /\ TreeInv /\ LeaseInv /\ KeptInv /\ CreateInv /\ archive \in Archives
      /\ refused \in BOOLEAN /\ failed \in BOOLEAN
      /\ storage \notin {"committed", "clean", "failed"}
  BY <1>1 DEF StoreInv, PhaseInv, IInv, RunInv
<1>3. PICK item \in Item : item = todo[1]
  BY <1>1, <1>2, InTail DEF CreateInv
<1>4. /\ Tail(todo) \in Seq(Item)
      /\ \A y : In(y, todo) => y = item \/ In(y, Tail(todo))
  BY <1>1, <1>2, <1>3, InTail DEF CreateInv
<1>5. CASE Create(item, TRUE) /\ Calls(FALSE) /\ todo' = Tail(todo) /\ UNCHANGED <<pc, failed>>
  <2>1. /\ TreeInv' /\ LeaseInv' /\ KeptInv' /\ AllGood' /\ AllWhole'
        /\ \A p : OwnsFile(p)' => p \in DOMAIN disk'
        /\ <<>> \in DOMAIN disk'
        /\ Made(item)' /\ \A i \in DOMAIN Layout : Made(Layout[i]) => Made(Layout[i])'
    BY <1>1, <1>3, <1>5, CreateOwns
  <2>2. \A i \in DOMAIN Layout : Made(Layout[i])' \/ In(Layout[i], todo')
    <3> SUFFICES ASSUME NEW i \in DOMAIN Layout, ~Made(Layout[i])'
                 PROVE  In(Layout[i], todo')
      OBVIOUS
    <3>1. In(Layout[i], todo)
      BY <1>2, <2>1 DEF CreateInv
    <3>2. CASE Layout[i] = item
      <4>1. Layout' = Layout
        BY <1>1 DEF Layout
      <4>2. Layout[i]' = item
        BY <3>2, <4>1
      <4> QED
        BY <2>1, <3>2, <4>2 DEF Made
    <3> QED
      BY <1>4, <1>5, <3>1, <3>2
  <2>3. Layout' = Layout
    BY <1>1 DEF Layout
  <2>4. CreateInv'
    BY <1>4, <1>5, <2>1, <2>2, <2>3 DEF CreateInv
  <2>5. refused' \in BOOLEAN
    BY <1>2, <1>5 DEF Calls
  <2>6. ProgressInv'
    <3>1. Layout \in Seq(Item)
      BY <1>2, LayoutType
    <3>2. PICK n \in 0..Len(Layout) : Reached(n, Layout, todo, disk)
      BY <1>1 DEF StoreInv, PhaseInv, ProgressInv
    <3>3. /\ Spot(item) \notin DOMAIN disk /\ DOMAIN disk' = DOMAIN disk \cup {Spot(item)}
          /\ disk'[Spot(item)].dir = item.dir
          /\ \A q \in DOMAIN disk : disk'[q].dir = disk[q].dir
      BY <1>1, <1>3, <1>5, CreateOwns
    <3> DEFINE p == Spot(item)
    <3>4. /\ p = Spot(todo[1]) /\ p \notin DOMAIN disk /\ DOMAIN disk' = DOMAIN disk \cup {p}
          /\ disk'[p].dir = todo[1].dir
          /\ \A q \in DOMAIN disk : disk'[q].dir = disk[q].dir
      BY <1>3, <3>3
    <3> HIDE DEF p
    <3>5. n + 1 \in 0..Len(Layout) /\ Reached(n + 1, Layout, Tail(todo), disk')
      BY <1>1, <3>1, <3>2, <3>4, OneReached
    <3>6. Accepted(archive')
      BY <1>1 DEF StoreInv, PhaseInv, ProgressInv
    <3> QED
      BY <1>5, <2>3, <3>5, <3>6 DEF ProgressInv
  <2> QED
    BY <1>1, <1>2, <1>5, <2>1, <2>4, <2>5, <2>6 DEF StoreInv, PhaseInv
<1>6. ASSUME Rollback, TreeInv', LeaseInv', refused' \in BOOLEAN, refused' \/ AllGood'
      PROVE  StoreInv'
  <2>1. CloseInv'
    BY <1>6, RollbackBegins
  <2> QED
    BY <1>1, <1>2, <1>6, <2>1 DEF StoreInv, PhaseInv, Rollback
<1>7. CASE Create(item, FALSE) /\ Calls(TRUE) /\ Rollback
  <2>1. TreeInv' /\ LeaseInv'
    BY <1>1, <1>3, <1>7, CreateOwns
  <2>2. refused' = TRUE
    BY <1>7 DEF Calls
  <2> QED
    BY <1>6, <1>7, <2>1, <2>2
<1>8. CASE Calls(Creatable(item)) /\ UNCHANGED <<disk, lease>> /\ Rollback
  <2>1. TreeInv' /\ LeaseInv' /\ AllGood'
    BY <1>1, <1>2, <1>8, SameStore DEF CreateInv
  <2>2. refused' \in BOOLEAN
    BY <1>2, <1>8 DEF Calls
  <2> QED
    BY <1>6, <1>8, <2>1, <2>2
<1> QED
  BY <1>3, <1>5, <1>7, <1>8 DEF CreateNext

LEMMA ConfigureStore == ASSUME IInv, StoreInv, Configure PROVE StoreInv'
<1>1. /\ pc = "create" /\ todo = <<>>
      /\ UNCHANGED <<archive, disk, lease, storage, failed, refused>>
  BY DEF Configure
<1>2. pc' = "running" /\ run'.command = "configure"
  BY DEF Configure, Start
<1>3. /\ KeptInv /\ CreateInv /\ archive \in Archives /\ refused \in BOOLEAN /\ failed \in BOOLEAN
      /\ storage \notin {"committed", "clean", "failed"}
  BY <1>1 DEF StoreInv, PhaseInv, IInv, RunInv
<1>4. AllMade
  <2>1. \A y : ~In(y, todo)
    BY <1>1, EmptySeq DEF In
  <2> QED
    BY <1>3, <2>1 DEF CreateInv, AllMade
<1>5. <<>> \in DOMAIN disk
  <2>1. todo # Layout
    BY <1>1, <1>3, LayoutType, EmptySeq
  <2> QED
    BY <1>3, <2>1 DEF CreateInv
<1>6. TreeInv' /\ LeaseInv' /\ KeptInv' /\ AllWhole' /\ AllMade'
  BY <1>1, <1>3, <1>4, SameStore DEF StoreInv, CreateInv
<1>7. PresentInv'
  BY <1>1, <1>2, <1>5, <1>6 DEF PresentInv
<1> QED
  BY <1>1, <1>2, <1>3, <1>6, <1>7 DEF StoreInv, PhaseInv

\* The runner's processes work beside what the installer made.
LEMMA RunnerMakes ==
    ASSUME IInv, StoreInv, NEW path \in Paths \ {<<>>}, NEW dir \in BOOLEAN,
           dir => path \notin StateFiles, RunnerWrites(path, dir)
    PROVE  StoreInv'
<1>1. /\ alive # {} /\ path \notin DOMAIN disk
      /\ Above(path) \in DOMAIN disk /\ disk[Above(path)].dir
      /\ disk' = Put(disk, path, Object(dir, TRUE, FALSE))
      /\ UNCHANGED <<archive, pc, todo, lease, storage, run, failed, refused>>
  BY DEF RunnerWrites
<1>2. pc = "running" /\ storage \notin {"committed", "clean", "failed"}
  BY <1>1 DEF StoreInv, PhaseInv, IInv, RunInv
<1>3. /\ TreeInv /\ LeaseInv /\ KeptInv /\ PresentInv /\ archive \in Archives
      /\ refused \in BOOLEAN /\ failed \in BOOLEAN
  BY <1>2 DEF StoreInv, PhaseInv
<1>4. Grown(disk, path, Object(dir, TRUE, FALSE), disk')
  <2> DEFINE object == Object(dir, TRUE, FALSE)
  <2>1. Placed(disk, path)
    BY <1>1 DEF Placed
  <2>2. disk' = Put(disk, path, object)
    BY <1>1
  <2>3. object \in Objects
    BY DEF Object, Objects
  <2>4. TreeOf(disk)
    BY <1>3 DEF TreeInv
  <2> HIDE DEF object
  <2>5. Grown(disk, path, object, disk')
    BY <2>1, <2>2, <2>3, <2>4, TreePut
  <2> QED
    BY <2>5 DEF object
<1>5. /\ TreeOf(disk') /\ DOMAIN disk' = DOMAIN disk \cup {path}
      /\ disk'[path].dir = dir /\ disk'[path].whole
      /\ \A q \in DOMAIN disk : disk'[q] = disk[q]
  BY <1>4 DEF Grown, Object
<1>6. \A q : (OwnsDir(q)' <=> OwnsDir(q)) /\ (OwnsFile(q)' <=> OwnsFile(q))
  BY <1>1 DEF OwnsDir, OwnsFile
<1>7. TreeInv'
  BY <1>3, <1>5, <1>6 DEF TreeInv, PresentInv
<1>8. LeaseInv'
  <2>1. ~OwnsDir(path) /\ (OwnsFile(path) => path \in StateFiles)
    BY <1>1, <1>3 DEF KeptInv
  <2>2. ASSUME NEW q \in DOMAIN disk'
        PROVE  (OwnsDir(q)' => disk'[q].dir) /\ (OwnsFile(q)' => ~disk'[q].dir)
    BY <1>3, <1>5, <1>6, <2>1 DEF LeaseInv
  <2> QED
    BY <1>1, <1>3, <2>2 DEF LeaseInv
<1>9. KeptInv'
  BY <1>3, <1>5, <1>6 DEF KeptInv
<1>10. AllMade => AllMade'
  <2>1. Layout' = Layout
    BY <1>1 DEF Layout
  <2> HIDE DEF Layout
  <2> QED
    BY <1>5, <2>1 DEF AllMade, Made
<1>11. PresentInv'
  BY <1>1, <1>3, <1>5, <1>10 DEF PresentInv, AllWhole
<1> QED
  BY <1>1, <1>2, <1>3, <1>7, <1>8, <1>9, <1>11 DEF StoreInv, PhaseInv

LEMMA ErasesStore == ASSUME IInv, StoreInv, ErasesState PROVE StoreInv'
<1>1. /\ run.command = "remove" /\ alive # {}
      /\ UNCHANGED <<archive, pc, todo, lease, storage, run, failed, refused>>
  BY DEF ErasesState
<1>2. PICK path \in StateFiles \cap DOMAIN disk : ~disk[path].dir /\ disk' = Remove1(disk, path)
  BY DEF ErasesState
<1>3. pc = "running" /\ storage \notin {"committed", "clean", "failed"}
  BY <1>1 DEF StoreInv, PhaseInv, IInv, RunInv
<1>4. /\ TreeInv /\ LeaseInv /\ KeptInv /\ PresentInv /\ archive \in Archives
      /\ refused \in BOOLEAN /\ failed \in BOOLEAN /\ path # <<>>
  BY <1>3, StoreAssumption DEF StoreInv, PhaseInv
<1>5. Shrunk(disk, path, disk')
  <2>1. Childless(disk, path)
    BY <1>2, <1>4 DEF Childless, TreeInv, TreeOf
  <2>2. TreeOf(disk)
    BY <1>4 DEF TreeInv
  <2> QED
    BY <1>2, <2>1, <2>2, TreeRemove
<1>6. /\ TreeOf(disk') /\ DOMAIN disk' = DOMAIN disk \ {path}
      /\ \A q \in DOMAIN disk' : disk'[q] = disk[q]
  BY <1>5 DEF Shrunk
<1>7. \A q : (OwnsDir(q)' <=> OwnsDir(q)) /\ (OwnsFile(q)' <=> OwnsFile(q))
  BY <1>1 DEF OwnsDir, OwnsFile
<1>8. TreeInv'
  BY <1>4, <1>6, <1>7 DEF TreeInv
<1>9. LeaseInv'
  BY <1>1, <1>4, <1>6, <1>7 DEF LeaseInv
<1>10. KeptInv'
  <2>1. ~OwnsDir(path)
    BY <1>2, <1>4 DEF LeaseInv
  <2> QED
    BY <1>2, <1>4, <1>6, <1>7, <2>1 DEF KeptInv
<1>11. PresentInv'
  BY <1>1, <1>4, <1>6 DEF PresentInv, AllWhole
<1> QED
  BY <1>1, <1>3, <1>4, <1>8, <1>9, <1>10, <1>11 DEF StoreInv, PhaseInv

LEMMA RunnerStoreKept == ASSUME IInv, StoreInv, Runner PROVE StoreInv'
<1>1. CASE RunnerSpawns \/ TalksToGitHub \/ LeaderExits
  <2>1. /\ UNCHANGED <<archive, pc, todo, disk, lease, storage, failed, refused>>
        /\ alive # {} /\ run'.command = run.command
    BY <1>1 DEF RunnerSpawns, TalksToGitHub, LeaderExits, Outcome
  <2>2. pc = "running" /\ storage \notin {"committed", "clean", "failed"}
    BY <2>1 DEF StoreInv, PhaseInv, IInv, RunInv
  <2>3. /\ KeptInv /\ PresentInv /\ archive \in Archives /\ refused \in BOOLEAN /\ failed \in BOOLEAN
    BY <2>2 DEF StoreInv, PhaseInv
  <2>4. TreeInv' /\ LeaseInv' /\ KeptInv' /\ AllWhole' /\ (AllMade => AllMade')
    BY <2>1, <2>3, SameStore DEF StoreInv, PresentInv
  <2>5. PresentInv'
    BY <2>1, <2>3, <2>4 DEF PresentInv
  <2> QED
    BY <2>1, <2>2, <2>3, <2>4, <2>5 DEF StoreInv, PhaseInv
<1>2. CASE WritesLog
  <2>1. PICK log \in Logs : RunnerWrites(log.path, log.dir)
    BY <1>2 DEF WritesLog
  <2>2. log.path \in Paths \ {<<>>} /\ log.dir \in BOOLEAN /\ (log.dir => log.path \notin StateFiles)
    BY StoreAssumption
  <2> QED
    BY <2>1, <2>2, RunnerMakes
<1>3. CASE WritesState
  <2>1. PICK path \in StateFiles : RunnerWrites(path, FALSE)
    BY <1>3 DEF WritesState
  <2>2. path \in Paths \ {<<>>} /\ FALSE \in BOOLEAN /\ (FALSE => path \notin StateFiles)
    BY StoreAssumption
  <2> QED
    BY <2>1, <2>2, RunnerMakes
<1> QED
  BY <1>1, <1>2, <1>3, ErasesStore DEF Runner

\* The objects of a directory are listed.
LEMMA ListingLists ==
    ASSUME TreeInv, NEW path
    PROVE  /\ Listing(path) \in Seq(Paths)
           /\ \A p : In(p, Listing(path)) <=> p \in DOMAIN disk /\ p # <<>> /\ Above(p) = path
<1> DEFINE S == Children(path)
<1>1. S \subseteq DOMAIN disk /\ DOMAIN disk \subseteq Paths /\ IsFiniteSet(DOMAIN disk)
  BY DEF Children, TreeInv, TreeOf
<1>2. IsFiniteSet(S)
  BY <1>1, FS_Subset
<1>3. Listing(path) = SetToSeq(S)
  BY DEF Listing
<1>4. \A p : p \in S <=> p \in DOMAIN disk /\ p # <<>> /\ Above(p) = path
  BY DEF Children
<1> HIDE DEF S
<1>5. SetToSeq(S) \in Seq(S) /\ \A x \in S : In(x, SetToSeq(S))
  BY <1>2, SetToSeqLists
<1>6. \A p : In(p, SetToSeq(S)) => p \in S
  BY <1>5, ElementOfSeq DEF In
<1>7. SetToSeq(S) \in Seq(Paths)
  BY <1>1, <1>5
<1> QED
  BY <1>3, <1>4, <1>5, <1>6, <1>7

LEMMA RunEndsStore == ASSUME IInv, StoreInv, RunReturns \/ RunCutOff PROVE StoreInv'
<1>1. /\ pc = "running" /\ pc' = "seal" /\ todo' = Listing(<<>>)
      /\ UNCHANGED <<archive, disk, lease, storage, failed, refused>>
      /\ run'.command = run.command
  BY DEF RunReturns, RunCutOff, SealAfterRun, Outcome
<1>2. /\ TreeInv /\ LeaseInv /\ KeptInv /\ PresentInv /\ archive \in Archives
      /\ refused \in BOOLEAN /\ failed \in BOOLEAN
      /\ storage \notin {"committed", "clean", "failed"}
  BY <1>1 DEF StoreInv, PhaseInv, IInv, RunInv
<1>3. TreeInv' /\ LeaseInv' /\ KeptInv' /\ AllWhole' /\ (AllMade => AllMade')
  BY <1>1, <1>2, SameStore DEF PresentInv
<1>4. PresentInv'
  BY <1>1, <1>2, <1>3 DEF PresentInv
<1>5. /\ todo' \in Seq(Paths)
      /\ \A p : In(p, todo') <=> p \in DOMAIN disk' /\ p # <<>> /\ Above(p) = <<>>
  BY <1>1, <1>2, ListingLists
<1>6. OwnsDir(<<>>)' /\ <<>> \in DOMAIN disk' /\ disk'[<<>>].sealed /\ disk'[<<>>].dir
  BY <1>1, <1>2, <1>3 DEF PresentInv, TreeInv, LeaseInv
<1>7. \E visited \in SUBSET DOMAIN disk' :
         /\ <<>> \in visited /\ \A p \in visited : Good(p)'
         /\ \A p \in DOMAIN disk' :
                p # <<>> /\ Above(p) \in visited => p \in visited \/ In(p, todo')
  <2>1. {<<>>} \in SUBSET DOMAIN disk'
    BY <1>6
  <2>2. Good(<<>>)'
    BY <1>6 DEF Good
  <2> QED
    BY <1>5, <2>1, <2>2
<1>8. SealInv'
  BY <1>5, <1>6, <1>7 DEF SealInv
<1> QED
  BY <1>1, <1>2, <1>3, <1>4, <1>8 DEF StoreInv, PhaseInv

\* The object that is sealed next belongs to the lease from then on.
LEMMA SealOwns ==
    ASSUME TreeInv, LeaseInv, NEW p \in DOMAIN disk, p # <<>>, OwnsDir(Above(p)),
           disk' = [disk EXCEPT ![p].sealed = TRUE], lease' = Adopt(p)
    PROVE  /\ TreeInv' /\ LeaseInv' /\ Good(p)'
           /\ Resealed(disk, p, disk')
           /\ \A q : OwnsDir(q)' <=> OwnsDir(q) \/ (q = p /\ disk[p].dir)
           /\ \A q : OwnsFile(q)' <=> OwnsFile(q) \/ (q = p /\ ~disk[p].dir)
<1> DEFINE dir == disk[p].dir
<1>1. Resealed(disk, p, disk')
  BY TreeSeal DEF TreeInv
<1>2. /\ TreeOf(disk') /\ DOMAIN disk' = DOMAIN disk
      /\ \A q \in DOMAIN disk : disk'[q].dir = disk[q].dir
      /\ \A q \in DOMAIN disk : disk'[q].sealed = (disk[q].sealed \/ q = p)
  BY <1>1 DEF Resealed
<1>3. p \in Paths /\ dir \in BOOLEAN
  BY DEF TreeInv, TreeOf, Objects
<1>4. (OwnsDir(p) => dir) /\ (OwnsFile(p) => ~dir)
  BY DEF LeaseInv
<1>5. /\ LeaseInv'
      /\ \A q : OwnsDir(q)' <=> OwnsDir(q) \/ (q = p /\ dir)
      /\ \A q : OwnsFile(q)' <=> OwnsFile(q) \/ (q = p /\ ~dir)
  <2>1. CASE IF dir THEN OwnsDir(p) ELSE OwnsFile(p)
    <3>1. lease' = lease
      BY <2>1 DEF Adopt
    <3>2. \A q : (OwnsDir(q)' <=> OwnsDir(q)) /\ (OwnsFile(q)' <=> OwnsFile(q))
      BY <3>1 DEF OwnsDir, OwnsFile
    <3>3. LeaseInv'
      BY <1>2, <3>1, <3>2 DEF LeaseInv
    <3> QED
      BY <2>1, <3>2, <3>3
  <2>2. CASE ~(IF dir THEN OwnsDir(p) ELSE OwnsFile(p))
    <3>1. lease' = IF dir THEN [lease EXCEPT !.dirs = Append(@, p)]
                          ELSE [lease EXCEPT !.files = Append(@, p)]
      BY <2>2 DEF Adopt
    <3>2. p \in DOMAIN disk' /\ disk'[p].dir = dir
      BY <1>2
    <3>3. \A q \in DOMAIN disk' : q # p => q \in DOMAIN disk /\ disk'[q].dir = disk[q].dir
      BY <1>2
    <3>4. dir => ~OwnsDir(p) /\ (p # <<>> => OwnsDir(Above(p)))
      BY <2>2
    <3>5. OwnsDir(p) => dir
      BY <1>4
    <3>6. OwnsFile(p) => ~dir
      BY <1>4
    <3> HIDE DEF dir
    <3> QED
      BY <1>3, <3>1, <3>2, <3>3, <3>4, <3>5, <3>6, OwnKeeps
  <2> QED
    BY <2>1, <2>2
<1> HIDE DEF dir
<1>6. TreeInv'
  BY <1>2, <1>5 DEF TreeInv
<1>7. Good(p)'
  BY <1>2, <1>5 DEF Good, dir
<1> QED
  BY <1>1, <1>5, <1>6, <1>7 DEF dir

LEMMA SealStore == ASSUME IInv, StoreInv, SealNext PROVE StoreInv'
<1>1. /\ pc = "seal" /\ todo # <<>>
      /\ UNCHANGED <<archive, pc, storage, run, failed, refused>>
  BY DEF SealNext
<1>2. /\ TreeInv /\ LeaseInv /\ KeptInv /\ PresentInv /\ SealInv /\ archive \in Archives
      /\ refused \in BOOLEAN /\ failed \in BOOLEAN
      /\ storage \notin {"committed", "clean", "failed"}
  BY <1>1 DEF StoreInv, PhaseInv, IInv, RunInv
<1>3. PICK p \in DOMAIN disk : p = todo[1]
  BY DEF SealNext
<1>4. /\ disk' = [disk EXCEPT ![p].sealed = TRUE] /\ lease' = Adopt(p)
      /\ todo' = Listing(p) \o Tail(todo)
  BY <1>3 DEF SealNext
<1>5. /\ Tail(todo) \in Seq(Paths)
      /\ \A y : In(y, todo) => y = p \/ In(y, Tail(todo))
      /\ \A y : In(y, Tail(todo)) => In(y, todo)
  BY <1>1, <1>2, <1>3, InTail DEF SealInv
<1>6. In(p, todo)
  <2>1. 1 \in DOMAIN todo
    <3>1. todo \in Seq(Paths)
      BY <1>2 DEF SealInv
    <3> QED
      BY <1>1, <3>1
  <2> QED
    BY <1>3, <2>1 DEF In
<1>7. p # <<>> /\ OwnsDir(Above(p))
  BY <1>2, <1>6 DEF SealInv
<1>8. /\ TreeInv' /\ LeaseInv' /\ Good(p)'
      /\ Resealed(disk, p, disk')
      /\ \A q : OwnsDir(q)' <=> OwnsDir(q) \/ (q = p /\ disk[p].dir)
      /\ \A q : OwnsFile(q)' <=> OwnsFile(q) \/ (q = p /\ ~disk[p].dir)
  BY <1>2, <1>4, <1>7, SealOwns
<1>9. /\ DOMAIN disk' = DOMAIN disk
      /\ \A q \in DOMAIN disk : /\ disk'[q].dir = disk[q].dir /\ disk'[q].whole = disk[q].whole
                                /\ disk[q].sealed => disk'[q].sealed
  BY <1>8 DEF Resealed
<1>10. /\ Listing(p) \in Seq(Paths)
       /\ \A q : In(q, Listing(p)) <=> q \in DOMAIN disk /\ q # <<>> /\ Above(q) = p
  BY <1>2, ListingLists
<1>11. /\ todo' \in Seq(Paths)
       /\ \A q : In(q, todo') <=> In(q, Listing(p)) \/ In(q, Tail(todo))
  BY <1>4, <1>5, <1>10, InConcat
<1>12. ASSUME NEW q, In(q, todo')
       PROVE  q \in DOMAIN disk' /\ q # <<>> /\ OwnsDir(Above(q))'
  <2>1. CASE In(q, Tail(todo))
    BY <1>2, <1>5, <1>8, <1>9, <2>1 DEF SealInv
  <2>2. CASE In(q, Listing(p))
    <3>1. q \in DOMAIN disk /\ q # <<>> /\ Above(q) = p
      BY <1>10, <2>2
    <3>2. disk[p].dir
      BY <1>2, <3>1 DEF TreeInv, TreeOf
    <3> QED
      BY <1>8, <1>9, <3>1, <3>2
  <2> QED
    BY <1>11, <1>12, <2>1, <2>2
<1>13. \E visited \in SUBSET DOMAIN disk' :
          /\ <<>> \in visited /\ \A q \in visited : Good(q)'
          /\ \A q \in DOMAIN disk' :
                 q # <<>> /\ Above(q) \in visited => q \in visited \/ In(q, todo')
  <2>1. PICK visited \in SUBSET DOMAIN disk :
          /\ <<>> \in visited /\ \A q \in visited : Good(q)
          /\ \A q \in DOMAIN disk :
                 q # <<>> /\ Above(q) \in visited => q \in visited \/ In(q, todo)
    BY <1>2 DEF SealInv
  <2> DEFINE more == visited \cup {p}
  <2>2. more \in SUBSET DOMAIN disk' /\ <<>> \in more
    BY <1>9, <2>1
  <2>3. \A q \in more : Good(q)'
    BY <1>8, <1>9, <2>1 DEF Good
  <2>4. ASSUME NEW q \in DOMAIN disk', q # <<>>, Above(q) \in more
        PROVE  q \in more \/ In(q, todo')
    BY <1>5, <1>9, <1>10, <1>11, <2>1, <2>4
  <2> HIDE DEF more
  <2> QED
    BY <2>2, <2>3, <2>4
<1>14. SealInv'
  BY <1>11, <1>12, <1>13 DEF SealInv
<1>15. KeptInv'
  BY <1>2, <1>8, <1>9 DEF KeptInv
<1>16. AllMade => AllMade'
  <2>1. Layout' = Layout
    BY <1>1 DEF Layout
  <2> HIDE DEF Layout
  <2> QED
    BY <1>9, <2>1 DEF AllMade, Made
<1>17. PresentInv'
  BY <1>1, <1>2, <1>9, <1>16 DEF PresentInv, AllWhole
<1> QED
  BY <1>1, <1>2, <1>8, <1>14, <1>15, <1>17 DEF StoreInv, PhaseInv

\* When the list of the seal is used up, every object was visited.
LEMMA SealCovers == ASSUME TreeInv, SealInv, todo = <<>> PROVE AllGood
<1>1. PICK visited \in SUBSET DOMAIN disk :
        /\ <<>> \in visited /\ \A p \in visited : Good(p)
        /\ \A p \in DOMAIN disk :
               p # <<>> /\ Above(p) \in visited => p \in visited \/ In(p, todo)
  BY DEF SealInv
<1>2. \A p : ~In(p, todo)
  BY EmptySeq DEF In
<1>3. \A p \in DOMAIN disk : p # <<>> /\ Above(p) \in visited => p \in visited
  BY <1>1, <1>2
<1>4. <<>> \in DOMAIN disk => <<>> \in visited
  BY <1>1
<1>5. TreeOf(disk)
  BY DEF TreeInv
<1>6. DOMAIN disk \subseteq visited
  BY <1>3, <1>4, <1>5, TreeInduction
<1> QED
  BY <1>1, <1>6 DEF AllGood

\* The registration is undone, or the rollback of the store begins.
LEMMA ClosingStore ==
    ASSUME IInv, StoreInv, pc \in {"seal", "ready"}, CloseRegistration,
           UNCHANGED <<archive, disk, storage>>, refused' \in BOOLEAN, refused' \/ AllGood
    PROVE  StoreInv'
<1>1. /\ TreeInv /\ LeaseInv /\ KeptInv /\ PresentInv /\ archive \in Archives
      /\ failed \in BOOLEAN
      /\ storage \notin {"committed", "clean", "failed"}
  BY DEF StoreInv, PhaseInv, IInv, RunInv
<1>2. lease' = lease
  BY DEF CloseRegistration
<1>3. /\ TreeInv' /\ LeaseInv' /\ KeptInv' /\ AllWhole' /\ (AllGood => AllGood')
  BY <1>1, <1>2, SameStore DEF PresentInv
<1>4. CASE cleanup
  <2>1. PICK isStarted \in BOOLEAN : Start("remove", isStarted)
    BY <1>4 DEF CloseRegistration
  <2>2. pc' = "running" /\ run'.command = "remove" /\ failed' = failed
    BY <1>4, <2>1 DEF Start, CloseRegistration
  <2>3. PresentInv'
    BY <1>1, <1>3, <2>2 DEF PresentInv
  <2> QED
    BY <1>1, <1>3, <2>2, <2>3 DEF StoreInv, PhaseInv
<1>5. CASE ~cleanup
  <2>1. Rollback
    BY <1>5 DEF CloseRegistration
  <2>2. CloseInv'
    BY <1>3, <2>1, RollbackBegins
  <2> QED
    BY <1>1, <1>3, <2>1, <2>2 DEF StoreInv, PhaseInv, Rollback
<1> QED
  BY <1>4, <1>5

LEMMA SealEndsStore ==
    ASSUME IInv, StoreInv, NEW sealed \in BOOLEAN, SealEnds(sealed)
    PROVE  StoreInv'
<1>1. /\ pc = "seal" /\ UNCHANGED <<archive, disk, storage, remote>>
      /\ sealed => todo = <<>>
      /\ refused' = (refused \/ ~sealed)
  BY DEF SealEnds, Calls
<1>2. /\ TreeInv /\ LeaseInv /\ KeptInv /\ PresentInv /\ SealInv /\ archive \in Archives
      /\ refused \in BOOLEAN /\ failed \in BOOLEAN
      /\ storage \notin {"committed", "clean", "failed"}
  BY <1>1 DEF StoreInv, PhaseInv, IInv, RunInv
<1>3. sealed => AllGood
  BY <1>1, <1>2, SealCovers
<1>4. refused' \in BOOLEAN /\ (refused' \/ AllGood)
  BY <1>1, <1>2, <1>3
<1>5. CASE run.command = "remove"
  <2>1. Rollback /\ lease' = lease
    BY <1>5 DEF SealEnds
  <2>2. TreeInv' /\ LeaseInv' /\ (AllGood => AllGood')
    BY <1>1, <1>2, <2>1, SameStore
  <2>3. CloseInv'
    BY <1>4, <2>1, <2>2, RollbackBegins
  <2> QED
    BY <1>1, <1>2, <1>4, <2>1, <2>2, <2>3 DEF StoreInv, PhaseInv, Rollback
<1>6. CASE run.command # "remove" /\ (sealed /\ run.ok /\ VerifyRegistrationState)
  <2>1. pc' = "ready" /\ UNCHANGED <<todo, lease, run, failed>>
    BY <1>6 DEF SealEnds
  <2>2. run.command = "configure" /\ remote
    BY <1>2, <1>6 DEF PresentInv, IInv, NotedInv, RunInv
  <2>3. StateFiles \subseteq DOMAIN disk
    BY <1>6 DEF VerifyRegistrationState
  <2>4. TreeInv' /\ LeaseInv' /\ KeptInv' /\ AllGood' /\ AllWhole' /\ AllMade'
    BY <1>1, <1>2, <1>3, <1>6, <2>1, <2>2, SameStore DEF PresentInv
  <2>5. PresentInv' /\ SettledInv'
    BY <1>1, <1>2, <2>1, <2>2, <2>3, <2>4 DEF PresentInv, SettledInv
  <2> QED
    BY <1>1, <1>2, <1>4, <2>1, <2>4, <2>5 DEF StoreInv, PhaseInv
<1>7. CASE run.command # "remove" /\ ~(sealed /\ run.ok /\ VerifyRegistrationState)
  <2>1. CloseRegistration
    BY <1>7 DEF SealEnds
  <2> QED
    BY <1>1, <1>4, <2>1, ClosingStore
<1> QED
  BY <1>5, <1>6, <1>7

LEMMA TransactionStore == ASSUME IInv, StoreInv, Abort \/ Commit PROVE StoreInv'
<1>1. pc = "ready" /\ UNCHANGED <<archive, disk, remote, refused>>
  BY DEF Abort, Commit
<1>2. /\ TreeInv /\ LeaseInv /\ SettledInv /\ archive \in Archives
      /\ refused \in BOOLEAN /\ failed \in BOOLEAN
  BY <1>1 DEF StoreInv, PhaseInv
<1>3. CASE Abort
  <2>1. CloseRegistration /\ storage' = storage
    BY <1>3 DEF Abort
  <2> QED
    BY <1>1, <1>2, <2>1, ClosingStore DEF SettledInv
<1>4. CASE Commit
  <2>1. pc' = "done" /\ storage' = "committed" /\ UNCHANGED <<lease, failed>>
    BY <1>4 DEF Commit
  <2>2. TreeInv' /\ LeaseInv' /\ AllGood' /\ AllWhole' /\ AllMade'
    BY <1>1, <1>2, <2>1, SameStore DEF SettledInv
  <2>3. SettledInv'
    BY <1>1, <1>2, <2>2 DEF SettledInv
  <2> QED
    BY <1>1, <1>2, <2>1, <2>2, <2>3 DEF StoreInv, PhaseInv
<1> QED
  BY <1>3, <1>4

\* The list of the rollback goes on: what is still there stays in order.
Before(list, q, above) ==
    \A j \in DOMAIN list : list[j] = above => \E k \in DOMAIN list : k < j /\ list[k] = q

LEMMA CloseTail ==
    ASSUME NEW list \in Seq(Paths), list # <<>>, NEW q, NEW above, q # list[1],
           Before(list, q, above)
    PROVE  Before(Tail(list), q, above)
<1> SUFFICES ASSUME NEW i \in DOMAIN Tail(list), Tail(list)[i] = above
             PROVE  \E k \in DOMAIN Tail(list) : k < i /\ Tail(list)[k] = q
  BY DEF Before
<1>1. /\ DOMAIN list = 1..Len(list) /\ Len(list) \in Nat
      /\ DOMAIN Tail(list) = 1..(Len(list) - 1)
      /\ \A k \in 1..(Len(list) - 1) : Tail(list)[k] = list[k + 1]
  OBVIOUS
<1>2. i + 1 \in DOMAIN list /\ list[i + 1] = above
  BY <1>1
<1>3. PICK k \in DOMAIN list : k < i + 1 /\ list[k] = q
  BY <1>2 DEF Before
<1>4. k # 1
  BY <1>3
<1>5. k - 1 \in 1..(Len(list) - 1) /\ k - 1 < i /\ (k - 1) + 1 = k
  BY <1>1, <1>3, <1>4
<1> QED
  BY <1>1, <1>3, <1>5

\* One object is undone, skipped or left.
LEMMA CloseStep ==
    ASSUME TreeInv, LeaseInv, CloseInv, refused \in BOOLEAN, failed \in BOOLEAN,
           todo # <<>>, NEW isRefused \in BOOLEAN, Undo(todo[1], isRefused),
           refused' = (refused \/ isRefused), todo' = Tail(todo), lease' = lease
    PROVE  TreeInv' /\ LeaseInv' /\ CloseInv' /\ failed' \in BOOLEAN
<1>1. PICK p \in Paths : p = todo[1]
  BY InTail DEF CloseInv
<1>2. /\ todo \in Seq(Paths) /\ todo' \in Seq(Paths)
      /\ \A y : In(y, todo) => y = p \/ In(y, todo')
  BY <1>1, InTail DEF CloseInv
<1>3. TreeOf(disk)
  BY DEF TreeInv
<1>4. \A q : (OwnsDir(q)' <=> OwnsDir(q)) /\ (OwnsFile(q)' <=> OwnsFile(q))
  BY DEF OwnsDir, OwnsFile
<1>5. ASSUME NEW q \in DOMAIN disk, q # p, NEW i \in DOMAIN todo', q # <<>>, todo'[i] = Above(q),
             InsideOut
      PROVE  \E k \in DOMAIN todo' : k < i /\ todo'[k] = q
  <2>1. Before(todo, q, Above(q))
    BY <1>5 DEF InsideOut, Before
  <2>2. Before(Tail(todo), q, Above(q))
    BY <1>1, <1>2, <1>5, <2>1, CloseTail
  <2> QED
    BY <1>5, <2>2 DEF Before
\* The object is missing.
<1>6. CASE p \notin DOMAIN disk
  <2>1. disk' = disk /\ failed' = failed
    BY <1>1, <1>6 DEF Undo
  <2>2. TreeInv' /\ LeaseInv' /\ (AllGood => AllGood')
    BY <1>4, <2>1 DEF TreeInv, LeaseInv, AllGood, Good
  <2>3. failed' \/ DOMAIN disk' = {} \/ In(<<>>, todo')
    BY <1>2, <1>3, <1>6, <2>1, NoRootNoStore DEF CloseInv
  <2>4. InsideOut => InsideOut'
    BY <1>5, <1>6, <2>1 DEF InsideOut
  <2>5. (\A q \in DOMAIN disk : In(q, todo)) => \A q \in DOMAIN disk' : In(q, todo')
    BY <1>2, <1>6, <2>1
  <2>6. CloseInv'
    BY <1>2, <2>1, <2>2, <2>3, <2>4, <2>5 DEF CloseInv
  <2> QED
    BY <2>1, <2>2, <2>6
\* The object is removed.
<1>7. CASE p \in DOMAIN disk /\ Removable(p) /\ ~isRefused
  <2>1. disk' = Remove1(disk, p) /\ failed' = failed
    BY <1>1, <1>7 DEF Undo
  <2>2. Childless(disk, p)
    <3>1. CASE OwnsDir(p)
      BY <1>7, <3>1 DEF Removable, Children, Childless
    <3>2. CASE ~OwnsDir(p)
      BY <1>3, <1>7, <3>2 DEF Removable, TreeOf, Childless
    <3> QED
      BY <3>1, <3>2
  <2>3. Shrunk(disk, p, disk')
    BY <1>3, <2>1, <2>2, TreeRemove
  <2>4. /\ TreeOf(disk') /\ DOMAIN disk' = DOMAIN disk \ {p}
        /\ \A q \in DOMAIN disk' : disk'[q] = disk[q]
    BY <2>3 DEF Shrunk
  <2>5. TreeInv'
    BY <1>4, <2>4 DEF TreeInv
  <2>6. LeaseInv'
    BY <1>4, <2>4 DEF LeaseInv
  <2>7. AllGood => AllGood'
    BY <1>4, <2>4 DEF AllGood, Good
  <2>8. failed' \/ DOMAIN disk' = {} \/ In(<<>>, todo')
    <3>1. CASE p = <<>>
      <4>1. <<>> \notin DOMAIN disk'
        BY <2>4, <3>1
      <4> QED
        BY <2>4, <4>1, NoRootNoStore
    <3>2. CASE p # <<>>
      BY <1>2, <2>1, <2>4, <3>2 DEF CloseInv
    <3> QED
      BY <3>1, <3>2
  <2>9. InsideOut => InsideOut'
    BY <1>5, <2>4 DEF InsideOut
  <2>10. (\A q \in DOMAIN disk : In(q, todo)) => \A q \in DOMAIN disk' : In(q, todo')
    BY <1>2, <2>4
  <2>11. CloseInv'
    BY <1>2, <1>7, <2>1, <2>7, <2>8, <2>9, <2>10 DEF CloseInv
  <2> QED
    BY <2>1, <2>5, <2>6, <2>11
\* The object resists.
<1>8. CASE p \in DOMAIN disk /\ (~Removable(p) \/ isRefused)
  <2>1. disk' = disk /\ failed' = TRUE
    BY <1>1, <1>8 DEF Undo
  <2>2. TreeInv' /\ LeaseInv'
    BY <1>4, <2>1 DEF TreeInv, LeaseInv
  <2>3. refused \/ isRefused
    <3> SUFFICES ASSUME ~refused, ~Removable(p) PROVE FALSE
      BY <1>8
    <3>1. Good(p) /\ InsideOut
      BY <1>8 DEF CloseInv, AllGood
    <3>2. OwnsDir(p) => disk[p].dir
      BY <1>8 DEF LeaseInv
    <3>3. OwnsDir(p) /\ Children(p) # {}
      BY <3>1, <3>2 DEF Removable, Good
    <3>4. PICK q \in DOMAIN disk : q # <<>> /\ Above(q) = p
      BY <3>3 DEF Children
    <3>5. 1 \in DOMAIN todo
      BY <1>2
    <3>6. \E k \in DOMAIN todo : k < 1 /\ todo[k] = q
      BY <1>1, <3>1, <3>4, <3>5 DEF InsideOut
    <3>7. DOMAIN todo = 1..Len(todo) /\ Len(todo) \in Nat
      BY <1>2
    <3> QED
      BY <3>6, <3>7
  <2>4. CloseInv'
    BY <1>2, <2>1, <2>3 DEF CloseInv
  <2> QED
    BY <2>1, <2>2, <2>4
<1> QED
  BY <1>6, <1>7, <1>8

LEMMA CloseStore == ASSUME IInv, StoreInv, CloseNext \/ Closed PROVE StoreInv'
<1>1. pc = "close" /\ UNCHANGED <<archive, lease>>
  BY DEF CloseNext, Closed
<1>2. /\ TreeInv /\ LeaseInv /\ CloseInv /\ archive \in Archives
      /\ refused \in BOOLEAN /\ failed \in BOOLEAN
      /\ storage \notin {"committed", "clean", "failed"}
  BY <1>1 DEF StoreInv, PhaseInv, IInv, RunInv
<1>3. CASE CloseNext
  <2>1. pc' = pc /\ storage' = storage /\ todo # <<>> /\ todo' = Tail(todo)
    BY <1>3 DEF CloseNext
  <2>2. PICK isRefused \in BOOLEAN : Undo(todo[1], isRefused) /\ refused' = (refused \/ isRefused)
    BY <1>3 DEF CloseNext, Calls
  <2>3. TreeInv' /\ LeaseInv' /\ CloseInv' /\ failed' \in BOOLEAN
    BY <1>1, <1>2, <2>1, <2>2, CloseStep
  <2>4. refused' \in BOOLEAN
    BY <1>2, <2>2
  <2> QED
    BY <1>1, <1>2, <2>1, <2>3, <2>4 DEF StoreInv, PhaseInv
<1>4. CASE Closed
  <2>1. /\ todo = <<>> /\ pc' = "done" /\ storage' = IF failed THEN "failed" ELSE "clean"
        /\ UNCHANGED <<disk, failed, refused>>
    BY <1>4 DEF Closed
  <2>2. TreeInv' /\ LeaseInv'
    BY <1>1, <1>2, <2>1, SameStore
  <2>3. ~In(<<>>, todo)
    BY <2>1, EmptySeq DEF In
  <2>4. (failed => refused) /\ (~failed => DOMAIN disk = {})
    BY <1>2, <2>3 DEF CloseInv
  <2> QED
    BY <1>1, <1>2, <2>1, <2>2, <2>4 DEF StoreInv, PhaseInv
<1> QED
  BY <1>3, <1>4

LEMMA StoreInvariant == Spec => [](IInv /\ StoreInv)
<1>1. ASSUME IInv, StoreInv, [Next]_vars PROVE StoreInv'
  <2>1. CASE UNCHANGED vars
    <3>1. UNCHANGED <<archive, disk, lease, pc, todo, storage, run, remote, failed, refused>>
      BY <2>1 DEF vars
    <3>2. /\ TreeInv' /\ LeaseInv' /\ (KeptInv => KeptInv') /\ (AllGood => AllGood')
          /\ (AllWhole => AllWhole') /\ (AllMade => AllMade') /\ Layout' = Layout
      BY <1>1, <3>1, SameStore DEF StoreInv
    <3>3. /\ CreateInv => CreateInv'
          /\ ProgressInv => ProgressInv'
          /\ PresentInv => PresentInv'
          /\ SealInv => SealInv'
          /\ SettledInv => SettledInv'
          /\ CloseInv => CloseInv'
      <4>1. (CreateInv => CreateInv') /\ (ProgressInv => ProgressInv')
        BY <3>1, <3>2 DEF CreateInv, ProgressInv, Made, OwnsFile
      <4>2. SealInv => SealInv'
        BY <3>1 DEF SealInv, Good, OwnsDir, OwnsFile
      <4>3. CloseInv => CloseInv'
        BY <3>1, <3>2 DEF CloseInv, InsideOut
      <4> QED
        BY <3>1, <3>2, <4>1, <4>2, <4>3 DEF PresentInv, SettledInv
    <3> QED
      BY <1>1, <3>1, <3>2, <3>3 DEF StoreInv, PhaseInv
  <2>2. CASE Inspect \/ CreateNext \/ Configure
    BY <1>1, <2>2, InspectStore, CreateStore, ConfigureStore
  <2>3. CASE Runner
    BY <1>1, <2>3, RunnerStoreKept
  <2>4. CASE RunReturns \/ RunCutOff \/ SealNext
    BY <1>1, <2>4, RunEndsStore, SealStore
  <2>5. CASE SealFails \/ Sealed
    BY <1>1, <2>5, SealEndsStore DEF SealFails, Sealed
  <2>6. CASE Abort \/ Commit \/ CloseNext \/ Closed
    BY <1>1, <2>6, TransactionStore, CloseStore
  <2> QED
    BY <1>1, <2>1, <2>2, <2>3, <2>4, <2>5, <2>6 DEF Next, Installer
<1>2. Init => StoreInv
  BY StoreInit
<1> QED
  BY Invariant, <1>1, <1>2, PTL DEF Spec

-----------------------------------------------------------------------------
\* The state keeps its types, whatever a process of the runner does.
THEOREM TypeCorrect == Spec => []TypeOK
<1>1. IInv /\ StoreInv => TypeOK
  BY DEF IInv, RunInv, StoreInv, PhaseInv, TypeOK
<1> QED
  BY StoreInvariant, <1>1, PTL

\* The rollback of the store removes everything the lease and the seal made
\* its own, inside out, unless the system refused it something; and it says
\* "clean" only of an empty root (Lease.Close, SealGeneratedState).
THEOREM RollbackIsComplete == Spec => []RollbackComplete
<1>1. IInv /\ StoreInv => RollbackComplete
  BY DEF StoreInv, PhaseInv, RollbackComplete
<1> QED
  BY StoreInvariant, <1>1, PTL

\* A committed store holds the whole image and the state files of the
\* registration, all with the exact descriptor (SealGeneratedState,
\* verifyRegistrationState, the commit of the transaction).
THEOREM CommittedStoreIsSealed == Spec => []CommittedIsSealed
<1>1. IInv /\ StoreInv => CommittedIsSealed
  BY DEF StoreInv, PhaseInv, SettledInv, AllGood, Good, AllWhole, AllMade, Made, CommittedIsSealed
<1> QED
  BY StoreInvariant, <1>1, PTL

\* The image of a package that the inspection accepted extracts into the
\* fresh root: no object of it is refused by the store itself, unless an
\* entry names a directory whose parents the archive does not list, or the
\* root of the control image (Inspect, Extract, Lease.CreateDirectory and
\* CreateFile).
THEOREM AcceptedExtracts == Spec => []AcceptedPackageExtracts
<1>1. ASSUME IInv, StoreInv, pc = "create", todo # <<>>, ~Orphaned, ~ControlRootTaken
      PROVE  Creatable(todo[1])
  <2>1. archive \in Archives /\ CreateInv /\ Accepted(archive) /\ TreeInv
    BY <1>1 DEF StoreInv, PhaseInv, ProgressInv
  <2>2. PICK n \in 0..Len(Layout) : Reached(n, Layout, todo, disk)
    BY <1>1 DEF StoreInv, PhaseInv, ProgressInv
  <2>3. Buildable(Layout) /\ Layout \in Seq(Item)
    BY <1>1, <2>1, LayoutBuildable, LayoutType
  <2>4. /\ todo \in Seq(Item) /\ Len(todo) \in Nat /\ Len(Layout) \in Nat /\ n \in Nat
        /\ Len(todo) = Len(Layout) - n /\ DOMAIN Layout = 1..Len(Layout)
    BY <2>2, <2>3, LenProperties DEF Reached
  <2>5. Len(todo) # 0
    BY <1>1, <2>4
  <2>6. n + 1 \in DOMAIN Layout /\ 1 \in 1..Len(todo) /\ 1 + n = n + 1
    BY <2>4, <2>5
  <2>7. todo[1] = Layout[n + 1]
    BY <2>2, <2>6 DEF Reached
  <2>8. \A i \in DOMAIN Layout : i < n + 1 <=> i \in 1..n
    BY <2>4
  <2>9. \A i \in 1..n : i \in DOMAIN Layout
    BY <2>4
  <2> DEFINE L == Layout
  <2>10. Buildable(L) /\ n + 1 \in DOMAIN L
    BY <2>3, <2>6
  <2> HIDE DEF L
  <2>11. /\ \A i \in DOMAIN L : i < n + 1 => Spot(L[i]) # Spot(L[n + 1])
         /\ Spot(L[n + 1]) # <<>> => \E i \in DOMAIN L : i < n + 1 /\ Holds(L[i], L[n + 1])
    BY <2>10 DEF Buildable
  <2>12. Spot(todo[1]) \notin DOMAIN disk
    <3>1. \A i \in 1..n : Spot(Layout[i]) # Spot(todo[1])
      BY <2>7, <2>8, <2>9, <2>11 DEF L
    <3>2. DOMAIN disk = {Spot(Layout[i]) : i \in 1..n}
      BY <2>2 DEF Reached
    <3> QED
      BY <3>1, <3>2
  <2>13. ASSUME Spot(todo[1]) # <<>>
         PROVE  LET above == Above(Spot(todo[1]))
                IN OwnsDir(above) /\ above \in DOMAIN disk /\ disk[above].dir
    <3>1. PICK i \in 1..n : Layout[i].dir /\ Spot(Layout[i]) = Above(Spot(todo[1]))
      BY <2>7, <2>8, <2>11, <2>13 DEF L, Holds
    <3>2. Spot(Layout[i]) \in DOMAIN disk /\ disk[Spot(Layout[i])].dir
      BY <2>2, <3>1 DEF Reached
    <3>3. OwnsDir(Spot(Layout[i]))
      BY <2>1, <3>2 DEF CreateInv, AllGood, Good
    <3> QED
      BY <3>1, <3>2, <3>3
  <2> QED
    BY <2>12, <2>13 DEF Creatable, Spot
<1>2. IInv /\ StoreInv => AcceptedPackageExtracts
  BY <1>1 DEF AcceptedPackageExtracts
<1> QED
  BY StoreInvariant, <1>2, PTL

-----------------------------------------------------------------------------
\* When an installation that was not committed ends with the runner still
\* registered, its caller is told (registrationLease.Close, rollbackLocked).
THEOREM RegistrationIsAccounted == Spec => []RegistrationAccounted
<1>1. IInv => RegistrationAccounted
  BY DEF IInv, EndedInv, RegistrationAccounted
<1> QED
  BY Invariant, <1>1, PTL

\* GitHub is asked to forget the runner before the means to ask are removed
\* (rollbackLocked, ADR 0019).
THEOREM RemovalIsFirst == Spec => RemovalComesFirst
<1>1. ASSUME IInv, [Next]_vars, pc # "close", pc' = "close", run'.started
      PROVE  run'.command = "remove"
  <2> USE DEF IInv, RunInv, NotedInv, Untouched, NoRun
  <2>1. CASE CreateNext
    BY <1>1, <2>1 DEF CreateNext
  <2>2. ASSUME pc \in {"seal", "ready"}, CloseRegistration PROVE FALSE
    BY <1>1, <2>2 DEF CloseRegistration, Start
  <2>3. CASE Abort
    BY <2>2, <2>3 DEF Abort
  <2>4. ASSUME NEW sealed \in BOOLEAN, SealEnds(sealed) PROVE run'.command = "remove"
    <3>1. CASE run.command = "remove"
      BY <2>4, <3>1 DEF SealEnds
    <3>2. CASE run.command # "remove"
      BY <1>1, <2>2, <2>4, <3>2 DEF SealEnds
    <3> QED
      BY <3>1, <3>2
  <2>5. CASE Runner \/ UNCHANGED vars
    BY <1>1, <2>5
       DEF Runner, RunnerSpawns, WritesLog, WritesState, RunnerWrites, ErasesState,
           TalksToGitHub, LeaderExits, vars
  <2>6. CASE Inspect \/ Configure \/ RunReturns \/ RunCutOff \/ SealNext \/ Commit \/ CloseNext
             \/ Closed
    BY <1>1, <2>6
       DEF Inspect, Configure, Start, RunReturns, RunCutOff, SealAfterRun, SealNext, Commit,
           CloseNext, Closed
  <2> QED
    BY <1>1, <2>1, <2>3, <2>4, <2>5, <2>6 DEF Next, Installer, SealFails, Sealed
<1> QED
  BY Invariant, <1>1, PTL DEF Spec, RemovalComesFirst

-----------------------------------------------------------------------------
(***************************************************************************)
(* The installation transaction.                                           *)
(***************************************************************************)
\* The steps of Provision before the n-th.
Provisioned(n) == {Steps[i] : i \in FirstStep..(n - 1)}

Broker == IF platform = "linux" THEN "brokerUnit" ELSE "brokerService"
Accounts == {"controlUser", "executionUser"}
Committing == phase \in {"commitRunner", "commitService"}

\* Where things are: only objects of the platform, and nobody else's services or
\* entries in the approved roots.
PlaceInv ==
    /\ \A o \in HostObjects \ ToSet(Steps) : host[o] = "absent"
    /\ host["services"] # "foreign" /\ host["approvedRoots"] # "foreign"
    /\ phase = "install" /\ platform = "windows" => step < Len(Steps)

\* What has been made and recorded at each step.
RecordInv ==
    /\ phase = "install" =>
         /\ recorded = Provisioned(step)
         /\ \A o \in recorded : host[o] = "ours"
         /\ \A i \in 1..(step - 1) : Present(Steps[i])
    /\ Committing \/ phase = "start" =>
         /\ platform = "windows" /\ step = Len(Steps)
         /\ recorded = CASE phase = "commitRunner" -> Provisioned(step)
                         [] phase = "commitService" -> Provisioned(step - 1)
                         [] OTHER -> {}
         /\ \A o \in Provisioned(step) : host[o] = "ours"
         /\ \A o \in ControlFiles : Present(o)
    /\ phase = "rollback" =>
         \E n \in FirstStep..Len(Steps) : recorded = Provisioned(n)

\* What the preflight found absent is there only if it is recorded.
FreshInv ==
    /\ phase = "install" /\ step > FirstStep =>
         \A o \in Preflighted \ recorded : o \notin Ours
    /\ phase = "rollback" /\ platform = "linux" =>
         \A o \in Accounts \cap Ours :
             o \in pending \/ o \in Strays \/ (o = failedStep /\ o \notin recorded)

\* The services do not run while anything is made, and are the first to go.
ServicesInv ==
    /\ ServicesNeedEverything
    /\ (phase = "install" /\ step > FirstStep) \/ Committing => host["services"] # "ours"
    /\ phase \in {"rollback", "uninstall"} /\ host["services"] = "ours"
         => "services" \in pending

\* The approved roots have been changed and may be restored by a rollback.
MayRestore ==
    \/ phase = "install" /\ "approvedRoots" \in recorded
    \/ Committing
    \/ phase = "rollback" /\ "approvedRoots" \in pending

\* Ours is what was there before, or is still to be removed, or will be reported.
AccountInv ==
    /\ phase = "install" => Ours \subseteq before \cup ControlFiles \cup recorded
    /\ Committing => Ours \subseteq before \cup ControlFiles \cup Provisioned(step)
    /\ phase = "rollback" =>
         /\ masked \subseteq Residue
         /\ broken \/ Ours \subseteq before \cup ControlFiles \cup pending \cup Residue
    /\ MayRestore /\ saved # "absent" => "approvedRoots" \in before

\* How far a rollback is.
RollbackInv ==
    phase = "rollback" =>
        /\ pending \subseteq RollbackTargets(recorded)
        /\ \A i, j \in DOMAIN RollbackOrder :
               i < j /\ RollbackOrder[i] \in pending
                   /\ RollbackOrder[j] \in RollbackTargets(recorded)
               => RollbackOrder[j] \in pending
        /\ \A o \in pending \cap recorded : host[o] = "ours"

\* How far an uninstallation is.
UninstallInv ==
    phase = "uninstall" =>
        /\ \A o \in pending \ {"services"} : o \in Ours
        /\ \A o \in ToSet(Steps) \ (ControlFiles \cup {"approvedRoots"}) :
               o \in pending \/ o \notin Ours
        /\ pending \cap ControlFiles \subseteq metadata.owned
        /\ \A i, j \in DOMAIN UninstallOrder :
               i < j /\ UninstallOrder[i] \in pending
                   /\ UninstallOrder[j] \notin ControlFiles
               => UninstallOrder[j] \in pending
        /\ Ours \subseteq pending \cup metadata.before
        /\ saved # "absent" => "approvedRoots" \in metadata.before

\* A control file is accounted for by what the run has made and what it has found.
Covers(files, found, c) == c \in files \cup found \cup Foreign

\* What the installation state records is true of an installation that got as far
\* as the broker.
MetadataInv ==
    /\ phase = "install" =>
         /\ \A c \in owned : c \in Ours
         /\ Ours \cap ControlFiles \subseteq before \cup owned
         /\ \A i \in 1..(step - 1) : i < FirstStep => Covers(owned, before, Steps[i])
         /\ "root" \in recorded => metadata = [owned |-> owned, before |-> before]
    /\ Broker \in Ours =>
         /\ \A c \in ControlFiles : Covers(metadata.owned, metadata.before, c)
         /\ saved # "absent" => "approvedRoots" \in metadata.before
    /\ \A c \in metadata.owned : c \in Ours \/ "registration" \notin Ours

\* The last runs' ends.
EndInv == CleanFailureLeavesLittle /\ UninstallRestores

InstallInv ==
    /\ InstallTypeOK /\ PlaceInv /\ RecordInv /\ FreshInv /\ ServicesInv /\ AccountInv
    /\ RollbackInv /\ UninstallInv /\ MetadataInv /\ EndInv

-----------------------------------------------------------------------------
\* The order of the steps, as far as the invariant depends on it.
LEMMA StepList ==
    ASSUME platform \in {"linux", "windows"}
    PROVE  /\ Len(Steps) = IF platform = "linux" THEN 15 ELSE 13
           /\ \A i \in 1..Len(Steps) : Steps[i] \in HostObjects
           /\ \A i, j \in 1..Len(Steps) : Steps[i] = Steps[j] => i = j
  <1>1. CASE platform = "linux"
    BY <1>1 DEF Steps, LinuxSteps, HostObjects, ToSet
  <1>2. CASE platform = "windows"
    BY <1>2 DEF Steps, WindowsSteps, HostObjects, ToSet
  <1>3. QED BY <1>1, <1>2

\* There are steps after the control files on both platforms.
LEMMA StepCount ==
    ASSUME platform \in {"linux", "windows"}
    PROVE  /\ Len(Steps) \in Nat /\ 3 < Len(Steps)
           /\ 1 \in 1..Len(Steps) /\ 1..3 \subseteq 1..Len(Steps)
  <1>1. PICK m : m = Len(Steps)
    OBVIOUS
  <1>2. m = 15 \/ m = 13
    BY <1>1, StepList
  <1>3. m \in Nat /\ 3 < m /\ 1 \in 1..m /\ 1..3 \subseteq 1..m
    BY <1>2
  <1>4. QED BY <1>1, <1>3

\* Which steps are the control files, the services and the runner's service.
LEMMA StepNames ==
    ASSUME platform \in {"linux", "windows"}
    PROVE  /\ Steps[1] = "workflow" /\ Steps[2] = "version"
           /\ \A i \in 1..Len(Steps) : Steps[i] \in ControlFiles <=> i < FirstStep
           /\ \A i \in 1..Len(Steps) : Steps[i] = "services" <=> i = Len(Steps)
           /\ \A i \in 1..Len(Steps) :
                  Steps[i] = "runnerService" <=> platform = "windows" /\ i + 1 = Len(Steps)
  <1>1. CASE platform = "linux"
    BY <1>1 DEF Steps, LinuxSteps, ControlFiles, FirstStep
  <1>2. CASE platform = "windows"
    BY <1>2 DEF Steps, WindowsSteps, ControlFiles, FirstStep
  <1>3. QED BY <1>1, <1>2

\* Every step makes an object of the host, and only those are preflighted.
LEMMA StepSet ==
    ASSUME platform \in {"linux", "windows"}
    PROVE  /\ ToSet(Steps) = {Steps[i] : i \in 1..Len(Steps)}
           /\ ToSet(Steps) \subseteq HostObjects
           /\ ControlFiles \subseteq ToSet(Steps)
           /\ {"services", "approvedRoots", "registration", "root", "runner", "controlUser",
               "executionUser"} \subseteq ToSet(Steps)
           /\ Preflighted \subseteq ToSet(Steps) \ (ControlFiles \cup {"approvedRoots", "services"})
           /\ Broker \in Preflighted
           /\ {"none", "commitRunner", "commitService"} \cap HostObjects = {}
  <1>1. CASE platform = "linux"
    BY <1>1 DEF Steps, LinuxSteps, WindowsSteps, HostObjects, ControlFiles, ToSet, Broker,
                Preflighted
  <1>2. CASE platform = "windows"
    BY <1>2 DEF Steps, LinuxSteps, WindowsSteps, HostObjects, ControlFiles, ToSet, Broker,
                Preflighted
  <1>3. QED BY <1>1, <1>2

\* The broker and the registration come after the root and the approved roots.
LEMMA StepOrder ==
    ASSUME platform \in {"linux", "windows"}, NEW n \in FirstStep..Len(Steps),
           Steps[n] \in {"registration", "services", Broker}
    PROVE  {"root", "approvedRoots"} \subseteq Provisioned(n)
  <1>1. CASE platform = "linux"
    <2>1. n \in {12, 13, 15}
      BY <1>1 DEF Steps, LinuxSteps, FirstStep, Broker
    <2>2. Steps[7] = "root" /\ Steps[8] = "approvedRoots"
      BY <1>1 DEF Steps, LinuxSteps
    <2>3. 7 \in FirstStep..(n - 1) /\ 8 \in FirstStep..(n - 1)
      BY <2>1 DEF FirstStep
    <2>4. QED BY <2>2, <2>3 DEF Provisioned
  <1>2. CASE platform = "windows"
    <2>1. n \in {9, 11, 13}
      BY <1>2 DEF Steps, WindowsSteps, FirstStep, Broker
    <2>2. Steps[8] = "root" /\ Steps[5] = "approvedRoots"
      BY <1>2 DEF Steps, WindowsSteps
    <2>3. 8 \in FirstStep..(n - 1) /\ 5 \in FirstStep..(n - 1)
      BY <2>1 DEF FirstStep
    <2>4. QED BY <2>2, <2>3 DEF Provisioned
  <1>3. QED BY <1>1, <1>2

\* What becomes of an object is seen in what is ours, foreign or there at all.
LEMMA Changed ==
    ASSUME InstallTypeOK, NEW o \in HostObjects, NEW v \in {"absent", "ours", "foreign", "stray"},
           host' = [host EXCEPT ![o] = v]
    PROVE  /\ \A x \in HostObjects : host'[x] = IF x = o THEN v ELSE host[x]
           /\ host' \in [HostObjects -> {"absent", "ours", "foreign", "stray"}]
           /\ Ours' = IF v \in {"ours", "stray"} THEN Ours \cup {o} ELSE Ours \ {o}
           /\ Foreign' = IF v = "foreign" THEN Foreign \cup {o} ELSE Foreign \ {o}
           /\ Strays' = IF v = "stray" THEN Strays \cup {o} ELSE Strays \ {o}
  BY DEF InstallTypeOK, Ours, Foreign, Strays

\* A host nothing was installed on.
LEMMA InstallInitInv == InstallInit => InstallInv
  <1> SUFFICES ASSUME InstallInit PROVE InstallInv  OBVIOUS
  <1> USE DEF InstallInit
  <1>0. platform \in {"linux", "windows"} /\ 1 \in 1..Len(Steps)
    <2>1. platform \in {"linux", "windows"}
      OBVIOUS
    <2> HIDE DEF InstallInit
    <2>2. QED BY <2>1, StepCount
  <1>a. host \in [HostObjects -> {"absent", "ours", "foreign", "stray"}]
    OBVIOUS
  <1>b. metadata \in [owned : SUBSET ControlFiles, before : SUBSET HostObjects]
    OBVIOUS
  <1>c. runs \in 0..MaxRuns
    BY InstallAssumption
  <1>d. step \in 1..Len(Steps)
    BY <1>0
  <1>1. InstallTypeOK
    BY <1>a, <1>b, <1>c, <1>d DEF InstallTypeOK, Phases, Verdicts
  <1>2. Ours = {} /\ Foreign = {}
    BY DEF Ours, Foreign
  <1>3. PlaceInv
    <2>1. {"services", "approvedRoots"} \subseteq HostObjects
      BY <1>0, StepSet
    <2>2. QED BY <2>1 DEF PlaceInv
  <1>4. "services" \in HostObjects
    BY <1>0, StepSet
  <1>5. ServicesInv /\ FreshInv /\ RecordInv
    BY <1>4 DEF ServicesInv, ServicesNeedEverything, Committing, FreshInv, RecordInv
  <1>6. AccountInv /\ RollbackInv /\ UninstallInv /\ EndInv
    BY DEF AccountInv, RollbackInv, UninstallInv, EndInv, CleanFailureLeavesLittle,
           UninstallRestores, Committing, MayRestore
  <1>7. MetadataInv
    <2>1. metadata.owned = {} /\ phase # "install"
      OBVIOUS
    <2>2. QED BY <1>2, <2>1 DEF MetadataInv
  <1>8. QED
    BY <1>1, <1>3, <1>5, <1>6, <1>7 DEF InstallInv

\* The platform is that of the build: the orders never change.
LEMMA PlatformKept ==
    ASSUME platform' = platform
    PROVE  /\ Steps' = Steps /\ ToSet(Steps)' = ToSet(Steps)
           /\ RollbackOrder' = RollbackOrder /\ UninstallOrder' = UninstallOrder
           /\ Preflighted' = Preflighted /\ Broker' = Broker
           /\ \A n : Provisioned(n)' = Provisioned(n)
           /\ \A own : RollbackTargets(own)' = RollbackTargets(own)
  BY DEF Steps, RollbackOrder, UninstallOrder, Preflighted, Broker, Provisioned, RollbackTargets

\* Each step adds its own object to what the steps before it have made.
LEMMA ProvisionedUpTo ==
    ASSUME platform \in {"linux", "windows"}, NEW n \in FirstStep..Len(Steps)
    PROVE  /\ Provisioned(n) \subseteq ToSet(Steps) \ ControlFiles
           /\ Steps[n] \notin Provisioned(n)
           /\ Provisioned(n + 1) = Provisioned(n) \cup {Steps[n]}
           /\ "services" \notin Provisioned(n)
           /\ \A i \in FirstStep..(n - 1) : Steps[i] \in Provisioned(n)
  <1>1. Len(Steps) \in Nat /\ FirstStep = 3 /\ n \in 3..Len(Steps)
    BY StepList DEF FirstStep
  <1>2. \A i \in FirstStep..(n - 1) :
            i \in 1..Len(Steps) /\ i # n /\ i # Len(Steps) /\ ~(i < FirstStep)
    BY <1>1
  <1>3. FirstStep..((n + 1) - 1) = FirstStep..(n - 1) \cup {n}
    BY <1>1
  <1>4. n \in 1..Len(Steps)
    BY <1>1
  <1>5. Provisioned(n + 1) = Provisioned(n) \cup {Steps[n]}
    BY <1>3 DEF Provisioned
  <1>6. Steps[n] \notin Provisioned(n)
    BY <1>2, <1>4, StepList DEF Provisioned
  <1>7. Provisioned(n) \subseteq ToSet(Steps) \ ControlFiles /\ "services" \notin Provisioned(n)
    BY <1>2, StepNames, StepSet DEF Provisioned
  <1>8. QED BY <1>5, <1>6, <1>7 DEF Provisioned

\* The root and the approved roots are made before the registration and the broker.
LEMMA ProvisionedOrder ==
    ASSUME platform \in {"linux", "windows"}, NEW n \in FirstStep..Len(Steps),
           NEW x \in Provisioned(n), x \in {"registration", Broker}
    PROVE  {"root", "approvedRoots"} \subseteq Provisioned(n)
  <1>1. PICK i \in FirstStep..(n - 1) : x = Steps[i]
    BY DEF Provisioned
  <1>2. Len(Steps) \in Nat
    BY StepList
  <1>3. i \in FirstStep..Len(Steps) /\ \A j \in FirstStep..(i - 1) : j \in FirstStep..(n - 1)
    BY <1>1, <1>2 DEF FirstStep
  <1>4. {"root", "approvedRoots"} \subseteq Provisioned(i)
    BY <1>1, <1>3, StepOrder
  <1>5. QED BY <1>3, <1>4 DEF Provisioned

\* What the installation state says is still true when an object has been made.
LEMMA MetadataTrue ==
    ASSUME InstallInv, Provisions, platform' = platform,
           Current = "approvedRoots" \/ ~Present(Current),
           host' = [host EXCEPT ![Current] = "ours"],
           saved' = IF Current = "approvedRoots" THEN host[Current] ELSE saved,
           \/ metadata' = metadata
           \/ Current = "root" /\ metadata' = [owned |-> owned, before |-> before]
    PROVE  /\ Broker' \in Ours' =>
                /\ \A c \in ControlFiles : Covers(metadata.owned, metadata.before, c)'
                /\ saved' # "absent" => "approvedRoots" \in metadata'.before
           /\ \A c \in metadata'.owned : c \in Ours' \/ "registration" \notin Ours'
  <1>1. /\ platform \in {"linux", "windows"} /\ phase = "install" /\ Len(Steps) \in Nat
        /\ step \in FirstStep..Len(Steps) /\ step \in 1..Len(Steps) /\ FirstStep = 3
    BY StepList DEF InstallInv, InstallTypeOK, Provisions, FirstStep
  <1>2. /\ Current \in HostObjects /\ Current \notin ControlFiles /\ Current = Steps[step]
        /\ Broker' = Broker
    BY <1>1, StepList, StepNames, PlatformKept DEF Current
  <1>3. Ours' = Ours \cup {Current} /\ Foreign' = Foreign \ {Current}
    BY <1>2, Changed DEF InstallInv
  <1>4. /\ RecordInv /\ FreshInv /\ AccountInv /\ MetadataInv
        /\ recorded = Provisioned(step)
    BY <1>1 DEF InstallInv, RecordInv
  <1>5. Current \notin recorded
    BY <1>1, <1>2, <1>4, ProvisionedUpTo
  <1>6. Current \in {"registration", Broker} =>
            /\ {"root", "approvedRoots"} \subseteq recorded
            /\ metadata' = metadata /\ saved' = saved
            /\ metadata = [owned |-> owned, before |-> before]
    BY <1>1, <1>2, <1>4, <1>5, StepOrder DEF MetadataInv
  <1>7. \A c \in ControlFiles : Covers(owned, before, c)
    <2>1. Steps[1] = "workflow" /\ Steps[2] = "version"
      BY <1>1, StepNames
    <2>2. 1 \in 1..(step - 1) /\ 2 \in 1..(step - 1)
      BY <1>1
    <2>3. QED BY <1>1, <1>4, <2>1, <2>2 DEF MetadataInv, ControlFiles
  <1>8. ASSUME Broker \in Ours'
        PROVE  /\ \A c \in ControlFiles : Covers(metadata.owned, metadata.before, c)'
               /\ saved' # "absent" => "approvedRoots" \in metadata'.before
    <2>1. CASE Current = Broker
      <3>1. \A c \in ControlFiles : c \in owned \cup before \cup Foreign'
        BY <1>2, <1>3, <1>7 DEF Covers
      <3>2. saved # "absent" => "approvedRoots" \in before
        BY <1>1, <1>4, <1>6, <2>1 DEF AccountInv, MayRestore
      <3>3. QED BY <1>6, <2>1, <3>1, <3>2 DEF Covers
    <2>2. CASE Current # Broker
      <3>1. Broker \in Ours
        BY <1>3, <1>8, <2>2
      <3>2. Broker \in recorded
        <4>1. Broker \in Preflighted
          BY <1>1, StepSet
        <4>2. CASE step = FirstStep
          BY <3>1, <4>1, <4>2 DEF Provisions, Preflight, Present, Ours
        <4>3. CASE step # FirstStep
          BY <1>1, <1>4, <3>1, <4>1, <4>3 DEF FreshInv
        <4>4. QED BY <4>2, <4>3
      <3>3. {"root", "approvedRoots"} \subseteq recorded
        BY <1>1, <1>4, <3>2, ProvisionedOrder
      <3>4. metadata' = metadata /\ saved' = saved
        BY <1>5, <3>3
      <3>5. QED BY <1>2, <1>3, <1>4, <3>1, <3>4 DEF MetadataInv, Covers
    <2>3. QED BY <2>1, <2>2
  <1>9. ASSUME NEW c \in metadata'.owned, "registration" \in Ours'
        PROVE  c \in Ours'
    <2>1. c \in owned => c \in Ours
      BY <1>1, <1>4 DEF MetadataInv
    <2>2. CASE metadata' # metadata
      BY <1>3, <1>9, <2>1, <2>2
    <2>3. CASE metadata' = metadata /\ Current = "registration"
      BY <1>3, <1>6, <1>9, <2>1, <2>3
    <2>4. CASE metadata' = metadata /\ Current # "registration"
      BY <1>3, <1>4, <1>9, <2>4 DEF MetadataInv
    <2>5. QED BY <2>2, <2>3, <2>4
  <1>10. QED BY <1>2, <1>8, <1>9

\* Provision makes and records the next object, and after the last one commits.
LEMMA CreateObjectInv == InstallInv /\ CreateObject => InstallInv'
  <1> SUFFICES ASSUME InstallInv, CreateObject PROVE InstallInv'
    OBVIOUS
  <1>a. InstallTypeOK /\ platform \in {"linux", "windows"} /\ platform' = platform
    BY DEF InstallInv, InstallTypeOK, CreateObject
  <1>b. /\ Provisions /\ host' = [host EXCEPT ![Current] = "ours"]
        /\ recorded' = recorded \cup {Current}
        /\ saved' = IF Current = "approvedRoots" THEN host[Current] ELSE saved
        /\ metadata' = IF Current = "root" THEN [owned |-> owned, before |-> before] ELSE metadata
        /\ Current = "approvedRoots" \/ ~Present(Current)
        /\ UNCHANGED <<platform, failedStep, masked, broken, pending, owned, before, runs>>
    BY DEF CreateObject
  <1>0. /\ step \in FirstStep..Len(Steps) /\ Len(Steps) \in Nat /\ step \in 1..Len(Steps)
        /\ phase = "install"
    BY <1>a, <1>b, StepList DEF Provisions, InstallTypeOK, FirstStep
  <1>c. /\ Current \in HostObjects /\ Current \in ToSet(Steps) /\ Current \notin ControlFiles
        /\ step \in FirstStep..Len(Steps) /\ Len(Steps) \in Nat
        /\ phase = "install"
    <2>1. Current \in HostObjects
      BY <1>a, <1>0, StepList DEF Current
    <2>2. Current \notin ControlFiles
      BY <1>a, <1>0, StepNames DEF Current, FirstStep
    <2>3. Current \in ToSet(Steps)
      BY <1>a, <1>0, StepSet DEF Current
    <2>4. QED BY <1>0, <2>1, <2>2, <2>3
  <1>d. /\ recorded = Provisioned(step) /\ Current \notin recorded
        /\ recorded' = Provisioned(step + 1)
        /\ Provisioned(step + 1) = Provisioned(step) \cup {Current}
    <2>1. recorded = Provisioned(step)
      BY <1>c DEF InstallInv, RecordInv
    <2>2. QED
      BY <1>a, <1>b, <1>c, <2>1, ProvisionedUpTo DEF Current
  <1>e. /\ \A x \in HostObjects : host'[x] = IF x = Current THEN "ours" ELSE host[x]
        /\ host' \in [HostObjects -> {"absent", "ours", "foreign", "stray"}]
        /\ Ours' = Ours \cup {Current} /\ Foreign' = Foreign \ {Current}
    BY <1>a, <1>b, <1>c, Changed
  <1>f. Steps' = Steps /\ ToSet(Steps)' = ToSet(Steps) /\ Broker' = Broker
        /\ Preflighted' = Preflighted
    BY <1>a, PlatformKept
  <1>g. \/ /\ phase' = "install" /\ step' = step + 1 /\ verdict' = verdict
           /\ step < Len(Steps) /\ (platform = "windows" => step + 1 # Len(Steps))
           /\ Current # "services" /\ Current # "runnerService"
        \/ /\ phase' = "commitRunner" /\ step' = step + 1 /\ verdict' = verdict
           /\ step + 1 = Len(Steps) /\ platform = "windows" /\ Current = "runnerService"
        \/ /\ phase' = "idle" /\ step' = step /\ verdict' = "installed"
           /\ step = Len(Steps) /\ platform = "linux" /\ Current = "services"
    <2>1. platform = "windows" => step < Len(Steps)
      BY <1>c DEF InstallInv, PlaceInv
    <2>2. Current = "services" <=> step = Len(Steps)
      BY <1>a, <1>0, StepNames DEF Current
    <2>3. Current = "runnerService" <=> platform = "windows" /\ step + 1 = Len(Steps)
      BY <1>a, <1>0, StepNames DEF Current
    <2>4. /\ CASE Current = "services" -> End("installed") /\ step' = step
               [] Current = "runnerService" ->
                    phase' = "commitRunner" /\ step' = step + 1 /\ verdict' = verdict
               [] OTHER -> step' = step + 1 /\ UNCHANGED <<phase, verdict>>
      BY DEF CreateObject
    <2>5. QED
      BY <1>a, <1>c, <2>1, <2>2, <2>3, <2>4 DEF End, FirstStep
  <1>h. /\ \A x \in HostObjects : Present(x)' <=> x = Current \/ Present(x)
        /\ "services" \in HostObjects /\ "approvedRoots" \in HostObjects
        /\ ControlFiles \subseteq HostObjects /\ Preflighted \subseteq HostObjects
    BY <1>a, <1>e, StepSet DEF Present
  <1>i. PlaceInv /\ RecordInv /\ FreshInv /\ ServicesInv /\ AccountInv /\ MetadataInv
    BY DEF InstallInv
  <1>1. InstallTypeOK'
    <2>1. saved' \in {"absent", "ours", "stray"}
      BY <1>a, <1>b, <1>c, <1>i DEF InstallTypeOK, PlaceInv
    <2>2. metadata' \in [owned : SUBSET ControlFiles, before : SUBSET HostObjects]
      BY <1>a, <1>b DEF InstallTypeOK
    <2>3. step' \in 1..Len(Steps')
      BY <1>c, <1>f, <1>g DEF FirstStep
    <2>4. phase' \in Phases /\ verdict' \in Verdicts
      BY <1>a, <1>g DEF InstallTypeOK, Phases, Verdicts
    <2>5. recorded' \subseteq HostObjects
      BY <1>a, <1>b, <1>c DEF InstallTypeOK
    <2>6. QED
      BY <1>a, <1>b, <1>e, <2>1, <2>2, <2>3, <2>4, <2>5 DEF InstallTypeOK
  <1>2. PlaceInv'
    <2>1. \A x \in HostObjects \ ToSet(Steps)' : host'[x] = "absent"
      BY <1>c, <1>e, <1>f, <1>i DEF PlaceInv
    <2>2. host'["services"] # "foreign" /\ host'["approvedRoots"] # "foreign"
      BY <1>e, <1>h, <1>i DEF PlaceInv
    <2>3. phase' = "install" /\ platform' = "windows" => step' < Len(Steps')
      BY <1>a, <1>c, <1>f, <1>g DEF FirstStep
    <2>4. QED BY <2>1, <2>2, <2>3 DEF PlaceInv
  <1>3. RecordInv'
    <2>1. \A x \in recorded' : x \in HostObjects /\ host'[x] = "ours"
      BY <1>a, <1>b, <1>c, <1>e, <1>i DEF RecordInv, InstallTypeOK
    <2>2. \A i \in 1..step : Present(Steps[i])'
      <3>1. SUFFICES ASSUME NEW i \in 1..step PROVE Present(Steps[i])'
        OBVIOUS
      <3>2. i \in 1..Len(Steps) /\ (i = step \/ i \in 1..(step - 1))
        BY <1>c DEF FirstStep
      <3>3. Steps[i] \in HostObjects
        BY <1>a, <3>2, StepList
      <3>4. QED BY <1>c, <1>f, <1>h, <1>i, <3>2, <3>3 DEF RecordInv, Current
    <2>3. CASE phase' = "install"
      BY <1>c, <1>d, <1>f, <1>g, <2>1, <2>2, <2>3 DEF RecordInv, Committing, Provisioned, FirstStep
    <2>4. CASE phase' = "commitRunner"
      <3>1. step' = step + 1 /\ step' = Len(Steps) /\ platform = "windows"
        BY <1>g, <2>4
      <3>2. \A o \in ControlFiles : Present(o)'
        <4>1. 1 \in 1..step /\ 2 \in 1..step
          BY <1>c DEF FirstStep
        <4>2. Steps[1] = "workflow" /\ Steps[2] = "version"
          BY <1>a, StepNames
        <4>3. QED BY <1>f, <2>2, <4>1, <4>2 DEF ControlFiles
      <3>3. Provisioned(step)' = recorded'
        BY <1>a, <1>d, <3>1, PlatformKept DEF Provisioned
      <3>4. QED
        BY <1>a, <1>f, <2>1, <2>4, <3>1, <3>2, <3>3 DEF RecordInv, Committing
    <2>5. CASE phase' = "idle"
      BY <2>5 DEF RecordInv, Committing
    <2>6. QED BY <1>g, <2>3, <2>4, <2>5
  <1>4. FreshInv'
    <2>1. \A x \in Preflighted \ recorded : x \notin Ours
      <3>1. CASE step = FirstStep
        BY <1>b, <3>1 DEF Provisions, Preflight, Present, Ours
      <3>2. CASE step > FirstStep
        BY <1>c, <1>i, <3>2 DEF FreshInv
      <3>3. QED BY <1>c, <3>1, <3>2 DEF FirstStep
    <2>2. QED BY <1>b, <1>e, <1>f, <1>g, <2>1 DEF FreshInv
  <1>5. ServicesInv'
    <2>1. host["services"] # "ours"
      <3>1. CASE step = FirstStep
        BY <1>a, <1>b, <1>i, <3>1, StepSet
        DEF Provisions, Preflight, ServicesInv, ServicesNeedEverything
      <3>2. CASE step > FirstStep
        BY <1>c, <1>i, <3>2 DEF ServicesInv
      <3>3. QED BY <1>c, <3>1, <3>2 DEF FirstStep
    <2>2. host'["services"] = "ours" => Current = "services" /\ phase' = "idle"
      BY <1>e, <1>g, <1>h, <2>1
    <2>3. Current = "services" => \A x \in ToSet(Steps) : Present(x)'
      <3>1. SUFFICES ASSUME Current = "services", NEW x \in ToSet(Steps) PROVE Present(x)'
        OBVIOUS
      <3>2. PICK i \in 1..Len(Steps) : x = Steps[i]
        BY <1>a, StepSet
      <3>3. step = Len(Steps)
        BY <1>a, <1>0, <3>1, StepNames DEF Current
      <3>4. i = step \/ i \in 1..(step - 1)
        BY <1>0, <3>3
      <3>5. Present(x) \/ x = Current
        BY <1>0, <1>i, <3>2, <3>4 DEF RecordInv, Current
      <3>6. x \in HostObjects
        BY <1>a, StepSet
      <3>7. QED BY <1>h, <3>5, <3>6
    <2>4. QED BY <1>f, <2>2, <2>3 DEF ServicesInv, ServicesNeedEverything, Committing
  <1>6. AccountInv'
    <2>1. Ours' \subseteq before' \cup ControlFiles \cup recorded'
      BY <1>b, <1>c, <1>e, <1>i DEF AccountInv
    <2>2. "approvedRoots" \in recorded' /\ saved' # "absent" => "approvedRoots" \in before'
      <3>1. CASE Current = "approvedRoots"
        BY <1>b, <1>c, <1>d, <1>h, <1>i, <3>1, <1>a DEF AccountInv, PlaceInv, InstallTypeOK, Ours
      <3>2. CASE Current # "approvedRoots"
        BY <1>b, <1>c, <1>i, <3>2 DEF AccountInv, MayRestore
      <3>3. QED BY <3>1, <3>2
    <2>3. phase' = "commitRunner" => "approvedRoots" \in recorded' /\ Provisioned(step)' = recorded'
      <3>1. SUFFICES ASSUME phase' = "commitRunner"
                     PROVE  "approvedRoots" \in recorded' /\ Provisioned(step)' = recorded'
        OBVIOUS
      <3>2. step' = step + 1 /\ step' = Len(Steps) /\ step' \in FirstStep..Len(Steps)
        BY <1>0, <1>g, <3>1 DEF FirstStep
      <3>3. Len(Steps) \in FirstStep..Len(Steps) /\ Steps[Len(Steps)] = "services"
        BY <1>a, <1>0, <3>2, StepNames
      <3>4. "approvedRoots" \in Provisioned(Len(Steps))
        BY <1>a, <3>3, StepOrder
      <3>5. Provisioned(step)' = Provisioned(step')
        BY <1>f DEF Provisioned
      <3>6. QED BY <1>d, <3>2, <3>4, <3>5
    <2>4. QED BY <1>g, <2>1, <2>2, <2>3 DEF AccountInv, MayRestore, Committing
  <1>7. RollbackInv' /\ UninstallInv' /\ EndInv'
    BY <1>g DEF RollbackInv, UninstallInv, EndInv, CleanFailureLeavesLittle, UninstallRestores
  <1>8. MetadataInv'
    <2>1. /\ Broker' \in Ours' =>
               /\ \A c \in ControlFiles : Covers(metadata.owned, metadata.before, c)'
               /\ saved' # "absent" => "approvedRoots" \in metadata'.before
          /\ \A c \in metadata'.owned : c \in Ours' \/ "registration" \notin Ours'
      BY <1>a, <1>b, MetadataTrue
    <2>2. \A c \in owned' : c \in Ours'
      BY <1>b, <1>c, <1>e, <1>i DEF MetadataInv
    <2>3. \A i \in 1..(step' - 1) : i < FirstStep => Covers(owned, before, Steps[i])'
      <3>1. SUFFICES ASSUME NEW i \in 1..(step' - 1), i < FirstStep
                     PROVE  Covers(owned, before, Steps[i])'
        OBVIOUS
      <3>2. i \in 1..(step - 1) /\ i \in 1..Len(Steps)
        BY <1>0, <3>1 DEF FirstStep
      <3>3. Steps[i] # Current /\ Covers(owned, before, Steps[i])
        BY <1>a, <1>c, <1>i, <3>1, <3>2, StepNames DEF MetadataInv
      <3>4. QED BY <1>b, <1>e, <1>f, <3>3 DEF Covers
    <2>4. "root" \in recorded' => metadata' = [owned |-> owned, before |-> before]'
      BY <1>b, <1>c, <1>i DEF MetadataInv
    <2>5. phase' = "install" => Ours' \cap ControlFiles \subseteq before' \cup owned'
      BY <1>b, <1>c, <1>e, <1>i DEF MetadataInv
    <2>6. QED BY <2>1, <2>2, <2>3, <2>4, <2>5 DEF MetadataInv
  <1>9. QED
    BY <1>1, <1>2, <1>3, <1>4, <1>5, <1>6, <1>7, <1>8 DEF InstallInv

\* The list of the removals of a rollback.
LEMMA RollbackList ==
    ASSUME platform \in {"linux", "windows"}
    PROVE  /\ ToSet(RollbackOrder) = {RollbackOrder[i] : i \in DOMAIN RollbackOrder}
           /\ ToSet(Steps) \ ControlFiles \subseteq ToSet(RollbackOrder)
           /\ ToSet(RollbackOrder) \subseteq ToSet(Steps)
           /\ DOMAIN RollbackOrder = 1..13
           /\ \A i, j \in 1..13 : RollbackOrder[i] = RollbackOrder[j] => i = j
  <1>1. CASE platform = "linux"
    BY <1>1 DEF Steps, LinuxSteps, ControlFiles, ToSet, RollbackOrder
  <1>2. CASE platform = "windows"
    <2>1. DOMAIN RollbackOrder = 1..13 /\ \A i \in 1..13 : RollbackOrder[i] = WindowsSteps[14 - i]
      BY <1>2 DEF RollbackOrder, Reverse, WindowsSteps
    <2>2. \A i \in 1..13 : 14 - i \in 1..13 /\ 14 - (14 - i) = i
      OBVIOUS
    <2>3. DOMAIN WindowsSteps = 1..13 /\ Steps = WindowsSteps
      BY <1>2 DEF Steps, WindowsSteps
    <2>4. \A i, j \in 1..13 : WindowsSteps[i] = WindowsSteps[j] => i = j
      BY DEF WindowsSteps
    <2>5. ToSet(RollbackOrder) = ToSet(Steps)
      BY <2>1, <2>2, <2>3 DEF ToSet
    <2>6. \A i, j \in 1..13 : RollbackOrder[i] = RollbackOrder[j] => i = j
      BY <2>1, <2>2, <2>4
    <2>7. QED BY <2>1, <2>5, <2>6 DEF ToSet
  <1>3. QED BY <1>1, <1>2

\* What a rollback is about, when the installer gives up.
LEMMA GaveUp ==
    ASSUME platform \in {"linux", "windows"}, platform' = platform,
           NEW n \in FirstStep..Len(Steps), recorded' = Provisioned(n), phase' = "rollback",
           pending' = ToSet(RollbackOrder) \cap RollbackTargets(recorded'),
           \A o \in recorded' : host'[o] = "ours"
    PROVE  /\ RollbackInv'
           /\ recorded' \subseteq pending'
           /\ pending' \subseteq recorded' \cup {"services", "runnerUnit"}
           /\ pending' \subseteq HostObjects
           /\ Steps[n] = "services" /\ platform = "linux" => "services" \in pending'
  <1>1. RollbackTargets(recorded)' = RollbackTargets(recorded') /\ RollbackOrder' = RollbackOrder
    BY DEF RollbackTargets, RollbackOrder
  <1>2. recorded' \subseteq RollbackTargets(recorded')
        /\ RollbackTargets(recorded') \subseteq recorded' \cup {"services", "runnerUnit"}
    BY DEF RollbackTargets
  <1>3. recorded' \subseteq pending'
    BY <1>2, ProvisionedUpTo, RollbackList
  <1>4. RollbackInv'
    BY <1>1, RollbackList DEF RollbackInv
  <1>5. ASSUME Steps[n] = "services", platform = "linux"
        PROVE  "services" \in pending'
    <2>1. n = 15 /\ Steps[13] = "brokerUnit"
      BY <1>5 DEF Steps, LinuxSteps, FirstStep
    <2>2. 13 \in FirstStep..(n - 1)
      BY <2>1 DEF FirstStep
    <2>3. "brokerUnit" \in recorded'
      BY <2>1, <2>2 DEF Provisioned
    <2>4. "services" \in ToSet(RollbackOrder)
      BY <1>5 DEF RollbackOrder, ToSet
    <2>5. QED BY <1>5, <2>3, <2>4 DEF RollbackTargets
  <1>6. QED BY <1>2, <1>3, <1>4, <1>5, RollbackList, StepSet

\* A step fails, before or after it has made its object: Install rolls back.
LEMMA FailInv == InstallInv /\ (StepFails \/ StepFailsLate) => InstallInv'
  <1> SUFFICES ASSUME InstallInv, StepFails \/ StepFailsLate PROVE InstallInv'
    OBVIOUS
  <1>a. /\ platform \in {"linux", "windows"} /\ platform' = platform /\ Provisions
        /\ phase' = "rollback" /\ failedStep' = Current /\ InstallTypeOK
        /\ pending' = ToSet(RollbackOrder) \cap RollbackTargets(recorded')
        /\ masked' \in Masked
        /\ UNCHANGED <<step, broken, owned, metadata, before, verdict, runs>>
    BY DEF InstallInv, InstallTypeOK, StepFails, StepFailsLate, GiveUp
  <1>b. \/ host' = host /\ saved' = saved /\ recorded' = recorded
        \/ /\ host' = [host EXCEPT ![Current] = "ours"]
           /\ saved' = IF Current = "approvedRoots" THEN host[Current] ELSE saved
           /\ Current = "approvedRoots" \/ ~Present(Current)
           /\ recorded' = IF platform = "linux" \/ Current \in {"approvedRoots", "profile", "temp"}
                          THEN recorded ELSE recorded \cup {Current}
    BY DEF StepFails, StepFailsLate, GiveUp
  <1>0. /\ step \in FirstStep..Len(Steps) /\ Len(Steps) \in Nat /\ step \in 1..Len(Steps)
        /\ phase = "install" /\ FirstStep = 3
    BY <1>a, StepList DEF Provisions, InstallTypeOK, FirstStep
  <1>c. /\ Current \in HostObjects /\ Current \in ToSet(Steps) /\ Current \notin ControlFiles
        /\ Current = Steps[step]
    BY <1>a, <1>0, StepList, StepNames, StepSet DEF Current
  <1>d. /\ PlaceInv /\ RecordInv /\ FreshInv /\ ServicesInv /\ AccountInv /\ MetadataInv
        /\ recorded = Provisioned(step) /\ Current \notin recorded
    BY <1>a, <1>0, <1>c, ProvisionedUpTo DEF InstallInv, RecordInv
  <1>e. /\ \A x \in HostObjects : host'[x] = host[x] \/ (x = Current /\ host'[x] = "ours")
        /\ host' \in [HostObjects -> {"absent", "ours", "foreign", "stray"}]
        /\ Ours \subseteq Ours' /\ Ours' \subseteq Ours \cup {Current}
    <2>1. CASE host' = host
      BY <1>a, <2>1 DEF InstallTypeOK, Ours
    <2>2. CASE host' = [host EXCEPT ![Current] = "ours"]
      <3>1. /\ \A x \in HostObjects : host'[x] = IF x = Current THEN "ours" ELSE host[x]
            /\ host' \in [HostObjects -> {"absent", "ours", "foreign", "stray"}]
            /\ Ours' = Ours \cup {Current}
        BY <1>a, <1>c, <2>2, Changed
      <3>2. QED BY <3>1
    <2>3. QED BY <1>b, <2>1, <2>2
  <1>f. PICK n \in FirstStep..Len(Steps) :
            /\ recorded' = Provisioned(n) /\ n \in {step, step + 1}
            /\ n = step + 1 => platform = "windows"
    <2>1. CASE recorded' = recorded
      BY <1>0, <1>d, <2>1
    <2>2. CASE recorded' = recorded \cup {Current} /\ platform = "windows"
      <3>1. step + 1 \in FirstStep..Len(Steps)
        BY <1>0, <1>d, <2>2 DEF PlaceInv
      <3>2. QED BY <1>0, <1>a, <1>c, <1>d, <2>2, <3>1, ProvisionedUpTo
    <2>3. QED BY <1>a, <1>b, <2>1, <2>2
  <1>g. \A o \in recorded' : o \in HostObjects /\ host'[o] = "ours"
    <2>1. \A o \in recorded : o \in HostObjects /\ host[o] = "ours"
      BY <1>0, <1>a, <1>d DEF RecordInv, InstallTypeOK
    <2>2. \A o \in recorded : host'[o] = "ours"
      BY <1>e, <2>1
    <2>3. recorded' = recorded \/ (recorded' = recorded \cup {Current} /\ host'[Current] = "ours")
      BY <1>a, <1>b, <1>c DEF InstallTypeOK
    <2>4. QED BY <1>c, <2>1, <2>2, <2>3
  <1>h. /\ RollbackInv' /\ recorded' \subseteq pending'
        /\ pending' \subseteq recorded' \cup {"services", "runnerUnit"}
        /\ pending' \subseteq HostObjects
        /\ Steps[n] = "services" /\ platform = "linux" => "services" \in pending'
    BY <1>a, <1>f, <1>g, GaveUp
  <1>i. Steps' = Steps /\ ToSet(Steps)' = ToSet(Steps) /\ Broker' = Broker
    BY <1>a, PlatformKept
  <1>j. /\ Current \notin {"none", "commitRunner", "commitService"}
        /\ {"services", "approvedRoots"} \subseteq HostObjects
    BY <1>a, <1>c, StepSet
  <1>k. /\ masked' \subseteq Residue' /\ masked' \subseteq HostObjects /\ Current \in Residue'
    <2>1. CASE platform = "linux"
      <3>0. Residue' = {failedStep', "registration"}
        BY <1>a, <1>j, <2>1 DEF Residue
      <3>a. Masked = {{"registration"}}
        BY <2>1 DEF Masked
      <3>1. Residue' = {Current, "registration"} /\ masked' = {"registration"}
        BY <1>a, <3>0, <3>a
      <3>2. "registration" \in HostObjects
        BY <1>a, StepSet
      <3>3. QED BY <3>1, <3>2
    <2>2. CASE platform = "windows"
      <3>1. Stage(failedStep)' = Stage(Current) /\ Current \in Stage(Current)
        BY <1>a DEF Stage
      <3>2. Residue' = Stage(Current)
        BY <1>a, <1>j, <2>2, <3>1 DEF Residue
      <3>3. Stage(Current) \subseteq HostObjects
        BY <1>c DEF Stage, HostObjects, LinuxSteps, WindowsSteps, ToSet
      <3>4. QED BY <1>a, <2>2, <3>1, <3>2, <3>3 DEF Masked
    <2>3. QED BY <1>a, <2>1, <2>2
  <1>1. InstallTypeOK'
    <2>1. saved' \in {"absent", "ours", "stray"}
      BY <1>a, <1>b, <1>c, <1>d DEF InstallTypeOK, PlaceInv
    <2>2. phase' \in Phases /\ verdict' \in Verdicts
      BY <1>a DEF InstallTypeOK, Phases
    <2>3. failedStep' \in HostObjects \cup {"none", "commitRunner", "commitService"}
      BY <1>a, <1>c
    <2>4. QED
      BY <1>a, <1>e, <1>g, <1>h, <1>i, <1>k, <2>1, <2>2, <2>3 DEF InstallTypeOK
  <1>2. PlaceInv'
    BY <1>a, <1>c, <1>d, <1>e, <1>i, <1>j DEF PlaceInv
  <1>3. RecordInv'
    <2>1. Provisioned(n)' = Provisioned(n)
      BY <1>i DEF Provisioned
    <2>2. QED BY <1>a, <1>f, <1>i, <2>1 DEF RecordInv, Committing
  <1>4. FreshInv'
    <2>1. \A x \in Preflighted \ recorded : x \notin Ours
      <3>1. CASE step = FirstStep
        BY <1>a, <3>1 DEF Provisions, Preflight, Present, Ours
      <3>2. CASE step # FirstStep
        BY <1>0, <1>d, <3>2 DEF FreshInv
      <3>3. QED BY <3>1, <3>2
    <2>2. platform = "linux" => Accounts \subseteq Preflighted /\ recorded' = recorded
      BY <1>b DEF Accounts, Preflighted
    <2>3. QED BY <1>a, <1>d, <1>e, <1>h, <2>1, <2>2 DEF FreshInv
  <1>5. ServicesInv'
    <2>1. host["services"] # "ours"
      <3>1. CASE step = FirstStep
        BY <1>a, <1>d, <3>1, StepSet DEF Provisions, Preflight, ServicesInv, ServicesNeedEverything
      <3>2. CASE step # FirstStep
        BY <1>0, <1>d, <3>2 DEF ServicesInv
      <3>3. QED BY <3>1, <3>2
    <2>2. CASE host'["services"] # "ours"
      BY <1>a, <2>2 DEF ServicesInv, ServicesNeedEverything, Committing
    <2>3. CASE host'["services"] = "ours"
      <3>1. Current = "services"
        BY <1>e, <1>j, <2>1, <2>3
      <3>2. step = Len(Steps) /\ platform = "linux" /\ n = step
        <4>1. step = Len(Steps)
          BY <1>a, <1>0, <1>c, <3>1, StepNames
        <4>2. platform = "linux"
          BY <1>a, <1>0, <1>d, <4>1 DEF PlaceInv
        <4>3. QED BY <1>f, <4>1, <4>2
      <3>3. "services" \in pending'
        BY <1>c, <1>h, <3>1, <3>2
      <3>4. ASSUME NEW x \in ToSet(Steps) PROVE Present(x)'
        <4>1. PICK i \in 1..Len(Steps) : x = Steps[i]
          BY <1>a, StepSet
        <4>2. i = step \/ i \in 1..(step - 1)
          BY <1>0, <3>2
        <4>3. Present(x) \/ (x = Current /\ host'[x] = "ours")
          BY <1>0, <1>c, <1>d, <2>3, <3>1, <4>1, <4>2 DEF RecordInv
        <4>4. x \in HostObjects
          BY <1>a, StepSet
        <4>5. QED BY <1>e, <4>3, <4>4 DEF Present
      <3>5. QED BY <1>a, <1>i, <3>3, <3>4 DEF ServicesInv, ServicesNeedEverything, Committing
    <2>4. QED BY <2>2, <2>3
  <1>6. AccountInv'
    <2>1. Ours' \subseteq before' \cup ControlFiles \cup pending' \cup Residue'
      <3>1. Ours \subseteq before' \cup ControlFiles \cup recorded
        BY <1>a, <1>0, <1>d DEF AccountInv
      <3>2. recorded \subseteq recorded'
        BY <1>b
      <3>3. QED BY <1>e, <1>h, <1>k, <3>1, <3>2
    <2>2. "approvedRoots" \in pending' /\ saved' # "absent" => "approvedRoots" \in before'
      <3>1. SUFFICES ASSUME "approvedRoots" \in pending', saved' # "absent"
                     PROVE  "approvedRoots" \in before'
        OBVIOUS
      <3>2. "approvedRoots" \in recorded'
        BY <1>h, <3>1
      <3>3. "approvedRoots" \in recorded /\ Current # "approvedRoots" /\ saved' = saved
        BY <1>b, <1>d, <3>2
      <3>4. QED BY <1>a, <1>0, <1>d, <3>1, <3>3 DEF AccountInv, MayRestore
    <2>3. QED BY <1>a, <1>k, <2>1, <2>2 DEF AccountInv, MayRestore, Committing
  <1>7. UninstallInv' /\ EndInv'
    BY <1>a DEF UninstallInv, EndInv, CleanFailureLeavesLittle, UninstallRestores
  <1>8. MetadataInv'
    <2>1. CASE host' = host /\ saved' = saved
      <3>1. Ours' = Ours /\ Foreign' = Foreign
        BY <2>1 DEF Ours, Foreign
      <3>2. QED BY <1>a, <1>d, <1>i, <2>1, <3>1 DEF MetadataInv, Covers
    <2>2. CASE /\ host' = [host EXCEPT ![Current] = "ours"]
               /\ saved' = IF Current = "approvedRoots" THEN host[Current] ELSE saved
               /\ Current = "approvedRoots" \/ ~Present(Current)
      BY <1>a, <2>2, MetadataTrue DEF MetadataInv
    <2>3. QED BY <1>b, <2>1, <2>2
  <1>9. QED
    BY <1>1, <1>2, <1>3, <1>4, <1>5, <1>6, <1>7, <1>8, <1>h DEF InstallInv

\* Somebody else makes an object the installer knows.
LEMMA ForeignInv == InstallInv /\ (\E o \in HostObjects : ForeignAppears(o)) => InstallInv'
  <1> SUFFICES ASSUME InstallInv, NEW o \in HostObjects, ForeignAppears(o) PROVE InstallInv'
    OBVIOUS
  <1>a. /\ platform \in {"linux", "windows"} /\ platform' = platform /\ InstallTypeOK
        /\ host' = [host EXCEPT ![o] = "foreign"] /\ ~Present(o)
        /\ o \notin {"approvedRoots", "services"} /\ o \in ToSet(Steps)
        /\ UNCHANGED <<phase, step, recorded, failedStep, masked, broken, pending, owned, saved,
                       metadata, before, verdict, runs>>
    BY DEF InstallInv, InstallTypeOK, ForeignAppears
  <1>b. /\ \A x \in HostObjects : host'[x] = IF x = o THEN "foreign" ELSE host[x]
        /\ host' \in [HostObjects -> {"absent", "ours", "foreign", "stray"}]
        /\ Ours' = Ours \ {o} /\ Foreign' = Foreign \cup {o} /\ Strays' = Strays \ {o}
    BY <1>a, Changed
  <1>c. /\ Ours' = Ours /\ Strays' = Strays /\ Foreign \subseteq Foreign'
        /\ \A x \in HostObjects : Present(x) => Present(x)'
        /\ \A x \in HostObjects : host'[x] = "ours" <=> host[x] = "ours"
    BY <1>a, <1>b DEF Ours, Strays, Present
  <1>d. /\ Steps' = Steps /\ ToSet(Steps)' = ToSet(Steps) /\ Broker' = Broker
        /\ Preflighted' = Preflighted /\ RollbackOrder' = RollbackOrder
        /\ UninstallOrder' = UninstallOrder
        /\ \A n : Provisioned(n)' = Provisioned(n)
        /\ \A own : RollbackTargets(own)' = RollbackTargets(own)
    BY <1>a, PlatformKept
  <1>e. /\ {"services", "approvedRoots"} \subseteq HostObjects /\ ToSet(Steps) \subseteq HostObjects
        /\ ControlFiles \subseteq HostObjects /\ Len(Steps) \in Nat
        /\ \A i \in 1..Len(Steps) : Steps[i] \in HostObjects
    BY <1>a, StepSet, StepList
  <1>f. PlaceInv /\ RecordInv /\ FreshInv /\ ServicesInv /\ AccountInv /\ RollbackInv
        /\ UninstallInv /\ MetadataInv /\ EndInv
    BY DEF InstallInv
  <1>1. InstallTypeOK'
    BY <1>a, <1>b, <1>d DEF InstallTypeOK
  <1>2. PlaceInv'
    BY <1>a, <1>b, <1>d, <1>e, <1>f DEF PlaceInv
  <1>3. RecordInv'
    <2>0. Provisioned(step)' = Provisioned(step) /\ Provisioned(step - 1)' = Provisioned(step - 1)
      BY <1>a, <1>d DEF Provisioned
    <2>1. phase' = "install" => (/\ recorded' = Provisioned(step)'
                                 /\ \A x \in recorded' : host'[x] = "ours"
                                 /\ \A i \in 1..(step' - 1) : Present(Steps[i])')
      <3>1. SUFFICES ASSUME phase = "install" 
                     PROVE /\ recorded = Provisioned(step)
                           /\ \A x \in recorded : host'[x] = "ours"
                           /\ \A i \in 1..(step - 1) : Present(Steps[i])'
        BY <1>a, <2>0
      <3>2. recorded \subseteq HostObjects /\ \A i \in 1..(step - 1) : i \in 1..Len(Steps)
        BY <1>a, <1>e DEF InstallTypeOK
      <3>3. QED BY <1>c, <1>d, <1>e, <1>f, <3>1, <3>2 DEF RecordInv
    <2>2. Committing' \/ phase' = "start" =>
              (/\ platform' = "windows" /\ step' = Len(Steps)'
               /\ recorded' = CASE phase' = "commitRunner" -> Provisioned(step)'
                                [] phase' = "commitService" -> Provisioned(step - 1)'
                                [] OTHER -> {}
               /\ \A x \in Provisioned(step)' : host'[x] = "ours"
               /\ \A x \in ControlFiles : Present(x)')
      <3>1. SUFFICES ASSUME Committing \/ phase = "start"
                     PROVE  /\ platform = "windows" /\ step = Len(Steps)
                            /\ recorded = CASE phase = "commitRunner" -> Provisioned(step)
                                [] phase = "commitService" -> Provisioned(step - 1)
                                [] OTHER -> {}
                            /\ \A x \in Provisioned(step) : host'[x] = "ours"
                            /\ \A x \in ControlFiles : Present(x)'
        BY <1>a, <1>d, <2>0 DEF Committing
      <3>2. step \in FirstStep..Len(Steps)
        <4>1. step = Len(Steps)
          BY <1>f, <3>1 DEF RecordInv
        <4>2. Len(Steps) = 15 \/ Len(Steps) = 13
          BY <1>a, StepList
        <4>3. QED BY <4>1, <4>2 DEF FirstStep
      <3>3. Provisioned(step) \subseteq HostObjects
        BY <1>a, <1>e, <3>2, ProvisionedUpTo
      <3>4. QED BY <1>c, <1>e, <1>f, <3>1, <3>3 DEF RecordInv
    <2>3. phase' = "rollback" => \E n \in FirstStep..Len(Steps)' : recorded' = Provisioned(n)'
      BY <1>a, <1>d, <1>f DEF RecordInv
    <2>4. QED BY <2>1, <2>2, <2>3 DEF RecordInv
  <1>4. FreshInv'
    BY <1>a, <1>c, <1>d, <1>f DEF FreshInv
  <1>5. ServicesInv'
    BY <1>a, <1>c, <1>d, <1>e, <1>f DEF ServicesInv, ServicesNeedEverything, Committing
  <1>6. AccountInv'
    BY <1>a, <1>c, <1>d, <1>f DEF AccountInv, Committing, MayRestore, Residue, Stage
  <1>7. RollbackInv'
    <2>1. phase = "rollback" => pending \subseteq HostObjects
      BY <1>a DEF InstallTypeOK
    <2>2. QED BY <1>a, <1>c, <1>d, <1>f, <2>1 DEF RollbackInv
  <1>8. UninstallInv'
    BY <1>a, <1>c, <1>d, <1>f DEF UninstallInv
  <1>9. MetadataInv'
    BY <1>a, <1>c, <1>d, <1>f DEF MetadataInv, Covers
  <1>10. EndInv'
    BY <1>a, <1>c, <1>d, <1>f
    DEF EndInv, CleanFailureLeavesLittle, UninstallRestores, NewObjects, Residue, Stage
  <1>11. QED
    BY <1>1, <1>2, <1>3, <1>4, <1>5, <1>6, <1>7, <1>8, <1>9, <1>10 DEF InstallInv

\* A step that ends a run, or keeps things as they are, and touches no object.
LEMMA EndsInv ==
    ASSUME InstallInv, phase' = "idle", verdict' \in Verdicts,
           verdict' = "failed" => phase = "rollback" /\ pending = {} /\ ~broken,
           verdict' = "uninstalled" => phase = "uninstall" /\ pending = {},
           UNCHANGED <<platform, host, step, recorded, failedStep, masked, broken, pending,
                       owned, saved, metadata, before, runs>>
    PROVE  InstallInv'
  <1>a. /\ InstallTypeOK /\ PlaceInv /\ ServicesInv /\ AccountInv /\ UninstallInv /\ MetadataInv
        /\ platform' = platform
    BY DEF InstallInv
  <1>b. Ours' = Ours /\ Foreign' = Foreign
    BY DEF Ours, Foreign
  <1>c. /\ Steps' = Steps /\ ToSet(Steps)' = ToSet(Steps) /\ Broker' = Broker
    BY PlatformKept
  <1>1. InstallTypeOK'
    BY <1>a, <1>c DEF InstallTypeOK, Phases
  <1>2. PlaceInv'
    BY <1>a, <1>c DEF PlaceInv
  <1>3. RecordInv' /\ FreshInv' /\ RollbackInv' /\ UninstallInv' /\ AccountInv'
    BY DEF RecordInv, FreshInv, RollbackInv, UninstallInv, AccountInv, Committing, MayRestore
  <1>4. ServicesInv'
    BY <1>a, <1>c DEF ServicesInv, ServicesNeedEverything, Committing, Present
  <1>5. MetadataInv'
    BY <1>a, <1>b, <1>c DEF MetadataInv, Covers
  <1>6. EndInv'
    <2>1. Residue' = Residue
      BY DEF Residue, Stage
    <2>2. CleanFailureLeavesLittle'
      BY <1>a, <1>b, <2>1 DEF CleanFailureLeavesLittle, AccountInv, NewObjects
    <2>3. UninstallRestores'
      BY <1>a, <1>b DEF UninstallRestores, UninstallInv
    <2>4. QED BY <2>2, <2>3 DEF EndInv
  <1>7. QED
    BY <1>1, <1>2, <1>3, <1>4, <1>5, <1>6 DEF InstallInv

\* A run ends and leaves the host as it is.
LEMMA EndingInv ==
    InstallInv /\ (RollbackEnds \/ UninstallFails \/ UninstallEnds \/ Killed) => InstallInv'
  <1>1. ASSUME InstallInv, RollbackEnds PROVE InstallInv'
    BY <1>1, EndsInv DEF RollbackEnds, End, Verdicts, InstallInv, InstallTypeOK
  <1>2. ASSUME InstallInv, UninstallFails PROVE InstallInv'
    BY <1>2, EndsInv DEF UninstallFails, End, Verdicts
  <1>3. ASSUME InstallInv, UninstallEnds PROVE InstallInv'
    BY <1>3, EndsInv DEF UninstallEnds, End, Verdicts
  <1>4. ASSUME InstallInv, Killed PROVE InstallInv'
    BY <1>4, EndsInv DEF Killed, End, Verdicts
  <1>5. QED BY <1>1, <1>2, <1>3, <1>4

\* Install begins on a host whose last run has ended.
LEMMA BeginInv == InstallInv /\ Install => InstallInv'
  <1> SUFFICES ASSUME InstallInv, Install PROVE InstallInv'
    OBVIOUS
  <1>a. /\ platform \in {"linux", "windows"} /\ platform' = platform /\ InstallTypeOK
        /\ phase' = "install" /\ step' = 1 /\ recorded' = {} /\ failedStep' = "none"
        /\ masked' = {} /\ broken' = FALSE /\ owned' = {} /\ before' = Ours /\ verdict' = "none"
        /\ runs' \in 0..MaxRuns
        /\ UNCHANGED <<host, pending, saved, metadata>>
    BY InstallAssumption DEF InstallInv, InstallTypeOK, Install
  <1>b. /\ PlaceInv /\ ServicesInv /\ MetadataInv /\ Ours' = Ours /\ Foreign' = Foreign
    BY <1>a DEF InstallInv, Ours, Foreign
  <1>c. /\ Steps' = Steps /\ ToSet(Steps)' = ToSet(Steps) /\ Broker' = Broker
    BY <1>a, PlatformKept
  <1>d. 1 \in 1..Len(Steps) /\ 1 < Len(Steps)
    BY <1>a, StepCount
  <1>e. Ours \subseteq HostObjects
    BY DEF Ours
  <1>1. InstallTypeOK'
    BY <1>a, <1>c, <1>d, <1>e DEF InstallTypeOK, Phases, Verdicts
  <1>2. PlaceInv'
    BY <1>a, <1>b, <1>c, <1>d DEF PlaceInv
  <1>3. RecordInv'
    BY <1>a, <1>c DEF RecordInv, Provisioned, FirstStep, Committing
  <1>4. FreshInv' /\ RollbackInv' /\ UninstallInv' /\ EndInv'
    BY <1>a DEF FreshInv, RollbackInv, UninstallInv, EndInv, FirstStep, CleanFailureLeavesLittle,
                UninstallRestores
  <1>5. ServicesInv'
    BY <1>a, <1>b, <1>c DEF ServicesInv, ServicesNeedEverything, Committing, Present, FirstStep
  <1>6. AccountInv'
    BY <1>a, <1>b DEF AccountInv, Committing, MayRestore
  <1>7. MetadataInv'
    BY <1>a, <1>b, <1>c DEF MetadataInv, Covers
  <1>8. QED
    BY <1>1, <1>2, <1>3, <1>4, <1>5, <1>6, <1>7 DEF InstallInv

\* Before Provision only control files are made, and nothing is recorded.
LEMMA ControlFileInv == InstallInv /\ (EnsureControlFile \/ Refused) => InstallInv'
  <1> SUFFICES ASSUME InstallInv, EnsureControlFile \/ Refused PROVE InstallInv'
    OBVIOUS
  <1>a. /\ platform \in {"linux", "windows"} /\ platform' = platform /\ InstallTypeOK
        /\ phase = "install" /\ step \in 1..FirstStep /\ FirstStep = 3
        /\ UNCHANGED <<recorded, masked, broken, pending, saved, metadata, before, runs>>
    BY DEF InstallInv, InstallTypeOK, EnsureControlFile, Refused, FirstStep
  <1>b. /\ PlaceInv /\ RecordInv /\ ServicesInv /\ AccountInv /\ MetadataInv
    BY DEF InstallInv
  <1>c. /\ Steps' = Steps /\ ToSet(Steps)' = ToSet(Steps) /\ Broker' = Broker
    BY <1>a, PlatformKept
  <1>d. /\ Len(Steps) \in Nat /\ 3 < Len(Steps) /\ 1..FirstStep \subseteq 1..Len(Steps)
        /\ Current \in HostObjects /\ Current = Steps[step]
        /\ step < FirstStep => Current \in ControlFiles
    <2>1. Len(Steps) \in Nat /\ 3 < Len(Steps) /\ 1..3 \subseteq 1..Len(Steps)
      BY <1>a, StepCount
    <2>2. step \in 1..Len(Steps)
      BY <1>a DEF InstallTypeOK
    <2>3. Current \in HostObjects
      BY <1>a, <2>2, StepList DEF Current
    <2>4. step < FirstStep => Current \in ControlFiles
      BY <1>a, <2>2, StepNames DEF Current
    <2>5. QED BY <1>a, <2>1, <2>3, <2>4 DEF Current
  <1>e. recorded = {}
    BY <1>a, <1>b DEF RecordInv, Provisioned
  <1>f. \/ host' = host
        \/ /\ step < FirstStep /\ ~Present(Current)
           /\ host' = [host EXCEPT ![Current] = "ours"]
    <2>1. CASE EnsureControlFile
      <3>1. CASE Present(Current)
        BY <1>a, <1>d, <2>1, <3>1 DEF EnsureControlFile, Present, InstallTypeOK
      <3>2. CASE ~Present(Current)
        BY <2>1, <3>2 DEF EnsureControlFile, Present
      <3>3. QED BY <3>1, <3>2
    <2>2. CASE Refused
      BY <2>2 DEF Refused
    <2>3. QED BY <2>1, <2>2
  <1>g. /\ \A x \in HostObjects :
               host'[x] = host[x] \/ (step < FirstStep /\ x = Current /\ host'[x] = "ours")
        /\ host' \in [HostObjects -> {"absent", "ours", "foreign", "stray"}]
        /\ Ours \subseteq Ours' /\ Ours' \subseteq Ours \cup ControlFiles /\ Foreign' = Foreign
        /\ host' # host => Ours' = Ours \cup {Current} /\ ~Present(Current)
        /\ host' = host => Ours' = Ours
    <2>1. CASE host' = host
      BY <1>a, <2>1 DEF InstallTypeOK, Ours, Foreign
    <2>2. CASE /\ step < FirstStep /\ ~Present(Current)
               /\ host' = [host EXCEPT ![Current] = "ours"]
      <3>1. /\ \A x \in HostObjects : host'[x] = IF x = Current THEN "ours" ELSE host[x]
            /\ host' \in [HostObjects -> {"absent", "ours", "foreign", "stray"}]
            /\ Ours' = Ours \cup {Current} /\ Foreign' = Foreign \ {Current}
        BY <1>a, <1>d, <2>2, Changed
      <3>2. Current \notin Foreign
        BY <2>2 DEF Foreign, Present
      <3>3. host' # host
        BY <1>d, <2>2, <3>1 DEF Present
      <3>4. QED BY <1>d, <2>2, <3>1, <3>2, <3>3
    <2>3. QED BY <1>f, <2>1, <2>2
  <1>h. \/ /\ step < FirstStep /\ phase' = "install" /\ step' = step + 1 /\ failedStep' = failedStep
           /\ verdict' = verdict
           /\ owned' = IF Present(Current) THEN owned ELSE owned \cup {Current}
           /\ ~Present(Current) => host' # host
        \/ /\ phase' = "idle" /\ step' = step /\ failedStep' = Current /\ verdict' = "failed"
           /\ owned' = owned
    <2>1. CASE EnsureControlFile
      <3>1. ~Present(Current) => host'[Current] = "ours" /\ host[Current] = "absent"
        BY <1>a, <1>d, <2>1 DEF EnsureControlFile, Present, InstallTypeOK
      <3>2. QED BY <2>1, <3>1 DEF EnsureControlFile
    <2>2. CASE Refused
      BY <2>2 DEF Refused, End
    <2>3. QED BY <2>1, <2>2
  <1>i. /\ {"services", "approvedRoots"} \subseteq HostObjects \ ControlFiles
        /\ ToSet(Steps) \subseteq HostObjects /\ ControlFiles \subseteq ToSet(Steps)
        /\ Broker \notin ControlFiles /\ "registration" \notin ControlFiles
    BY <1>a, StepSet DEF ControlFiles
  <1>1. InstallTypeOK'
    <2>1. step' \in 1..Len(Steps')
      BY <1>a, <1>c, <1>d, <1>h
    <2>2. phase' \in Phases /\ verdict' \in Verdicts
      BY <1>a, <1>h DEF InstallTypeOK, Phases, Verdicts
    <2>3. owned' \subseteq ControlFiles
      BY <1>a, <1>d, <1>h DEF InstallTypeOK
    <2>4. failedStep' \in HostObjects \cup {"none", "commitRunner", "commitService"}
      BY <1>a, <1>d, <1>h DEF InstallTypeOK
    <2>5. QED BY <1>a, <1>g, <2>1, <2>2, <2>3, <2>4 DEF InstallTypeOK
  <1>2. PlaceInv'
    <2>1. step' < Len(Steps)
      BY <1>a, <1>d, <1>h
    <2>2. QED BY <1>a, <1>b, <1>c, <1>d, <1>g, <1>i, <2>1 DEF PlaceInv
  <1>3. RecordInv'
    <2>1. CASE phase' = "idle"
      BY <2>1 DEF RecordInv, Committing
    <2>2. CASE phase' = "install"
      <3>1. step' = step + 1 /\ step < FirstStep
        BY <1>h, <2>2
      <3>2. Provisioned(step)' = {}
        BY <1>a, <3>1 DEF Provisioned, FirstStep
      <3>3. \A i \in 1..step : Present(Steps[i])'
        <4>1. SUFFICES ASSUME NEW i \in 1..step PROVE Present(Steps[i])'
          OBVIOUS
        <4>2. i = step \/ i \in 1..(step - 1)
          BY <1>a
        <4>3. Steps[i] \in HostObjects
          BY <1>a, <1>d, <4>1, StepList
        <4>4. CASE i = step
          <5>1. host'[Current] = "ours" \/ (host'[Current] = host[Current] /\ Present(Current))
            BY <1>d, <1>f, <1>g, <1>h, <2>2
          <5>2. QED BY <1>c, <1>d, <4>4, <5>1 DEF Present
        <4>5. CASE i \in 1..(step - 1)
          BY <1>a, <1>b, <1>c, <1>g, <4>3, <4>5 DEF RecordInv, Present
        <4>6. QED BY <4>2, <4>4, <4>5
      <3>4. (step' - 1) = step
        BY <1>a, <3>1
      <3>5. QED BY <1>a, <1>e, <2>2, <3>2, <3>3, <3>4 DEF RecordInv, Committing
    <2>3. QED BY <1>h, <2>1, <2>2
  <1>4. FreshInv' /\ RollbackInv' /\ UninstallInv'
    <2>1. ~(step' > FirstStep)
      BY <1>a, <1>h
    <2>2. QED BY <1>h, <2>1 DEF FreshInv, RollbackInv, UninstallInv
  <1>5. ServicesInv'
    <2>1. \A x \in HostObjects : Present(x) => Present(x)'
      BY <1>g DEF Present
    <2>2. host'["services"] = host["services"]
      BY <1>d, <1>g, <1>i
    <2>3. ~(step' > FirstStep)
      BY <1>a, <1>h
    <2>4. QED
      BY <1>b, <1>c, <1>h, <1>i, <2>1, <2>2, <2>3
      DEF ServicesInv, ServicesNeedEverything, Committing
  <1>6. AccountInv'
    BY <1>a, <1>b, <1>e, <1>g, <1>h DEF AccountInv, Committing, MayRestore
  <1>7. MetadataInv'
    <2>1. Broker' \in Ours' <=> Broker \in Ours
      BY <1>c, <1>g, <1>i
    <2>2. "registration" \in Ours' <=> "registration" \in Ours
      BY <1>g, <1>i
    <2>3. CASE phase' = "install"
      <3>1. owned' = owned \/ (owned' = owned \cup {Current} /\ Current \in Ours')
        BY <1>g, <1>h, <2>3
      <3>2. \A c \in owned' : c \in Ours'
        BY <1>a, <1>b, <1>g, <3>1 DEF MetadataInv
      <3>3. Ours' \cap ControlFiles \subseteq before' \cup owned'
        BY <1>a, <1>b, <1>g, <1>h, <2>3 DEF MetadataInv
      <3>4. \A i \in 1..(step' - 1) : i < FirstStep => Covers(owned, before, Steps[i])'
        <4>1. SUFFICES ASSUME NEW i \in 1..(step' - 1) PROVE Covers(owned, before, Steps[i])'
          OBVIOUS
        <4>2. i = step \/ i \in 1..(step - 1)
          BY <1>a, <1>h, <2>3, <4>1
        <4>3. CASE i = step
          <5>1. CASE ~Present(Current)
            BY <1>c, <1>d, <1>h, <2>3, <4>3, <5>1 DEF Covers
          <5>2. CASE Present(Current)
            <6>1. Current \in Ours \/ Current \in Foreign
              BY <1>a, <1>d, <5>2 DEF Present, Ours, Foreign, InstallTypeOK
            <6>2. Current \in ControlFiles /\ owned' = owned
              BY <1>d, <1>h, <2>3, <5>2
            <6>3. QED BY <1>a, <1>b, <1>c, <1>d, <1>g, <4>3, <6>1, <6>2 DEF MetadataInv, Covers
          <5>3. QED BY <5>1, <5>2
        <4>4. CASE i \in 1..(step - 1)
          <5>1. Covers(owned, before, Steps[i])
            BY <1>a, <1>b, <4>4 DEF MetadataInv
          <5>2. QED BY <1>a, <1>c, <1>g, <3>1, <5>1 DEF Covers
        <4>5. QED BY <4>2, <4>3, <4>4
      <3>5. QED
        BY <1>a, <1>b, <1>c, <1>e, <1>g, <2>1, <2>2, <3>2, <3>3, <3>4 DEF MetadataInv, Covers
    <2>4. CASE phase' = "idle"
      BY <1>a, <1>b, <1>c, <1>g, <2>1, <2>2, <2>4 DEF MetadataInv, Covers
    <2>5. QED BY <1>h, <2>3, <2>4
  <1>8. EndInv'
    BY <1>a, <1>b, <1>e, <1>g, <1>h
       DEF EndInv, CleanFailureLeavesLittle, UninstallRestores, NewObjects, AccountInv
  <1>9. QED
    BY <1>1, <1>2, <1>3, <1>4, <1>5, <1>6, <1>7, <1>8 DEF InstallInv

-----------------------------------------------------------------------------
\* The last step of Provision on Windows leaves everything but the services.
LEMMA AllProvisioned ==
    ASSUME platform = "windows"
    PROVE  /\ Len(Steps) \in Nat /\ Len(Steps) - 1 \in FirstStep..Len(Steps)
           /\ Len(Steps) \in FirstStep..Len(Steps)
           /\ Provisioned(Len(Steps)) = Provisioned(Len(Steps) - 1) \cup {"runnerService"}
           /\ "runnerService" \notin Provisioned(Len(Steps) - 1)
           /\ ToSet(Steps) = Provisioned(Len(Steps)) \cup ControlFiles \cup {"services"}
           /\ "approvedRoots" \in Provisioned(Len(Steps))
  <1>1. Len(Steps) = 13
    BY StepList
  <1>2. /\ Len(Steps) \in Nat /\ Len(Steps) \in FirstStep..Len(Steps)
        /\ Len(Steps) - 1 \in FirstStep..Len(Steps) /\ (Len(Steps) - 1) + 1 = Len(Steps)
        /\ Len(Steps) - 1 \in 1..Len(Steps) /\ Len(Steps) \in 1..Len(Steps)
    BY <1>1 DEF FirstStep
  <1>3. Steps[Len(Steps) - 1] = "runnerService" /\ Steps[Len(Steps)] = "services"
    BY <1>2, StepNames
  <1>4. Provisioned(Len(Steps)) = Provisioned(Len(Steps) - 1) \cup {"runnerService"}
        /\ "runnerService" \notin Provisioned(Len(Steps) - 1)
    BY <1>2, <1>3, ProvisionedUpTo
  <1>5. "approvedRoots" \in Provisioned(Len(Steps))
    BY <1>2, <1>3, StepOrder
  <1>6. ToSet(Steps) \subseteq Provisioned(Len(Steps)) \cup ControlFiles \cup {"services"}
    <2>1. SUFFICES ASSUME NEW x \in ToSet(Steps), x \notin ControlFiles, x # "services"
                   PROVE  x \in Provisioned(Len(Steps))
      OBVIOUS
    <2>2. PICK i \in 1..Len(Steps) : x = Steps[i]
      BY StepSet
    <2>3. i # Len(Steps) /\ ~(i < FirstStep)
      BY <2>1, <2>2, StepNames
    <2>4. i \in FirstStep..(Len(Steps) - 1)
      <3>1. i \in 1..13 /\ i # 13 /\ ~(i < 3)
        BY <1>1, <2>2, <2>3 DEF FirstStep
      <3>2. i \in 3..12
        BY <3>1
      <3>3. QED BY <1>1, <3>2 DEF FirstStep
    <2>5. QED BY <2>2, <2>4 DEF Provisioned
  <1>7. Provisioned(Len(Steps)) \cup ControlFiles \cup {"services"} \subseteq ToSet(Steps)
    BY <1>2, ProvisionedUpTo, StepSet
  <1>8. QED BY <1>2, <1>4, <1>5, <1>6, <1>7

\* The Windows installer commits its services.
LEMMA CommitInv == InstallInv /\ (CommitRunnerService \/ CommitService) => InstallInv'
  <1> SUFFICES ASSUME InstallInv, CommitRunnerService \/ CommitService PROVE InstallInv'
    OBVIOUS
  <1>a. /\ InstallTypeOK /\ platform' = platform /\ Committing
        /\ \/ phase = "commitRunner" /\ phase' = "commitService"
                /\ recorded' = recorded \ {"runnerService"}
           \/ phase = "commitService" /\ phase' = "start" /\ recorded' = {}
        /\ UNCHANGED <<host, step, failedStep, masked, broken, pending, owned, saved, metadata,
                       before, verdict, runs>>
    BY DEF InstallInv, CommitRunnerService, CommitService, Committing
  <1>b. /\ PlaceInv /\ RecordInv /\ ServicesInv /\ AccountInv /\ MetadataInv
        /\ Ours' = Ours /\ Foreign' = Foreign
    BY <1>a DEF InstallInv, Ours, Foreign
  <1>c. /\ Steps' = Steps /\ ToSet(Steps)' = ToSet(Steps) /\ Broker' = Broker
    BY <1>a, PlatformKept
  <1>d. platform = "windows" /\ step = Len(Steps)
    BY <1>a, <1>b DEF RecordInv
  <1>e. Provisioned(step)' = Provisioned(step) /\ Provisioned(step - 1)' = Provisioned(step - 1)
    BY <1>a, <1>c DEF Provisioned
  <1>1. InstallTypeOK'
    BY <1>a, <1>c DEF InstallTypeOK, Phases
  <1>2. PlaceInv'
    BY <1>a, <1>b, <1>c DEF PlaceInv
  <1>3. RecordInv'
    <2>1. phase' = "commitService" => recorded' = Provisioned(step - 1)
      BY <1>a, <1>b, <1>d, AllProvisioned DEF RecordInv
    <2>2. QED BY <1>a, <1>b, <1>c, <1>d, <1>e, <2>1 DEF RecordInv, Committing, Present
  <1>4. FreshInv' /\ RollbackInv' /\ UninstallInv' /\ EndInv'
    BY <1>a DEF FreshInv, RollbackInv, UninstallInv, EndInv, CleanFailureLeavesLittle,
                UninstallRestores
  <1>5. ServicesInv'
    BY <1>a, <1>b, <1>c DEF ServicesInv, ServicesNeedEverything, Committing, Present
  <1>6. AccountInv'
    BY <1>a, <1>b, <1>e DEF AccountInv, Committing, MayRestore
  <1>7. MetadataInv'
    BY <1>a, <1>b, <1>c DEF MetadataInv, Covers
  <1>8. QED
    BY <1>1, <1>2, <1>3, <1>4, <1>5, <1>6, <1>7 DEF InstallInv

\* A commit of a Windows service fails.
LEMMA CommitFailsInv == InstallInv /\ CommitFails => InstallInv'
  <1> SUFFICES ASSUME InstallInv, CommitFails PROVE InstallInv'
    OBVIOUS
  <1>a. /\ InstallTypeOK /\ platform' = platform /\ Committing /\ phase' = "rollback"
        /\ failedStep' = phase /\ masked' = {} /\ recorded' = recorded
        /\ pending' = ToSet(RollbackOrder) \cap RollbackTargets(recorded')
        /\ UNCHANGED <<host, step, broken, owned, saved, metadata, before, verdict, runs>>
    BY DEF InstallInv, CommitFails, Committing, GiveUp
  <1>b. /\ PlaceInv /\ RecordInv /\ ServicesInv /\ AccountInv /\ MetadataInv
        /\ Ours' = Ours /\ Foreign' = Foreign
    BY <1>a DEF InstallInv, Ours, Foreign
  <1>c. /\ Steps' = Steps /\ ToSet(Steps)' = ToSet(Steps) /\ Broker' = Broker
        /\ \A n : Provisioned(n)' = Provisioned(n)
    BY <1>a, PlatformKept
  <1>d. platform = "windows" /\ step = Len(Steps)
    BY <1>a, <1>b DEF RecordInv
  <1>e. PICK n \in FirstStep..Len(Steps) :
            /\ recorded = Provisioned(n)
            /\ Provisioned(n) \subseteq Provisioned(step)
            /\ Provisioned(step) \subseteq Provisioned(n) \cup Residue'
    <2>1. CASE phase = "commitRunner"
      BY <1>a, <1>b, <1>d, <2>1, AllProvisioned DEF RecordInv
    <2>2. CASE phase = "commitService"
      <3>1. Residue' = {"runnerService"}
        BY <1>a, <1>d, <2>2 DEF Residue
      <3>2. recorded = Provisioned(step - 1)
        BY <1>b, <2>2 DEF RecordInv, Committing
      <3>3. QED BY <1>d, <3>1, <3>2, AllProvisioned
    <2>3. QED BY <1>a, <2>1, <2>2 DEF Committing
  <1>f. \A o \in recorded' : host'[o] = "ours"
    BY <1>a, <1>b, <1>e DEF RecordInv
  <1>g. /\ RollbackInv' /\ recorded' \subseteq pending'
        /\ pending' \subseteq recorded' \cup {"services", "runnerUnit"}
        /\ pending' \subseteq HostObjects
    BY <1>a, <1>d, <1>e, <1>f, GaveUp
  <1>1. InstallTypeOK'
    BY <1>a, <1>c, <1>g DEF InstallTypeOK, Phases, Committing
  <1>2. PlaceInv'
    BY <1>a, <1>b, <1>c DEF PlaceInv
  <1>3. RecordInv'
    BY <1>a, <1>c, <1>e DEF RecordInv, Committing
  <1>4. FreshInv' /\ UninstallInv' /\ EndInv'
    BY <1>a, <1>d DEF FreshInv, UninstallInv, EndInv, CleanFailureLeavesLittle, UninstallRestores
  <1>5. ServicesInv'
    BY <1>a, <1>b, <1>c DEF ServicesInv, ServicesNeedEverything, Committing, Present
  <1>6. AccountInv'
    BY <1>a, <1>b, <1>e, <1>g DEF AccountInv, Committing, MayRestore
  <1>7. MetadataInv'
    BY <1>a, <1>b, <1>c DEF MetadataInv, Covers
  <1>8. QED
    BY <1>1, <1>2, <1>3, <1>4, <1>5, <1>6, <1>7, <1>g DEF InstallInv

\* The Windows services are started.
LEMMA StartInv == InstallInv /\ StartServices => InstallInv'
  <1> SUFFICES ASSUME InstallInv, StartServices PROVE InstallInv'
    OBVIOUS
  <1>a. /\ InstallTypeOK /\ platform' = platform /\ phase = "start" /\ phase' = "idle"
        /\ verdict' \in {"installed", "start-failed"}
        /\ host' = host \/ host' = [host EXCEPT !["services"] = "ours"]
        /\ UNCHANGED <<step, recorded, failedStep, masked, broken, pending, owned, saved, metadata,
                       before, runs>>
    BY DEF InstallInv, StartServices, End
  <1>b. /\ PlaceInv /\ RecordInv /\ ServicesInv /\ MetadataInv
    BY DEF InstallInv
  <1>c. /\ Steps' = Steps /\ ToSet(Steps)' = ToSet(Steps) /\ Broker' = Broker
    BY <1>a, PlatformKept
  <1>d. platform = "windows" /\ step = Len(Steps)
    BY <1>a, <1>b DEF RecordInv
  <1>e. /\ {"services", "approvedRoots"} \subseteq HostObjects
        /\ ToSet(Steps) \subseteq HostObjects
        /\ Broker # "services" /\ "services" \notin ControlFiles /\ "services" \in ToSet(Steps)
    BY <1>d, StepSet DEF ControlFiles
  <1>f. /\ \A x \in HostObjects :
               host'[x] = host[x] \/ (x = "services" /\ host'[x] = "ours")
        /\ host' \in [HostObjects -> {"absent", "ours", "foreign", "stray"}]
        /\ Ours \subseteq Ours' /\ Ours' \subseteq Ours \cup {"services"}
        /\ Foreign \subseteq Foreign' \cup {"services"}
    <2>1. CASE host' = host
      BY <1>a, <2>1 DEF InstallTypeOK, Ours, Foreign
    <2>2. CASE host' = [host EXCEPT !["services"] = "ours"]
      <3>1. /\ \A x \in HostObjects : host'[x] = IF x = "services" THEN "ours" ELSE host[x]
            /\ host' \in [HostObjects -> {"absent", "ours", "foreign", "stray"}]
            /\ Ours' = Ours \cup {"services"} /\ Foreign' = Foreign \ {"services"}
        BY <1>a, <1>e, <2>2, Changed
      <3>2. QED BY <3>1
    <2>3. QED BY <1>a, <2>1, <2>2
  <1>1. InstallTypeOK'
    BY <1>a, <1>c, <1>f DEF InstallTypeOK, Phases, Verdicts
  <1>2. PlaceInv'
    BY <1>a, <1>b, <1>c, <1>e, <1>f DEF PlaceInv
  <1>3. RecordInv' /\ FreshInv' /\ RollbackInv' /\ UninstallInv' /\ AccountInv' /\ EndInv'
    BY <1>a DEF RecordInv, FreshInv, RollbackInv, UninstallInv, AccountInv, Committing, MayRestore,
                EndInv, CleanFailureLeavesLittle, UninstallRestores
  <1>4. ServicesInv'
    <2>1. SUFFICES ASSUME host'["services"] = "ours", NEW x \in ToSet(Steps) PROVE Present(x)'
      BY <1>a, <1>c DEF ServicesInv, ServicesNeedEverything, Committing
    <2>2. x = "services" \/ Present(x)
      BY <1>a, <1>b, <1>d, AllProvisioned DEF RecordInv, Present
    <2>3. x \in HostObjects
      BY <1>e
    <2>4. QED BY <1>f, <2>1, <2>2, <2>3 DEF Present
  <1>5. MetadataInv'
    BY <1>a, <1>b, <1>c, <1>e, <1>f DEF MetadataInv, Covers
  <1>6. QED
    BY <1>1, <1>2, <1>3, <1>4, <1>5 DEF InstallInv

-----------------------------------------------------------------------------
\* The list of the removals of an uninstallation.
LEMMA UninstallList ==
    ASSUME platform \in {"linux", "windows"}
    PROVE  /\ ToSet(UninstallOrder) = {UninstallOrder[i] : i \in DOMAIN UninstallOrder}
           /\ ToSet(UninstallOrder) = ToSet(Steps)
           /\ \E n \in Nat : DOMAIN UninstallOrder = 1..n
           /\ \A i, j \in DOMAIN UninstallOrder : UninstallOrder[i] = UninstallOrder[j] => i = j
           /\ {1, 2} \subseteq DOMAIN UninstallOrder
           /\ UninstallOrder[1] = "services" /\ UninstallOrder[2] = "registration"
  <1>1. CASE platform = "linux"
    BY <1>1 DEF Steps, LinuxSteps, ToSet, UninstallOrder
  <1>2. CASE platform = "windows"
    BY <1>2 DEF Steps, WindowsSteps, ToSet, UninstallOrder
  <1>3. QED BY <1>1, <1>2

\* An uninstallation stops the services before it removes anything else.
LEMMA ServicesFirst ==
    ASSUME platform \in {"linux", "windows"}
    PROVE  /\ 1 \in DOMAIN RollbackOrder
           /\ RollbackOrder[1] = "services"
  <1>1. CASE platform = "linux"
    BY <1>1 DEF RollbackOrder
  <1>2. CASE platform = "windows"
    <2>1. DOMAIN RollbackOrder = 1..13 /\ RollbackOrder[1] = WindowsSteps[13]
      BY <1>2 DEF RollbackOrder, Reverse, WindowsSteps
    <2>2. QED BY <2>1 DEF WindowsSteps
  <1>3. QED BY <1>1, <1>2

\* What the turn of an object says of the rest of the list.
LEMMA TurnMeans ==
    ASSUME NEW o, Turn(o), NEW n \in Nat, DOMAIN RemovalOrder = 1..n,
           \A i, j \in 1..n : RemovalOrder[i] = RemovalOrder[j] => i = j
    PROVE  /\ \A i, j \in 1..n : i < j /\ RemovalOrder[i] \in pending \ {o} => RemovalOrder[j] # o
           /\ \A i, j \in 1..n : i < j /\ RemovalOrder[j] = o => RemovalOrder[i] \notin pending
  <1>1. PICK k \in 1..n : /\ RemovalOrder[k] = o
                          /\ \A j \in 1..(k - 1) : RemovalOrder[j] \notin pending
    BY DEF Turn
  <1>2. ASSUME NEW i \in 1..n, NEW j \in 1..n, i < j, RemovalOrder[j] = o
        PROVE  RemovalOrder[i] \notin pending
    <2>1. j = k
      BY <1>1, <1>2
    <2>2. i \in 1..(k - 1)
      BY <1>2, <2>1
    <2>3. QED BY <1>1, <2>2
  <1>3. QED BY <1>2

\* A rollback removes the next object, or fails to.
LEMMA RollbackStepInv == InstallInv /\ (RemoveObject \/ RemoveFails) => InstallInv'
  <1> SUFFICES ASSUME InstallInv, RemoveObject \/ RemoveFails PROVE InstallInv'
    OBVIOUS
  <1>a. /\ InstallTypeOK /\ platform \in {"linux", "windows"} /\ platform' = platform
        /\ phase = "rollback" /\ phase' = "rollback"
        /\ UNCHANGED <<step, recorded, failedStep, masked, owned, saved, metadata, before,
                       verdict, runs>>
    BY DEF InstallInv, InstallTypeOK, RemoveObject, RemoveFails
  <1>b. PICK o \in pending :
            /\ Turn(o) /\ pending' = pending \ {o}
            /\ \/ host' = Without(o) /\ broken' = broken
               \/ host' = Stray(o) /\ broken' = (broken \/ o \notin masked)
    BY DEF RemoveObject, RemoveFails
  <1>c. /\ PlaceInv /\ RecordInv /\ FreshInv /\ ServicesInv /\ AccountInv /\ RollbackInv
        /\ MetadataInv
    BY DEF InstallInv
  <1>d. /\ Steps' = Steps /\ ToSet(Steps)' = ToSet(Steps) /\ Broker' = Broker
        /\ RollbackOrder' = RollbackOrder
        /\ \A n : Provisioned(n)' = Provisioned(n)
        /\ RollbackTargets(recorded)' = RollbackTargets(recorded)
    BY <1>a, PlatformKept DEF RollbackTargets
  <1>e. /\ o \in HostObjects /\ {"services", "approvedRoots"} \subseteq HostObjects
        /\ ControlFiles \subseteq HostObjects
    BY <1>a, StepSet DEF InstallTypeOK
  <1>f. PICK n \in FirstStep..Len(Steps) : recorded = Provisioned(n)
    BY <1>a, <1>c DEF RecordInv
  <1>g. /\ o \in recorded \cup {"services", "runnerUnit"} /\ o \notin ControlFiles
        /\ o \in recorded => host[o] = "ours"
    BY <1>a, <1>c, <1>f, ProvisionedUpTo DEF RollbackInv, RollbackTargets, ControlFiles
  <1>h. PICK v \in {"absent", "ours", "foreign", "stray"} :
            /\ host' = [host EXCEPT ![o] = v]
            /\ v \in {"ours", "stray"} => o \in Ours
            /\ v = "foreign" => o \in Foreign
            /\ v = "ours" => o = "approvedRoots"
            /\ v \in {"ours", "stray"} =>
                  \/ host' = Stray(o) /\ v = "stray" /\ broken' = (broken \/ o \notin masked)
                  \/ o = "approvedRoots" /\ saved # "absent" /\ broken' = broken
    <2>1. CASE host' = Without(o) /\ broken' = broken
      <3>1. CASE o = "approvedRoots"
        <4>1. o \in Ours
          BY <1>e, <1>g, <3>1 DEF Ours
        <4>2. saved \in {"absent", "ours", "stray"} /\ host' = [host EXCEPT ![o] = saved]
          BY <1>a, <2>1, <3>1 DEF Without, InstallTypeOK
        <4>3. QED BY <2>1, <3>1, <4>1, <4>2
      <3>2. CASE o # "approvedRoots"
        <4>1. host' = [host EXCEPT ![o] = "absent"]
          BY <2>1, <3>2 DEF Without
        <4>2. QED BY <2>1, <4>1
      <3>3. QED BY <3>1, <3>2
    <2>2. CASE host' = Stray(o) /\ broken' = (broken \/ o \notin masked)
      <3>1. CASE host[o] = "ours"
        <4>1. host' = [host EXCEPT ![o] = "stray"]
          BY <2>2, <3>1, <1>e, <1>a DEF Stray, InstallTypeOK
        <4>2. o \in Ours /\ o \notin Foreign
          BY <1>e, <3>1 DEF Ours, Foreign
        <4>3. QED BY <2>2, <4>1, <4>2
      <3>2. CASE host[o] # "ours"
        <4>1. host' = [host EXCEPT ![o] = host[o]] /\ host' = host
          BY <2>2, <3>2, <1>e, <1>a DEF Stray, InstallTypeOK
        <4>2. host[o] \in {"absent", "foreign", "stray"}
          BY <1>e, <3>2, <1>a DEF InstallTypeOK
        <4>3. host[o] = "stray" => o \in Ours
          BY <1>e DEF Ours
        <4>4. host[o] = "foreign" => o \in Foreign
          BY <1>e DEF Foreign
        <4>5. QED BY <2>2, <4>1, <4>2, <4>3, <4>4
      <3>3. QED BY <3>1, <3>2
    <2>3. QED BY <1>b, <2>1, <2>2
  <1>i. /\ \A x \in HostObjects : host'[x] = IF x = o THEN v ELSE host[x]
        /\ host' \in [HostObjects -> {"absent", "ours", "foreign", "stray"}]
        /\ Ours' = IF v \in {"ours", "stray"} THEN Ours \cup {o} ELSE Ours \ {o}
        /\ Foreign' = IF v = "foreign" THEN Foreign \cup {o} ELSE Foreign \ {o}
        /\ Strays' = IF v = "stray" THEN Strays \cup {o} ELSE Strays \ {o}
    BY <1>a, <1>e, <1>h, Changed
  <1>j. Ours' \subseteq Ours /\ \A x \in Ours : x \in Ours' \/ x = o
    BY <1>h, <1>i
  <1>k. /\ DOMAIN RemovalOrder = 1..13 /\ RemovalOrder = RollbackOrder
        /\ \A i, j \in 1..13 : RemovalOrder[i] = RemovalOrder[j] => i = j
        /\ RemovalOrder[1] = "services"
    BY <1>a, RollbackList, ServicesFirst DEF RemovalOrder
  <1>l. /\ \A i, j \in 1..13 : i < j /\ RollbackOrder[i] \in pending \ {o} => RollbackOrder[j] # o
        /\ \A i, j \in 1..13 : i < j /\ RollbackOrder[j] = o => RollbackOrder[i] \notin pending
    BY <1>b, <1>k, TurnMeans
  <1>m. host'["services"] # "ours"
    <2>1. CASE o = "services"
      BY <1>e, <1>h, <1>i, <2>1
    <2>2. CASE o # "services"
      <3>1. PICK k \in 1..13 : RollbackOrder[k] = o
        BY <1>b, <1>k DEF Turn
      <3>2. 1 < k
        BY <1>k, <2>2, <3>1
      <3>3. "services" \notin pending
        BY <1>k, <1>l, <3>1, <3>2
      <3>4. QED BY <1>a, <1>c, <1>e, <1>i, <2>2, <3>3 DEF ServicesInv
    <2>3. QED BY <2>1, <2>2
  <1>1. InstallTypeOK'
    BY <1>a, <1>b, <1>d, <1>i DEF InstallTypeOK
  <1>2. PlaceInv'
    <2>1. v = "foreign" => o \notin {"services", "approvedRoots"}
      BY <1>c, <1>h DEF PlaceInv, Foreign
    <2>2. \A x \in HostObjects \ ToSet(Steps) : host'[x] = "absent"
      BY <1>a, <1>c, <1>h, <1>i DEF PlaceInv, Ours, Foreign
    <2>3. QED BY <1>a, <1>c, <1>d, <1>e, <1>i, <2>1, <2>2 DEF PlaceInv
  <1>3. RecordInv'
    BY <1>a, <1>d, <1>f DEF RecordInv, Committing
  <1>4. FreshInv'
    <2>1. SUFFICES ASSUME platform = "linux", NEW x \in Accounts, x \in Ours'
                   PROVE  x \in pending' \/ x \in Strays' \/ (x = failedStep /\ x \notin recorded)
      BY <1>a DEF FreshInv
    <2>2. CASE x = o
      BY <1>h, <1>i, <2>1, <2>2 DEF Accounts
    <2>3. CASE x # o
      <3>1. x \in Ours
        BY <1>i, <2>1, <2>3
      <3>2. x \in pending \/ x \in Strays \/ (x = failedStep /\ x \notin recorded)
        BY <1>a, <1>c, <2>1, <3>1 DEF FreshInv
      <3>3. QED BY <1>b, <1>i, <2>3, <3>2
    <2>4. QED BY <2>2, <2>3
  <1>5. ServicesInv'
    BY <1>a, <1>m DEF ServicesInv, ServicesNeedEverything, Committing
  <1>6. AccountInv'
    <2>1. Residue' = Residue
      BY <1>a DEF Residue, Stage
    <2>2. broken' \/ Ours' \subseteq before' \cup ControlFiles \cup pending' \cup Residue'
      <3>1. SUFFICES ASSUME ~broken', NEW x \in Ours'
                     PROVE  x \in before \cup ControlFiles \cup pending' \cup Residue
        BY <1>a, <2>1
      <3>2. ~broken
        BY <1>b, <3>1
      <3>3. x \in before \cup ControlFiles \cup pending \cup Residue
        BY <1>a, <1>c, <1>j, <3>1, <3>2 DEF AccountInv
      <3>4. CASE x # o
        BY <1>b, <3>3, <3>4
      <3>5. CASE x = o
        <4>1. v \in {"ours", "stray"}
          BY <1>i, <3>1, <3>5
        <4>2. CASE broken' = (broken \/ o \notin masked)
          BY <1>a, <1>c, <3>1, <3>5, <4>2 DEF AccountInv
        <4>3. CASE o = "approvedRoots" /\ saved # "absent"
          BY <1>a, <1>c, <3>5, <4>3 DEF AccountInv, MayRestore
        <4>4. QED BY <1>h, <4>1, <4>2, <4>3
      <3>6. QED BY <3>4, <3>5
    <2>3. MayRestore' /\ saved' # "absent" => "approvedRoots" \in before'
      BY <1>a, <1>b, <1>c DEF AccountInv, MayRestore, Committing
    <2>4. QED BY <1>a, <1>c, <2>1, <2>2, <2>3 DEF AccountInv, Committing
  <1>7. RollbackInv'
    <2>1. \A i, j \in DOMAIN RollbackOrder :
               i < j /\ RollbackOrder[i] \in pending'
                   /\ RollbackOrder[j] \in RollbackTargets(recorded)
               => RollbackOrder[j] \in pending'
      BY <1>a, <1>b, <1>c, <1>k, <1>l DEF RollbackInv
    <2>2. \A x \in pending' \cap recorded : host'[x] = "ours"
      <3>1. SUFFICES ASSUME NEW x \in pending' \cap recorded PROVE host'[x] = "ours"
        OBVIOUS
      <3>2. x # o /\ host[x] = "ours" /\ x \in HostObjects
        BY <1>a, <1>b, <1>c DEF RollbackInv, InstallTypeOK
      <3>3. QED BY <1>i, <3>2
    <2>3. QED BY <1>a, <1>b, <1>c, <1>d, <2>1, <2>2 DEF RollbackInv
  <1>8. UninstallInv' /\ EndInv'
    BY <1>a DEF UninstallInv, EndInv, CleanFailureLeavesLittle, UninstallRestores
  <1>9. MetadataInv'
    <2>1. \A c \in ControlFiles : /\ c \in Ours' <=> c \in Ours
                                  /\ c \in Foreign' <=> c \in Foreign
      BY <1>g, <1>i
    <2>2. metadata.owned \subseteq ControlFiles
      BY <1>a DEF InstallTypeOK
    <2>3. QED BY <1>a, <1>c, <1>d, <1>j, <2>1, <2>2 DEF MetadataInv, Covers
  <1>10. QED
    BY <1>1, <1>2, <1>3, <1>4, <1>5, <1>6, <1>7, <1>8, <1>9 DEF InstallInv

\* Uninstall begins and reads the installation state.
LEMMA UninstallBeginsInv == InstallInv /\ Uninstall => InstallInv'
  <1> SUFFICES ASSUME InstallInv, Uninstall PROVE InstallInv'
    OBVIOUS
  <1>a. /\ InstallTypeOK /\ platform \in {"linux", "windows"} /\ platform' = platform
        /\ Intact /\ phase' = "uninstall" /\ verdict' = "none" /\ runs' \in 0..MaxRuns
        /\ pending' = {o \in ToSet(UninstallOrder) : o \in ControlFiles => o \in metadata.owned}
        /\ UNCHANGED <<host, step, recorded, failedStep, masked, broken, owned, saved, metadata,
                       before>>
    BY InstallAssumption DEF InstallInv, InstallTypeOK, Uninstall
  <1>b. /\ PlaceInv /\ ServicesInv /\ MetadataInv /\ Ours' = Ours /\ Foreign' = Foreign
    BY <1>a DEF InstallInv, Ours, Foreign
  <1>c. /\ Steps' = Steps /\ ToSet(Steps)' = ToSet(Steps) /\ Broker' = Broker
        /\ UninstallOrder' = UninstallOrder
    BY <1>a, PlatformKept
  <1>d. /\ ToSet(UninstallOrder) = ToSet(Steps) /\ ToSet(Steps) \subseteq HostObjects
        /\ ControlFiles \subseteq ToSet(Steps)
        /\ {"services", "registration", "approvedRoots"} \subseteq ToSet(Steps)
        /\ "services" \notin ControlFiles /\ "registration" \notin ControlFiles
        /\ Broker \in ToSet(Steps) \ (ControlFiles \cup {"services"})
    BY <1>a, UninstallList, StepSet DEF ControlFiles
  <1>e. \A o \in ToSet(Steps) \ ({"services"} \cup ControlFiles) : o \in Ours
    BY <1>a, <1>d DEF Intact, Ours
  <1>f. Ours \subseteq ToSet(Steps)
    BY <1>b DEF PlaceInv, Ours
  <1>1. InstallTypeOK'
    BY <1>a, <1>c, <1>d DEF InstallTypeOK, Phases, Verdicts
  <1>2. PlaceInv'
    BY <1>a, <1>b, <1>c DEF PlaceInv
  <1>3. RecordInv' /\ FreshInv' /\ AccountInv' /\ RollbackInv' /\ EndInv'
    BY <1>a DEF RecordInv, FreshInv, AccountInv, RollbackInv, EndInv, Committing, MayRestore,
                CleanFailureLeavesLittle, UninstallRestores
  <1>4. ServicesInv'
    BY <1>a, <1>b, <1>c, <1>d DEF ServicesInv, ServicesNeedEverything, Committing, Present
  <1>5. UninstallInv'
    <2>1. \A o \in pending' \ {"services"} : o \in Ours'
      <3>1. SUFFICES ASSUME NEW o \in pending' \ {"services"} PROVE o \in Ours
        BY <1>b
      <3>2. CASE o \in ControlFiles
        <4>1. o \in metadata.owned
          BY <1>a, <3>1, <3>2
        <4>2. "registration" \in Ours
          BY <1>d, <1>e
        <4>3. QED BY <1>b, <4>1, <4>2 DEF MetadataInv
      <3>3. CASE o \notin ControlFiles
        BY <1>a, <1>d, <1>e, <3>1, <3>3
      <3>4. QED BY <3>2, <3>3
    <2>2. \A o \in ToSet(Steps) \ (ControlFiles \cup {"approvedRoots"}) :
               o \in pending' \/ o \notin Ours'
      BY <1>a, <1>d
    <2>3. Broker \in Ours
      BY <1>d, <1>e
    <2>4. Ours' \subseteq pending' \cup metadata'.before
      <3>1. SUFFICES ASSUME NEW o \in Ours PROVE o \in pending' \cup metadata.before
        BY <1>a, <1>b
      <3>2. CASE o \in ControlFiles
        <4>1. Covers(metadata.owned, metadata.before, o)
          BY <1>b, <2>3, <3>2 DEF MetadataInv
        <4>2. o \notin Foreign
          BY <3>1 DEF Ours, Foreign
        <4>3. QED BY <1>a, <1>d, <3>2, <4>1, <4>2 DEF Covers
      <3>3. CASE o \notin ControlFiles
        BY <1>a, <1>d, <1>f, <3>1, <3>3
      <3>4. QED BY <3>2, <3>3
    <2>5. \A i, j \in DOMAIN UninstallOrder :
               i < j /\ UninstallOrder[i] \in pending'
                   /\ UninstallOrder[j] \notin ControlFiles
               => UninstallOrder[j] \in pending'
      BY <1>a, UninstallList
    <2>6. saved' # "absent" => "approvedRoots" \in metadata'.before
      BY <1>a, <1>b, <2>3 DEF MetadataInv
    <2>7. pending' \cap ControlFiles \subseteq metadata'.owned
      BY <1>a
    <2>8. QED BY <1>c, <2>1, <2>2, <2>4, <2>5, <2>6, <2>7 DEF UninstallInv
  <1>6. MetadataInv'
    BY <1>a, <1>b, <1>c DEF MetadataInv, Covers
  <1>7. QED
    BY <1>1, <1>2, <1>3, <1>4, <1>5, <1>6 DEF InstallInv

\* Uninstall removes the next object.
LEMMA UninstallStepInv == InstallInv /\ UninstallObject => InstallInv'
  <1> SUFFICES ASSUME InstallInv, UninstallObject PROVE InstallInv'
    OBVIOUS
  <1>a. /\ InstallTypeOK /\ platform \in {"linux", "windows"} /\ platform' = platform
        /\ phase = "uninstall" /\ phase' = "uninstall"
        /\ UNCHANGED <<step, recorded, failedStep, masked, broken, owned, saved, metadata, before,
                       verdict, runs>>
    BY DEF InstallInv, InstallTypeOK, UninstallObject
  <1>b. PICK o \in pending : Turn(o) /\ pending' = pending \ {o} /\ host' = Without(o)
    BY DEF UninstallObject
  <1>c. PlaceInv /\ ServicesInv /\ UninstallInv /\ MetadataInv
    BY DEF InstallInv
  <1>d. /\ Steps' = Steps /\ ToSet(Steps)' = ToSet(Steps) /\ Broker' = Broker
        /\ UninstallOrder' = UninstallOrder
    BY <1>a, PlatformKept
  <1>e. /\ o \in HostObjects /\ {"services", "approvedRoots", "registration"} \subseteq HostObjects
        /\ ControlFiles \subseteq HostObjects /\ ToSet(Steps) \subseteq HostObjects
        /\ "registration" \in ToSet(Steps) \ (ControlFiles \cup {"approvedRoots"})
    BY <1>a, StepSet DEF InstallTypeOK, ControlFiles
  <1>f. PICK v \in {"absent", "ours", "stray"} :
            /\ host' = [host EXCEPT ![o] = v]
            /\ v # "absent" => o = "approvedRoots" /\ saved # "absent" /\ o \in Ours
    <2>1. CASE o = "approvedRoots"
      <3>1. o \in Ours
        BY <1>a, <1>c, <2>1 DEF UninstallInv
      <3>2. saved \in {"absent", "ours", "stray"} /\ host' = [host EXCEPT ![o] = saved]
        BY <1>a, <1>b, <2>1 DEF Without, InstallTypeOK
      <3>3. QED BY <2>1, <3>1, <3>2
    <2>2. CASE o # "approvedRoots"
      BY <1>b, <2>2 DEF Without
    <2>3. QED BY <2>1, <2>2
  <1>g. /\ \A x \in HostObjects : host'[x] = IF x = o THEN v ELSE host[x]
        /\ host' \in [HostObjects -> {"absent", "ours", "foreign", "stray"}]
        /\ Ours' = IF v \in {"ours", "stray"} THEN Ours \cup {o} ELSE Ours \ {o}
        /\ Foreign' = IF v = "foreign" THEN Foreign \cup {o} ELSE Foreign \ {o}
    BY <1>a, <1>e, <1>f, Changed
  <1>h. /\ Ours' \subseteq Ours /\ \A x \in HostObjects \ {o} : x \in Ours' <=> x \in Ours
        /\ Foreign' = Foreign \ {o}
    BY <1>f, <1>g DEF Ours
  <1>i. PICK n \in Nat : DOMAIN UninstallOrder = 1..n
    BY <1>a, UninstallList
  <1>j. /\ DOMAIN RemovalOrder = 1..n /\ RemovalOrder = UninstallOrder
        /\ \A i, j \in 1..n : RemovalOrder[i] = RemovalOrder[j] => i = j
        /\ 1 \in 1..n /\ RemovalOrder[1] = "services"
        /\ 2 \in 1..n /\ RemovalOrder[2] = "registration"
    BY <1>a, <1>i, UninstallList DEF RemovalOrder
  <1>k. /\ \A i, j \in 1..n : i < j /\ UninstallOrder[i] \in pending \ {o} => UninstallOrder[j] # o
        /\ \A i, j \in 1..n : i < j /\ UninstallOrder[j] = o => UninstallOrder[i] \notin pending
    BY <1>b, <1>j, TurnMeans
  <1>l. PICK k \in 1..n : UninstallOrder[k] = o
    BY <1>b, <1>j DEF Turn
  <1>m. host'["services"] # "ours"
    <2>1. CASE o = "services"
      BY <1>e, <1>f, <1>g, <2>1
    <2>2. CASE o # "services"
      <3>1. 1 < k
        BY <1>j, <1>l, <2>2
      <3>2. "services" \notin pending
        BY <1>j, <1>k, <1>l, <3>1
      <3>3. QED BY <1>a, <1>c, <1>e, <1>g, <2>2, <3>2 DEF ServicesInv
    <2>3. QED BY <2>1, <2>2
  <1>n. ASSUME o \in ControlFiles
        PROVE  "registration" \notin Ours /\ o \in metadata.owned /\ o \notin Foreign
    <2>1. o # "services" /\ o # "registration"
      BY <1>n DEF ControlFiles
    <2>2. 2 < k
      BY <1>j, <1>l, <2>1
    <2>3. "registration" \notin pending
      BY <1>j, <1>k, <1>l, <2>2
    <2>4. o \in Ours
      BY <1>a, <1>c, <2>1 DEF UninstallInv
    <2>5. QED BY <1>a, <1>c, <1>e, <1>n, <2>3, <2>4 DEF UninstallInv, Ours, Foreign
  <1>1. InstallTypeOK'
    BY <1>a, <1>b, <1>d, <1>g DEF InstallTypeOK
  <1>2. PlaceInv'
    <2>1. \A x \in HostObjects \ ToSet(Steps) : host'[x] = "absent"
      BY <1>a, <1>c, <1>f, <1>g DEF PlaceInv, Ours
    <2>2. QED BY <1>a, <1>c, <1>d, <1>e, <1>g, <2>1 DEF PlaceInv
  <1>3. RecordInv' /\ FreshInv' /\ AccountInv' /\ RollbackInv' /\ EndInv'
    BY <1>a DEF RecordInv, FreshInv, AccountInv, RollbackInv, EndInv, Committing, MayRestore,
                CleanFailureLeavesLittle, UninstallRestores
  <1>4. ServicesInv'
    BY <1>a, <1>m DEF ServicesInv, ServicesNeedEverything, Committing
  <1>5. UninstallInv'
    <2>1. \A x \in pending' \ {"services"} : x \in Ours'
      BY <1>a, <1>b, <1>c, <1>h DEF UninstallInv, InstallTypeOK
    <2>2. \A x \in ToSet(Steps) \ (ControlFiles \cup {"approvedRoots"}) :
               x \in pending' \/ x \notin Ours'
      BY <1>a, <1>b, <1>c, <1>f, <1>g, <1>h DEF UninstallInv
    <2>3. Ours' \subseteq pending' \cup metadata'.before
      BY <1>a, <1>b, <1>c, <1>f, <1>g, <1>h DEF UninstallInv
    <2>4. \A i, j \in DOMAIN UninstallOrder :
               i < j /\ UninstallOrder[i] \in pending'
                   /\ UninstallOrder[j] \notin ControlFiles
               => UninstallOrder[j] \in pending'
      BY <1>a, <1>b, <1>c, <1>i, <1>k DEF UninstallInv
    <2>5. pending' \cap ControlFiles \subseteq metadata'.owned
      BY <1>a, <1>b, <1>c DEF UninstallInv
    <2>6. QED BY <1>a, <1>c, <1>d, <2>1, <2>2, <2>3, <2>4, <2>5 DEF UninstallInv
  <1>6. MetadataInv'
    <2>1. \A c \in ControlFiles :
              Covers(metadata.owned, metadata.before, c)
              => Covers(metadata.owned, metadata.before, c)'
      BY <1>a, <1>h, <1>n DEF Covers
    <2>2. \A c \in metadata.owned : c \in Ours' \/ "registration" \notin Ours'
      <3>1. SUFFICES ASSUME NEW c \in metadata.owned, "registration" \in Ours'
                     PROVE  c \in Ours'
        OBVIOUS
      <3>2. c \in ControlFiles /\ c \in Ours
        BY <1>a, <1>c, <1>h, <3>1 DEF MetadataInv, InstallTypeOK
      <3>3. c # o
        BY <1>h, <1>n, <3>1, <3>2
      <3>4. QED BY <1>e, <1>h, <3>2, <3>3
    <2>3. QED BY <1>a, <1>c, <1>d, <1>h, <2>1, <2>2 DEF MetadataInv
  <1>7. QED
    BY <1>1, <1>2, <1>3, <1>4, <1>5, <1>6 DEF InstallInv

\* Nothing happens.
LEMMA StutterInv == InstallInv /\ UNCHANGED installVars => InstallInv'
  <1> SUFFICES ASSUME InstallInv, UNCHANGED installVars PROVE InstallInv'
    OBVIOUS
  <1>a. UNCHANGED <<platform, host, phase, step, recorded, failedStep, masked, broken, pending,
                    owned, saved, metadata, before, verdict, runs>>
    BY DEF installVars
  <1>b. /\ Ours' = Ours /\ Foreign' = Foreign /\ Strays' = Strays /\ Residue' = Residue
        /\ Committing' = Committing /\ MayRestore' = MayRestore
    BY <1>a DEF Ours, Foreign, Strays, Residue, Stage, Committing, MayRestore
  <1>c. /\ Steps' = Steps /\ ToSet(Steps)' = ToSet(Steps) /\ Broker' = Broker
        /\ Preflighted' = Preflighted /\ RollbackOrder' = RollbackOrder
        /\ UninstallOrder' = UninstallOrder
        /\ Provisioned(step)' = Provisioned(step)
        /\ Provisioned(step - 1)' = Provisioned(step - 1)
        /\ \A n : Provisioned(n)' = Provisioned(n)
        /\ RollbackTargets(recorded)' = RollbackTargets(recorded)
    BY <1>a, PlatformKept DEF Provisioned, Steps, RollbackTargets
  <1>1. InstallTypeOK' /\ PlaceInv'
    BY <1>a, <1>c DEF InstallInv, InstallTypeOK, PlaceInv
  <1>2. RecordInv' /\ FreshInv'
    BY <1>a, <1>b, <1>c DEF InstallInv, RecordInv, FreshInv, Present
  <1>3. ServicesInv' /\ AccountInv'
    BY <1>a, <1>b, <1>c DEF InstallInv, ServicesInv, ServicesNeedEverything, AccountInv, Present
  <1>4. RollbackInv' /\ UninstallInv'
    BY <1>a, <1>b, <1>c DEF InstallInv, RollbackInv, UninstallInv
  <1>5. MetadataInv' /\ EndInv'
    BY <1>a, <1>b, <1>c DEF InstallInv, MetadataInv, Covers, EndInv, CleanFailureLeavesLittle,
                            UninstallRestores, NewObjects
  <1>6. QED
    BY <1>1, <1>2, <1>3, <1>4, <1>5 DEF InstallInv

\* Every step keeps the invariant.
LEMMA InstallStepInv == InstallInv /\ [InstallNext]_installVars => InstallInv'
  BY CreateObjectInv, FailInv, ForeignInv, EndingInv, BeginInv, ControlFileInv, CommitInv,
     CommitFailsInv,
     StartInv, RollbackStepInv, UninstallBeginsInv, UninstallStepInv, StutterInv DEF InstallNext

-----------------------------------------------------------------------------
\* The invariant of the installation transaction.
LEMMA InstallInvariant == InstallSpec => []InstallInv
  BY InstallInitInv, InstallStepInv, PTL DEF InstallSpec

\* The variables of the installation have their types on every host, on either
\* platform and after any number of runs.
THEOREM InstallTypeCorrect == InstallSpec => []InstallTypeOK
  <1>1. InstallInv => InstallTypeOK
    BY DEF InstallInv
  <1>2. QED BY <1>1, InstallInvariant, PTL

\* An installation that fails without reporting a failed rollback leaves at most the
\* control files, what its failing step made and, on Linux, the registration: on
\* every host, after any number of runs and whatever others make meanwhile
\* (Provision and rollback of installer_linux.go, Lease of transaction_windows.go).
THEOREM FailuresAreAccounted == InstallSpec => []CleanFailureLeavesLittle
  <1>1. InstallInv => CleanFailureLeavesLittle
    BY DEF InstallInv, EndInv
  <1>2. QED BY <1>1, InstallInvariant, PTL

\* An uninstallation that reports success leaves of ours only what was there before
\* the installation it undoes: the installation state it reads is true of the host
\* (Run of uninstall_linux.go, run of uninstall_windows.go).
THEOREM UninstallationRestores == InstallSpec => []UninstallRestores
  <1>1. InstallInv => UninstallRestores
    BY DEF InstallInv, EndInv
  <1>2. QED BY <1>1, InstallInvariant, PTL

\* One object goes before another.
Precedes(list, a, b) == \E i, j \in DOMAIN list : i < j /\ list[i] = a /\ list[j] = b

\* What works with an object, or depends on it, goes before it.
LEMMA RemovalOrders ==
    ASSUME platform \in {"linux", "windows"}
    PROVE  /\ Precedes(RollbackOrder, "registration", "runner")
           /\ Precedes(RollbackOrder, "registration", "controlUser")
           /\ platform = "linux" =>
                \A list \in {RollbackOrder, UninstallOrder} :
                    /\ Precedes(list, "approvedRoots", "root")
                    /\ Precedes(list, "executionUser", "executionGroup")
                    /\ Precedes(list, "controlUser", "controlGroup")
  <1>1. CASE platform = "linux"
    <2>1. /\ Precedes(RollbackOrder, "registration", "runner")
          /\ Precedes(RollbackOrder, "registration", "controlUser")
          /\ Precedes(RollbackOrder, "approvedRoots", "root")
          /\ Precedes(RollbackOrder, "executionUser", "executionGroup")
          /\ Precedes(RollbackOrder, "controlUser", "controlGroup")
      BY <1>1 DEF RollbackOrder, Precedes
    <2>2. /\ Precedes(UninstallOrder, "approvedRoots", "root")
          /\ Precedes(UninstallOrder, "executionUser", "executionGroup")
          /\ Precedes(UninstallOrder, "controlUser", "controlGroup")
      BY <1>1 DEF UninstallOrder, Precedes
    <2>3. QED BY <2>1, <2>2
  <1>2. CASE platform = "windows"
    <2>1. /\ RollbackOrder[3] = "registration" /\ RollbackOrder[4] = "runner"
          /\ RollbackOrder[11] = "controlUser" /\ DOMAIN RollbackOrder = 1..13
      BY <1>2 DEF RollbackOrder, Reverse, WindowsSteps
    <2>2. QED BY <1>2, <2>1 DEF Precedes
  <1>3. QED BY <1>1, <1>2

\* The runner and the control account are made before the registration, the root
\* before the ACLs of the approved roots that are saved in it.
LEMMA ToolsProvisioned ==
    ASSUME platform \in {"linux", "windows"}, NEW n \in FirstStep..Len(Steps)
    PROVE  /\ "registration" \in Provisioned(n) => {"runner", "controlUser"} \subseteq Provisioned(n)
           /\ platform = "linux" /\ "approvedRoots" \in Provisioned(n) => "root" \in Provisioned(n)
  <1>1. CASE platform = "linux"
    BY <1>1 DEF Steps, LinuxSteps, FirstStep, Provisioned
  <1>2. CASE platform = "windows"
    BY <1>2 DEF Steps, WindowsSteps, FirstStep, Provisioned
  <1>3. QED BY <1>1, <1>2

\* Whatever is removed next can be removed.
LEMMA PossibleInv == InstallInv => RemovalsPossible
  <1> SUFFICES ASSUME InstallInv, phase \in {"rollback", "uninstall"}, NEW o \in pending, Turn(o),
                      host[o] = "ours", Strays = {}, failedStep \notin Ours \ recorded
               PROVE  CanBeRemoved(o)
    BY DEF RemovalsPossible
  <1>a. /\ InstallTypeOK /\ PlaceInv /\ RecordInv /\ FreshInv /\ ServicesInv /\ RollbackInv
        /\ UninstallInv /\ platform \in {"linux", "windows"} /\ o \in HostObjects
    BY DEF InstallInv, InstallTypeOK
  <1>b. PICK n \in Nat :
            /\ DOMAIN RemovalOrder = 1..n
            /\ \A i, j \in 1..n : RemovalOrder[i] = RemovalOrder[j] => i = j
    <2>1. CASE phase = "uninstall"
      <3>1. RemovalOrder = UninstallOrder
        BY <2>1 DEF RemovalOrder
      <3>2. QED BY <1>a, <3>1, UninstallList
    <2>2. CASE phase = "rollback"
      <3>1. RemovalOrder = RollbackOrder
        BY <2>2 DEF RemovalOrder
      <3>2. QED BY <1>a, <3>1, RollbackList
    <2>3. QED BY <2>1, <2>2
  <1>c. \A i, j \in 1..n : i < j /\ RemovalOrder[j] = o => RemovalOrder[i] \notin pending
    BY <1>b, TurnMeans
  <1>d. \A x : Precedes(RemovalOrder, x, o) => x \notin pending
    BY <1>b, <1>c DEF Precedes
  <1>e. ASSUME platform = "windows" PROVE o \notin {"executionGroup", "controlGroup"}
    <2>1. {"executionGroup", "controlGroup"} \subseteq HostObjects \ ToSet(Steps)
      BY <1>e DEF HostObjects, Steps, LinuxSteps, WindowsSteps, ToSet
    <2>2. QED BY <1>a, <2>1 DEF PlaceInv
  <1>f. {"executionUser", "controlUser", "root", "runner"} \subseteq ToSet(Steps)
        /\ ToSet(Steps) \subseteq HostObjects
    BY <1>a, StepSet
  <1>g. ASSUME o = "services", platform = "linux" PROVE Present("brokerUnit") /\ Present("runnerUnit")
    <2>1. {"brokerUnit", "runnerUnit"} \subseteq ToSet(Steps)
      BY <1>g DEF Steps, LinuxSteps, ToSet
    <2>2. QED BY <1>a, <1>g, <2>1 DEF ServicesInv, ServicesNeedEverything
  <1>1. CASE phase = "rollback"
    <2>1. RemovalOrder = RollbackOrder
      BY <1>1 DEF RemovalOrder
    <2>2. PICK m \in FirstStep..Len(Steps) : recorded = Provisioned(m)
      BY <1>1, <1>a DEF RecordInv
    <2>3. o \in recorded \cup {"services", "runnerUnit"}
      BY <1>1, <1>a DEF RollbackInv, RollbackTargets
    <2>4. ASSUME NEW t \in recorded, Precedes(RollbackOrder, o, t)
          PROVE  Present(t)
      <3>1. t \in RollbackTargets(recorded)
        BY <2>4 DEF RollbackTargets
      <3>2. t \in pending
        BY <1>1, <1>a, <2>4, <3>1 DEF RollbackInv, Precedes
      <3>3. QED BY <1>1, <1>a, <2>4, <3>2 DEF RollbackInv, Present
    <2>5. \A t \in Tools(o) : Present(t)
      <3>1. CASE o = "registration"
        <4>1. Tools(o) \subseteq {"runner", "controlUser"}
          BY <1>1, <3>1 DEF Tools
        <4>2. {"runner", "controlUser"} \subseteq recorded
          BY <1>a, <2>2, <2>3, <3>1, ToolsProvisioned
        <4>3. QED BY <1>a, <2>4, <3>1, <4>1, <4>2, RemovalOrders
      <3>2. CASE o = "approvedRoots" /\ platform = "linux"
        <4>1. Tools(o) = {"root"}
          BY <1>1, <3>2 DEF Tools
        <4>2. "root" \in recorded
          BY <1>a, <2>2, <2>3, <3>2, ToolsProvisioned
        <4>3. QED BY <1>a, <2>4, <3>2, <4>1, <4>2, RemovalOrders
      <3>3. CASE o = "services" /\ platform = "linux"
        BY <1>1, <1>g, <3>3 DEF Tools
      <3>4. CASE o # "registration" /\ (platform # "linux" \/ o \notin {"approvedRoots", "services"})
        BY <3>4 DEF Tools
      <3>5. QED BY <3>1, <3>2, <3>3, <3>4
    <2>6. ASSUME platform = "linux", NEW x \in Accounts \cap Ours PROVE x \in pending
      BY <1>1, <1>a, <2>6 DEF FreshInv
    <2>7. ~InUse(o)
      BY <1>a, <1>d, <1>e, <2>1, <2>6, RemovalOrders DEF InUse, Accounts
    <2>8. QED BY <2>5, <2>7 DEF CanBeRemoved
  <1>2. CASE phase = "uninstall"
    <2>1. RemovalOrder = UninstallOrder
      BY <1>2 DEF RemovalOrder
    <2>2. \A t \in Tools(o) : Present(t)
      <3>1. CASE o = "approvedRoots" /\ platform = "linux"
        <4>1. Tools(o) = {"root"}
          BY <1>2, <3>1 DEF Tools
        <4>2. Precedes(UninstallOrder, o, "root") /\ "root" \notin ControlFiles
          BY <1>a, <3>1, RemovalOrders DEF ControlFiles
        <4>3. "root" \in pending
          BY <1>2, <1>a, <4>2 DEF UninstallInv, Precedes
        <4>4. "root" \in Ours
          BY <1>2, <1>a, <4>3 DEF UninstallInv
        <4>5. QED BY <4>1, <4>4 DEF Ours, Present
      <3>2. CASE o = "services" /\ platform = "linux"
        BY <1>2, <1>g, <3>2 DEF Tools
      <3>3. CASE platform # "linux" \/ o \notin {"approvedRoots", "services"}
        BY <1>2, <3>3 DEF Tools
      <3>4. QED BY <3>1, <3>2, <3>3
    <2>3. \A x \in Accounts \cap Ours : x \in pending
      BY <1>2, <1>a, <1>f DEF UninstallInv, Accounts, ControlFiles
    <2>4. ~InUse(o)
      BY <1>a, <1>d, <1>e, <2>1, <2>3, RemovalOrders DEF InUse, Accounts
    <2>5. QED BY <2>2, <2>4 DEF CanBeRemoved
  <1>3. QED BY <1>1, <1>2

\* The services run only while all they use is there, and an object whose turn has
\* come in a rollback or an uninstallation can be removed: the step lists of the
\* installers and the lists of the removals respect each other.
THEOREM RemovalOrderKept == InstallSpec => []DependenciesKept
  <1>1. InstallInv => DependenciesKept
    BY PossibleInv DEF DependenciesKept, InstallInv, ServicesInv
  <1>2. QED BY <1>1, InstallInvariant, PTL

\* No step touches what somebody else has made.
LEMMA ForeignStep == InstallInv /\ [InstallNext]_installVars => [ForeignObjectsKept]_installVars
  <1> SUFFICES ASSUME InstallInv, InstallNext, NEW o \in HostObjects, host[o] = "foreign",
                      ~(platform = "linux" /\ o = "runnerUnit")
               PROVE  host'[o] = "foreign"
    BY DEF ForeignObjectsKept
  <1>a. InstallTypeOK /\ PlaceInv /\ RollbackInv /\ UninstallInv /\ o # "services"
        /\ o # "approvedRoots" /\ Present(o)
    BY DEF InstallInv, PlaceInv, Present
  <1>1. CASE \E x \in HostObjects : ForeignAppears(x)
    BY <1>1, <1>a DEF ForeignAppears, InstallTypeOK
  <1>2. CASE \/ Install \/ RollbackEnds \/ CommitRunnerService \/ CommitService \/ CommitFails
             \/ StepFails \/ Uninstall \/ UninstallFails \/ UninstallEnds \/ Killed
    BY <1>2 DEF Install, RollbackEnds, CommitRunnerService, CommitService, CommitFails, StepFails,
                Uninstall, UninstallFails, UninstallEnds, Killed
  <1>3. CASE EnsureControlFile \/ Refused
    BY <1>3, <1>a DEF EnsureControlFile, Refused, Present, InstallTypeOK
  <1>4. CASE CreateObject \/ StepFailsLate
    BY <1>4, <1>a DEF CreateObject, StepFailsLate, InstallTypeOK
  <1>5. CASE StartServices
    BY <1>5, <1>a DEF StartServices, InstallTypeOK
  <1>6. ASSUME NEW x \in pending, phase = "rollback", host' = Without(x) \/ host' = Stray(x)
        PROVE  host'[o] = "foreign"
    <2>1. CASE host' = Stray(x)
      BY <1>a, <2>1 DEF Stray, InstallTypeOK
    <2>2. CASE host' = Without(x) /\ x # o
      BY <1>a, <2>2 DEF Without, InstallTypeOK
    <2>3. CASE x = o
      <3>1. x \in recorded
        BY <1>6, <1>a, <2>3 DEF RollbackInv, RollbackTargets, InstallTypeOK
      <3>2. QED BY <1>6, <1>a, <2>3, <3>1 DEF RollbackInv
    <2>4. QED BY <1>6, <2>1, <2>2, <2>3
  <1>7. CASE RemoveObject \/ RemoveFails
    BY <1>6, <1>7 DEF RemoveObject, RemoveFails
  <1>8. CASE UninstallObject
    <2>1. PICK x \in pending : host' = Without(x) /\ phase = "uninstall"
      BY <1>8 DEF UninstallObject
    <2>2. x # o
      BY <1>a, <2>1 DEF UninstallInv, Ours
    <2>3. QED BY <1>a, <2>1, <2>2 DEF Without, InstallTypeOK
  <1>9. QED
    BY <1>1, <1>2, <1>3, <1>4, <1>5, <1>7, <1>8 DEF InstallNext

\* Neither rollback nor uninstallation removes what somebody else made, whenever it
\* appeared, but for a runner unit on Linux, which one flag covers with the broker's.
THEOREM ForeignIsKept == InstallSpec => ForeignKept
  <1>1. InstallInv /\ [InstallNext]_installVars => [ForeignObjectsKept]_installVars
    BY ForeignStep
  <1>2. QED BY <1>1, InstallInvariant, PTL DEF InstallSpec, ForeignKept
=============================================================================
