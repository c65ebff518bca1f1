--------------------------- MODULE DirSyncProofs ---------------------------
(***************************************************************************)
(* For all trees: after a run the destination mirrors the source except    *)
(* below the items on which a call has failed, a run after one without     *)
(* failures, or on a destination in step, changes nothing in it, and a     *)
(* file that is up to date keeps its contents.                             *)
(***************************************************************************)
EXTENDS DirSync, SequenceTheorems, WellFoundedInduction, TLAPS

-----------------------------------------------------------------------------
(* Paths.                                                                  *)

LEMMA RootPath == <<>> \in Path
BY PathAssumption

LEMMA PrefixByName ==
    ASSUME NEW p \in Seq(Name), NEW q \in Seq(Name)
    PROVE  IsPrefix(p, q) <=> Len(p) <= Len(q) /\ \A i \in 1 .. Len(p) : p[i] = q[i]
<1>1. Len(p) \in Nat /\ Len(q) \in Nat
    OBVIOUS
<1>2. CASE Len(p) <= Len(q)
    <2>1. /\ SubSeq(p, 1, Len(p)) \in Seq(Name) /\ Len(SubSeq(p, 1, Len(p))) = Len(p)
          /\ \A i \in 1 .. Len(p) : SubSeq(p, 1, Len(p))[i] = p[i]
        BY SubSeqFull
    <2>2. \A i \in 1 .. Len(p) : q[i] \in Name
        BY <1>1, <1>2, ElementOfSeq
    <2>3. /\ SubSeq(q, 1, Len(p)) \in Seq(Name) /\ Len(SubSeq(q, 1, Len(p))) = Len(p)
          /\ \A i \in 1 .. Len(p) : SubSeq(q, 1, Len(p))[i] = q[i]
        BY <1>1, <2>2, SubSeqProperties
    <2>4. SubSeq(p, 1, Len(p)) = SubSeq(q, 1, Len(p)) <=> \A i \in 1 .. Len(p) : p[i] = q[i]
        BY <2>1, <2>3, SeqEqual
    <2>5. QED
        BY <1>2, <2>4 DEF IsPrefix
<1>3. CASE ~ (Len(p) <= Len(q))
    BY <1>3 DEF IsPrefix
<1>4. QED
    BY <1>2, <1>3

LEMMA PrefixOrder ==
    ASSUME NEW p \in Path, NEW q \in Path, NEW r \in Path
    PROVE  /\ IsPrefix(p, p) /\ IsPrefix(<<>>, p)
           /\ IsPrefix(p, q) /\ IsPrefix(q, r) => IsPrefix(p, r)
           /\ IsPrefix(p, q) /\ IsPrefix(q, p) => p = q
           /\ IsPrefix(p, r) /\ IsPrefix(q, r) => IsPrefix(p, q) \/ IsPrefix(q, p)
<1>1. p \in Seq(Name) /\ q \in Seq(Name) /\ r \in Seq(Name) /\ <<>> \in Seq(Name)
    BY PathAssumption
<1>2. Len(p) \in Nat /\ Len(q) \in Nat /\ Len(r) \in Nat
    BY <1>1
<1>3. IsPrefix(p, p) /\ IsPrefix(<<>>, p)
    <2>1. IsPrefix(p, p)
        BY <1>1, <1>2, PrefixByName
    <2>2. IsPrefix(<<>>, p) <=> Len(<<>>) <= Len(p) /\ \A i \in 1 .. Len(<<>>) : <<>>[i] = p[i]
        BY <1>1, PrefixByName
    <2>3. Len(<<>>) = 0 /\ 1 .. 0 = {}
        BY EmptySeq
    <2>4. QED
        BY <1>2, <2>1, <2>2, <2>3
<1>4. IsPrefix(p, q) /\ IsPrefix(q, r) => IsPrefix(p, r)
    BY <1>1, <1>2, PrefixByName
<1>5. IsPrefix(p, q) /\ IsPrefix(q, p) => p = q
    <2> SUFFICES ASSUME IsPrefix(p, q), IsPrefix(q, p) PROVE p = q
        OBVIOUS
    <2>1. Len(p) = Len(q) /\ \A i \in 1 .. Len(p) : p[i] = q[i]
        BY <1>1, <1>2, PrefixByName
    <2>2. QED
        BY <1>1, <2>1, SeqEqual
<1>6. IsPrefix(p, r) /\ IsPrefix(q, r) => IsPrefix(p, q) \/ IsPrefix(q, p)
    <2> SUFFICES ASSUME IsPrefix(p, r), IsPrefix(q, r) PROVE IsPrefix(p, q) \/ IsPrefix(q, p)
        OBVIOUS
    <2>1. \A i \in 1 .. Len(p) : p[i] = r[i]
        BY <1>1, PrefixByName
    <2>2. \A i \in 1 .. Len(q) : q[i] = r[i]
        BY <1>1, PrefixByName
    <2>3. CASE Len(p) <= Len(q)
        BY <1>1, <1>2, <2>1, <2>2, <2>3, PrefixByName
    <2>4. CASE Len(q) <= Len(p)
        BY <1>1, <1>2, <2>1, <2>2, <2>4, PrefixByName
    <2>5. QED
        BY <1>2, <2>3, <2>4
<1>7. QED
    BY <1>3, <1>4, <1>5, <1>6

LEMMA FrontIs ==
    ASSUME NEW q \in Path \ {<<>>}
    PROVE  /\ Front(q) \in Path /\ Len(q) \in Nat /\ Len(Front(q)) = Len(q) - 1
           /\ \A p \in Path : IsPrefix(p, q) <=> p = q \/ IsPrefix(p, Front(q))
           /\ ~ IsPrefix(q, Front(q))
<1>1. q \in Seq(Name) /\ Front(q) \in Path
    BY PathAssumption
<1>2. Len(q) \in Nat /\ Len(q) # 0
    BY <1>1, EmptySeq
<1>3. \A i \in 1 .. Len(q) - 1 : q[i] \in Name
    BY <1>1, <1>2, ElementOfSeq
<1>4. /\ Front(q) \in Seq(Name) /\ Len(Front(q)) = Len(q) - 1
      /\ \A i \in 1 .. Len(q) - 1 : Front(q)[i] = q[i]
    <2> DEFINE n == Len(q) - 1
    <2>1. n \in Int /\ 1 \in Int /\ n - 1 + 1 = n /\ n >= 0 /\ \A i \in 1 .. n : 1 + i - 1 = i
        BY <1>2
    <2>2. \A i \in 1 .. n : q[i] \in Name
        BY <1>3
    <2> HIDE DEF n
    <2>3. /\ SubSeq(q, 1, n) \in Seq(Name)
          /\ Len(SubSeq(q, 1, n)) = IF 1 <= n THEN n - 1 + 1 ELSE 0
          /\ \A i \in 1 .. n - 1 + 1 : SubSeq(q, 1, n)[i] = q[1 + i - 1]
        BY <2>1, <2>2, SubSeqProperties
    <2>4. Front(q) = SubSeq(q, 1, n)
        BY DEF Front, n
    <2>5. QED
        BY <2>1, <2>3, <2>4 DEF n
<1>5. ASSUME NEW p \in Path
      PROVE  IsPrefix(p, q) <=> p = q \/ IsPrefix(p, Front(q))
    <2>1. p \in Seq(Name) /\ Len(p) \in Nat
        BY PathAssumption
    <2>2. CASE Len(p) < Len(q)
        <3>1. 1 .. Len(p) \subseteq 1 .. Len(q) - 1 /\ p # q
            BY <1>2, <2>1, <2>2
        <3>2. \A i \in 1 .. Len(p) : Front(q)[i] = q[i]
            BY <1>4, <3>1
        <3>3. QED
            BY <1>1, <1>2, <1>4, <2>1, <2>2, <3>1, <3>2, PrefixByName
    <2>3. CASE Len(p) = Len(q)
        <3>1. p = q <=> \A i \in 1 .. Len(p) : p[i] = q[i]
            BY <1>1, <2>1, <2>3, SeqEqual
        <3>2. QED
            BY <1>1, <1>2, <1>4, <2>1, <2>3, <3>1, PrefixByName
    <2>4. CASE Len(p) > Len(q)
        BY <1>1, <1>2, <1>4, <2>1, <2>4, PrefixByName
    <2>5. QED
        BY <1>2, <2>1, <2>2, <2>3, <2>4
<1>6. ~ IsPrefix(q, Front(q))
    BY <1>1, <1>2, <1>4, PrefixByName
<1>7. QED
    BY <1>1, <1>2, <1>4, <1>5, <1>6

LEMMA ShortestPath ==
    ASSUME NEW S \in SUBSET Path, S # {}
    PROVE  \E p \in S : \A q \in S : Len(p) <= Len(q)
<1> DEFINE L == {Len(q) : q \in S}
<1>1. \A q \in S : Len(q) \in Nat
    BY PathAssumption
<1>2. L \in SUBSET Nat /\ L # {}
    BY <1>1
<1>3. PICK l \in L : \A e \in L : ~ (<<e, l>> \in OpToRel(<, Nat))
    BY <1>2, NatLessThanWellFounded, WFMin
<1>4. PICK p \in S : Len(p) = l
    OBVIOUS
<1>5. ASSUME NEW q \in S PROVE Len(p) <= Len(q)
    <2>1. ASSUME Len(q) < l PROVE FALSE
        <3>1. <<Len(q), l>> \in OpToRel(<, Nat)
            BY <1>1, <1>4, <2>1 DEF OpToRel
        <3>2. QED
            BY <1>3, <3>1
    <2>2. QED
        BY <1>1, <1>4, <2>1
<1>6. QED
    BY <1>5

\* What is below a directory is below one of its entries.
LEMMA Below ==
    ASSUME NEW p \in Path, NEW q \in Path, IsPrefix(p, q), p # q
    PROVE  \E c \in Child(p) : IsPrefix(c, q)
<1> DEFINE S == {c \in Path : c # p /\ IsPrefix(p, c) /\ IsPrefix(c, q)}
<1>1. S \in SUBSET Path /\ q \in S
    BY PrefixOrder
<1>2. PICK c \in S : \A e \in S : Len(c) <= Len(e)
    BY <1>1, ShortestPath
<1>3. c # <<>>
    <2>1. c = <<>> => IsPrefix(c, p)
        BY PrefixOrder
    <2>2. QED
        BY <2>1, PrefixOrder
<1>4. /\ Front(c) \in Path /\ Len(c) \in Nat /\ Len(Front(c)) = Len(c) - 1
      /\ IsPrefix(p, Front(c)) /\ IsPrefix(Front(c), c)
    BY <1>3, FrontIs, PrefixOrder
<1>5. IsPrefix(Front(c), q)
    BY <1>4, PrefixOrder
<1>6. Front(c) \notin S
    BY <1>2, <1>4
<1>7. Front(c) = p
    BY <1>4, <1>5, <1>6
<1>8. QED
    BY <1>3, <1>7 DEF Child

\* Different entries of a directory have nothing in common, and none is above
\* the directory.
LEMMA Siblings ==
    ASSUME NEW d \in Path, NEW p \in Child(d)
    PROVE  /\ p \in Path /\ p # <<>> /\ Front(p) = d
           /\ IsPrefix(d, p) /\ ~ IsPrefix(p, d) /\ p # d
           /\ \A r \in Path : IsPrefix(r, p) <=> r = p \/ IsPrefix(r, d)
           /\ \A q \in Child(d), r \in Path : IsPrefix(p, r) /\ IsPrefix(q, r) => p = q
<1>1. p \in Path /\ p # <<>> /\ Front(p) = d
    BY DEF Child
<1>2. IsPrefix(d, p) /\ ~ IsPrefix(p, d)
    BY <1>1, FrontIs, PrefixOrder
<1>3. \A r \in Path : IsPrefix(r, p) <=> r = p \/ IsPrefix(r, d)
    BY <1>1, FrontIs
<1>4. ASSUME NEW q \in Child(d), NEW r \in Path, IsPrefix(p, r), IsPrefix(q, r)
      PROVE  p = q
    <2>1. q \in Path /\ q # <<>> /\ Front(q) = d
        BY DEF Child
    <2>2. ~ IsPrefix(q, d) /\ \A z \in Path : IsPrefix(z, q) <=> z = q \/ IsPrefix(z, d)
        BY <2>1, FrontIs
    <2>3. IsPrefix(p, q) \/ IsPrefix(q, p)
        BY <1>1, <1>4, <2>1, PrefixOrder
    <2>4. QED
        BY <1>1, <1>2, <1>3, <2>1, <2>2, <2>3
<1>5. QED
    BY <1>1, <1>2, <1>3, <1>4, PrefixOrder

LEMMA Unders ==
    ASSUME NEW p \in Path
    PROVE  /\ Under(p) \subseteq Path /\ p \in Under(p)
           /\ \A q \in Path : q \in Under(p) <=> IsPrefix(p, q)
BY PrefixOrder DEF Under

-----------------------------------------------------------------------------
(* Trees.                                                                  *)

LEMMA NoItem == None \in Item /\ None.kind = "none" /\ None.data = Cut
BY CutAssumption DEF None, Item

LEMMA ItemFacts ==
    ASSUME NEW i \in Item
    PROVE  /\ i.kind \in {"none", "file", "dir"} /\ i.data \in DOMAIN Size /\ i.mtime \in Nat
           /\ i = None <=> i.kind = "none"
           /\ i.kind # "file" => i.data = Cut
           /\ i.kind # "none" => i.mode \in DOMAIN Umask
<1>1. i.kind \in {"none", "file", "dir"} /\ i.data \in DOMAIN Size /\ i.mtime \in Nat
    BY DEF Item
<1>2. i = None <=> i.kind = "none"
    BY NoItem DEF Item
<1>3. (i.kind # "file" => i.data = Cut) /\ (i.kind # "none" => i.mode \in DOMAIN Umask)
    BY DEF Item
<1>4. QED
    BY <1>1, <1>2, <1>3

LEMMA MakeItem ==
    ASSUME NEW kind \in {"file", "dir"}, NEW data \in DOMAIN Size, NEW mtime \in Nat,
           NEW mode \in DOMAIN Umask, kind = "dir" => data = Cut
    PROVE  /\ [kind |-> kind, data |-> data, mtime |-> mtime, mode |-> mode] \in Item
           /\ [kind |-> kind, data |-> data, mtime |-> mtime, mode |-> mode].kind = kind
           /\ [kind |-> kind, data |-> data, mtime |-> mtime, mode |-> mode].data = data
BY DEF Item, None

\* Setting the time or the mode of an item leaves what it is and holds.
LEMMA Stamp ==
    ASSUME NEW i \in Item, i.kind # "none", NEW mtime \in Nat
    PROVE  /\ [i EXCEPT !.mtime = mtime] \in Item
           /\ [i EXCEPT !.mtime = mtime].kind = i.kind
           /\ [i EXCEPT !.mtime = mtime].data = i.data
           /\ [i EXCEPT !.mtime = mtime].mtime = mtime
           /\ [i EXCEPT !.mtime = mtime].mode = i.mode
BY DEF Item, None

LEMMA Chmod ==
    ASSUME NEW i \in Item, i.kind # "none", NEW mode \in DOMAIN Umask
    PROVE  /\ [i EXCEPT !.mode = mode] \in Item
           /\ [i EXCEPT !.mode = mode].kind = i.kind
           /\ [i EXCEPT !.mode = mode].data = i.data
           /\ [i EXCEPT !.mode = mode].mtime = i.mtime
           /\ [i EXCEPT !.mode = mode].mode = mode
BY DEF Item, None

LEMMA TreeItem ==
    ASSUME NEW t, Tree(t), NEW p \in Path
    PROVE  /\ t[p] \in Item /\ t[<<>>].kind = "dir"
           /\ t[p] # None /\ p # <<>> => t[Front(p)].kind = "dir"
BY DEF Tree

\* There is nothing in what is not a directory.
LEMMA OnlyInDirs ==
    ASSUME NEW t, Tree(t), NEW p \in Path, t[p].kind # "dir",
           NEW q \in Path, IsPrefix(p, q), q # p
    PROVE  t[q] = None
<1> DEFINE S == {r \in Path : IsPrefix(p, r) /\ r # p /\ t[r] # None}
<1> SUFFICES ASSUME t[q] # None PROVE FALSE
    OBVIOUS
<1>1. S \in SUBSET Path /\ S # {}
    OBVIOUS
<1>2. PICK r \in S : \A s \in S : Len(r) <= Len(s)
    BY <1>1, ShortestPath
<1>3. r # <<>>
    BY RootPath, PrefixOrder
<1>4. Front(r) \in Path /\ Len(r) \in Nat /\ Len(Front(r)) = Len(r) - 1 /\ IsPrefix(p, Front(r))
    BY <1>3, FrontIs
<1>5. t[Front(r)].kind = "dir"
    BY <1>3, TreeItem
<1>6. Front(r) \in S
    BY <1>4, <1>5, NoItem
<1>7. QED
    BY <1>2, <1>4, <1>6

LEMMA NothingBelow ==
    ASSUME NEW t, Tree(t), NEW p \in Path, t[p] = None, NEW q \in Under(p)
    PROVE  t[q] = None
BY OnlyInDirs, NoItem, Unders

LEMMA ClockNat == Clock \in Nat
BY NowAssumption DEF Clock

\* A change of a tree that keeps, in S, what there is and what files hold;
\* files keep their times and modes too.
Alike(t, u, S) ==
    \A x \in S : /\ u[x].kind = t[x].kind /\ u[x].data = t[x].data
                 /\ t[x].kind # "dir" => u[x] = t[x]

LEMMA AlikeTwice ==
    ASSUME NEW t, NEW u, NEW v, NEW S, Alike(t, u, S), Alike(u, v, S)
    PROVE  Alike(t, v, S)
BY DEF Alike

LEMMA AlikeLess ==
    ASSUME NEW t, NEW u, NEW S, NEW T \in SUBSET S, Alike(t, u, S)
    PROVE  Alike(t, u, T)
BY DEF Alike

LEMMA WithoutEffect ==
    ASSUME NEW t, Tree(t), NEW lost \in SUBSET (Path \ {<<>>}),
           \A q \in Path \ {<<>>} : Front(q) \in lost => q \in lost \/ t[q] = None
    PROVE  /\ Tree(Without(t, lost))
           /\ Alike(t, Without(t, lost), Path \ lost)
           /\ \A q \in lost : Without(t, lost)[q] = None
<1> DEFINE u == Without(t, lost)
<1>1. \A q \in lost : u[q] = None
    BY DEF Without
<1>2. ASSUME NEW q \in Path \ lost
      PROVE  /\ u[q] \in Item
             /\ u[q].kind = t[q].kind /\ u[q].data = t[q].data
             /\ t[q].kind # "dir" => u[q] = t[q]
    <2>1. CASE Entries(t, q) \cap lost # {}
        <3>1. u[q] = [t[q] EXCEPT !.mtime = Clock]
            BY <2>1 DEF Without
        <3>2. PICK r \in Path \ {<<>>} : Front(r) = q /\ t[r] # None
            BY <2>1 DEF Entries, Child
        <3>3. t[q].kind = "dir" /\ t[q] \in Item
            BY <3>2, TreeItem
        <3>4. QED
            BY <3>1, <3>3, Stamp, ClockNat
    <2>2. CASE Entries(t, q) \cap lost = {}
        <3>1. u[q] = t[q]
            BY <2>2 DEF Without
        <3>2. QED
            BY <3>1, TreeItem
    <2>3. QED
        BY <2>1, <2>2
<1>3. u \in [Path -> Item]
    <2>1. \A q \in Path : u[q] \in Item
        BY <1>1, <1>2, NoItem
    <2>2. u = [q \in Path |-> u[q]]
        BY DEF Without
    <2>3. QED
        BY <2>1, <2>2
<1>4. u[<<>>].kind = "dir"
    BY <1>2, RootPath, TreeItem
<1>5. ASSUME NEW q \in Path \ {<<>>}, u[q] # None PROVE u[Front(q)].kind = "dir"
    <2>1. q \notin lost /\ u[q].kind = t[q].kind
        BY <1>1, <1>2, <1>5
    <2>2. t[q] # None
        BY <1>2, <1>5, <2>1, NoItem
    <2>3. Front(q) \in Path \ lost /\ t[Front(q)].kind = "dir"
        BY <2>1, <2>2, TreeItem, FrontIs
    <2>4. QED
        BY <1>2, <2>3
<1>6. QED
    BY <1>1, <1>2, <1>3, <1>4, <1>5 DEF Tree, Alike

LEMMA PutEffect ==
    ASSUME NEW t, Tree(t), NEW p \in Path \ {<<>>}, NEW item \in Item,
           item.kind # "none", t[Front(p)].kind = "dir",
           item.kind = "dir" \/ t[p].kind # "dir"
    PROVE  /\ Tree(Put(t, p, item))
           /\ Alike(t, Put(t, p, item), Path \ {p})
           /\ Put(t, p, item)[p] = item
<1> DEFINE u == Put(t, p, item)
<1>1. u[p] = item
    BY DEF Put
<1>2. ASSUME NEW q \in Path \ {p}
      PROVE  /\ u[q] \in Item
             /\ u[q].kind = t[q].kind /\ u[q].data = t[q].data
             /\ t[q].kind # "dir" => u[q] = t[q]
    <2>1. CASE t[p] = None /\ p \in Child(q)
        <3>1. u[q] = [t[q] EXCEPT !.mtime = Clock]
            BY <2>1 DEF Put
        <3>2. t[q].kind = "dir" /\ t[q] \in Item
            BY <2>1, TreeItem DEF Child
        <3>3. QED
            BY <3>1, <3>2, Stamp, ClockNat
    <2>2. CASE ~ (t[p] = None /\ p \in Child(q))
        <3>1. u[q] = t[q]
            BY <2>2 DEF Put
        <3>2. QED
            BY <3>1, TreeItem
    <2>3. QED
        BY <2>1, <2>2
<1>3. u \in [Path -> Item]
    <2>1. \A q \in Path : u[q] \in Item
        BY <1>1, <1>2
    <2>2. u = [q \in Path |-> u[q]]
        BY DEF Put
    <2>3. QED
        BY <2>1, <2>2
<1>4. u[<<>>].kind = "dir"
    BY <1>2, RootPath, TreeItem
<1>5. ASSUME NEW q \in Path \ {<<>>}, u[q] # None PROVE u[Front(q)].kind = "dir"
    <2>1. Front(q) \in Path /\ Front(q) # q
        BY FrontIs, PrefixOrder
    <2>2. t[Front(q)].kind = "dir"
        <3>1. CASE q = p
            BY <3>1
        <3>2. CASE q # p
            <4>1. u[q] \in Item /\ u[q].kind = t[q].kind /\ t[q] \in Item
                BY <1>2, <3>2, TreeItem
            <4>2. t[q] # None
                BY <1>5, <4>1, ItemFacts
            <4>3. QED
                BY <4>2, TreeItem
        <3>3. QED
            BY <3>1, <3>2
    <2>3. CASE Front(q) = p
        BY <1>1, <2>2, <2>3
    <2>4. CASE Front(q) # p
        BY <1>2, <2>1, <2>2, <2>4
    <2>5. QED
        BY <2>3, <2>4
<1>6. QED
    BY <1>1, <1>2, <1>3, <1>4, <1>5 DEF Tree, Alike

-----------------------------------------------------------------------------
(* What the calls do to a tree.                                            *)

LEMMA NotUnder ==
    ASSUME NEW p \in Path \ {<<>>}
    PROVE  /\ Under(p) \in SUBSET (Path \ {<<>>}) /\ {p} \in SUBSET Under(p)
           /\ Front(p) \in Path \ Under(p)
BY Unders, FrontIs, PrefixOrder, RootPath

LEMMA RemoveFile ==
    ASSUME NEW t, Tree(t), NEW p \in Path \ {<<>>}, t[p].kind # "dir"
    PROVE  /\ Tree(Without(t, {p}))
           /\ Alike(t, Without(t, {p}), Path \ {p})
           /\ Without(t, {p})[p] = None
<1>1. ASSUME NEW q \in Path \ {<<>>}, Front(q) = p PROVE t[q] = None
    BY <1>1, TreeItem
<1>2. QED
    BY <1>1, WithoutEffect

LEMMA RemoveTree ==
    ASSUME NEW t, Tree(t), NEW p \in Path \ {<<>>}
    PROVE  /\ Tree(Without(t, Under(p)))
           /\ Alike(t, Without(t, Under(p)), Path \ Under(p))
           /\ \A q \in Under(p) : Without(t, Under(p))[q] = None
<1>1. ASSUME NEW q \in Path \ {<<>>}, Front(q) \in Under(p) PROVE q \in Under(p)
    BY <1>1, Unders, FrontIs
<1>2. Under(p) \in SUBSET (Path \ {<<>>})
    BY NotUnder
<1>3. QED
    BY <1>1, <1>2, WithoutEffect

LEMMA RemoveSome ==
    ASSUME NEW t, Tree(t), NEW p \in Path \ {<<>>}, NEW u \in PartlyRemoved(t, p)
    PROVE  Tree(u) /\ Alike(t, u, Path \ Under(p))
<1>1. PICK lost \in SUBSET (Under(p) \ {p}) :
          (\A q \in lost : Under(q) \subseteq lost) /\ u = Without(t, lost)
    BY DEF PartlyRemoved
<1>2. lost \in SUBSET (Path \ {<<>>}) /\ Path \ Under(p) \in SUBSET (Path \ lost)
    BY NotUnder
<1>3. ASSUME NEW q \in Path \ {<<>>}, Front(q) \in lost PROVE q \in lost
    <2>1. q \in Under(Front(q))
        BY FrontIs, Unders, PrefixOrder
    <2>2. QED
        BY <1>1, <1>3, <2>1
<1>4. Tree(u) /\ Alike(t, u, Path \ lost)
    BY <1>1, <1>2, <1>3, WithoutEffect
<1>5. QED
    BY <1>2, <1>4, AlikeLess

LEMMA MakeDirEffect ==
    ASSUME NEW t, Tree(t), Tree(src), NEW p \in Path \ {<<>>},
           src[p].kind = "dir", t[Front(p)].kind = "dir"
    PROVE  /\ Tree(MakeDir(t, p))
           /\ Alike(t, MakeDir(t, p), Path \ {p})
           /\ MakeDir(t, p)[p].kind = "dir"
<1> DEFINE item == [kind |-> "dir", data |-> Cut, mtime |-> Clock, mode |-> Umask[src[p].mode]]
<1>1. Umask[src[p].mode] \in DOMAIN Umask
    BY TreeItem, ItemFacts, UmaskAssumption
<1>2. item \in Item /\ item.kind = "dir"
    BY <1>1, ClockNat, CutAssumption, MakeItem
<1>3. MakeDir(t, p) = Put(t, p, item)
    BY DEF MakeDir
<1> HIDE DEF item
<1>4. /\ Tree(Put(t, p, item)) /\ Alike(t, Put(t, p, item), Path \ {p})
      /\ Put(t, p, item)[p] = item
    BY <1>2, PutEffect
<1>5. QED
    BY <1>2, <1>3, <1>4

LEMMA WithDirEffect ==
    ASSUME Tree(src), Tree(dst), NEW p \in Path \ {<<>>},
           src[p].kind = "dir", dst[Front(p)].kind = "dir"
    PROVE  /\ Tree(WithDir(p))
           /\ Alike(dst, WithDir(p), Path \ {p})
           /\ WithDir(p)[p].kind = "dir"
<1>1. CASE dst[p].kind = "dir"
    BY <1>1 DEF WithDir, Alike
<1>2. CASE dst[p].kind # "dir"
    <2> DEFINE t == Without(dst, {p})
    <2>1. Tree(t) /\ Alike(dst, t, Path \ {p})
        BY <1>2, RemoveFile
    <2>2. t[Front(p)].kind = "dir"
        BY <2>1, NotUnder DEF Alike
    <2>3. WithDir(p) = MakeDir(t, p)
        BY <1>2 DEF WithDir
    <2> HIDE DEF t
    <2>4. /\ Tree(MakeDir(t, p)) /\ Alike(t, MakeDir(t, p), Path \ {p})
          /\ MakeDir(t, p)[p].kind = "dir"
        BY <2>1, <2>2, MakeDirEffect
    <2>5. QED
        BY <2>1, <2>3, <2>4, AlikeTwice
<1>3. QED
    BY <1>1, <1>2

LEMMA ClearedEffect ==
    ASSUME Tree(dst), NEW p \in Path \ {<<>>}, dst[Front(p)].kind = "dir"
    PROVE  /\ Tree(Cleared(p))
           /\ Alike(dst, Cleared(p), Path \ Under(p))
           /\ Cleared(p)[p].kind # "dir" /\ Cleared(p)[Front(p)].kind = "dir"
<1>1. CASE dst[p].kind = "dir"
    <2>1. Cleared(p) = Without(dst, Under(p))
        BY <1>1 DEF Cleared
    <2>2. /\ Tree(Cleared(p)) /\ Alike(dst, Cleared(p), Path \ Under(p))
          /\ Cleared(p)[p] = None
        BY <2>1, RemoveTree, NotUnder
    <2>3. Cleared(p)[Front(p)].kind = "dir"
        BY <2>2, NotUnder DEF Alike
    <2>4. QED
        BY <2>2, <2>3, NoItem
<1>2. CASE dst[p].kind # "dir"
    BY <1>2 DEF Cleared, Alike
<1>3. QED
    BY <1>1, <1>2

LEMMA WriteEffect ==
    ASSUME NEW t, Tree(t), Tree(src), NEW p \in Path \ {<<>>}, NEW data \in DOMAIN Size,
           src[p].kind = "file", t[p].kind # "dir", t[Front(p)].kind = "dir"
    PROVE  /\ Tree(Write(t, p, data))
           /\ Alike(t, Write(t, p, data), Path \ {p})
           /\ Write(t, p, data)[p].kind = "file" /\ Write(t, p, data)[p].data = data
<1> DEFINE mode == IF t[p].kind = "file" THEN t[p].mode ELSE Umask[src[p].mode]
           item == [kind |-> "file", data |-> data, mtime |-> Clock, mode |-> mode]
<1>1. Umask[src[p].mode] \in DOMAIN Umask
    BY TreeItem, ItemFacts, UmaskAssumption
<1>2. mode \in DOMAIN Umask
    BY <1>1, TreeItem, ItemFacts
<1>3. Write(t, p, data) = Put(t, p, item)
    BY DEF Write
<1> HIDE DEF mode
<1>4. item \in Item /\ item.kind = "file" /\ item.data = data
    BY <1>2, ClockNat, MakeItem
<1> HIDE DEF item
<1>5. QED
    BY <1>3, <1>4, PutEffect

LEMMA CopyEffect ==
    ASSUME Tree(src), Tree(dst), NEW p \in Path \ {<<>>}, NEW data \in DOMAIN Size,
           src[p].kind = "file", dst[Front(p)].kind = "dir"
    PROVE  /\ Tree(Write(Cleared(p), p, data))
           /\ Alike(dst, Write(Cleared(p), p, data), Path \ Under(p))
           /\ Write(Cleared(p), p, data)[p].kind = "file"
           /\ Write(Cleared(p), p, data)[p].data = data
<1> DEFINE t == Cleared(p)
<1>1. /\ Tree(t) /\ Alike(dst, t, Path \ Under(p))
      /\ t[p].kind # "dir" /\ t[Front(p)].kind = "dir"
    BY ClearedEffect
<1> HIDE DEF t
<1>2. /\ Tree(Write(t, p, data)) /\ Alike(t, Write(t, p, data), Path \ {p})
      /\ Write(t, p, data)[p].kind = "file" /\ Write(t, p, data)[p].data = data
    BY <1>1, WriteEffect
<1>3. Path \ Under(p) \in SUBSET (Path \ {p})
    BY NotUnder
<1>4. Alike(dst, Write(t, p, data), Path \ Under(p))
    BY <1>1, <1>2, <1>3, AlikeLess, AlikeTwice
<1>5. QED
    BY <1>2, <1>4 DEF t

\* Setting times and modes.
LEMMA SetEffect ==
    ASSUME NEW t, Tree(t), NEW p \in Path, NEW item \in Item,
           item.kind = t[p].kind, item.data = t[p].data
    PROVE  /\ Tree([t EXCEPT ![p] = item])
           /\ \A x \in Path : /\ [t EXCEPT ![p] = item][x].kind = t[x].kind
                              /\ [t EXCEPT ![p] = item][x].data = t[x].data
           /\ \A x \in Path \ {p} : [t EXCEPT ![p] = item][x] = t[x]
           /\ [t EXCEPT ![p] = item][p] = item
<1> DEFINE u == [t EXCEPT ![p] = item]
<1>1. t \in [Path -> Item]
    BY DEF Tree
<1>2. u[p] = item /\ (\A x \in Path \ {p} : u[x] = t[x]) /\ u \in [Path -> Item]
    BY <1>1
<1>3. \A x \in Path : u[x].kind = t[x].kind /\ u[x].data = t[x].data
    BY <1>2
<1>4. ASSUME NEW x \in Path PROVE u[x] = None <=> t[x] = None
    BY <1>1, <1>2, <1>3, ItemFacts
<1>5. Tree(u)
    <2>1. u[<<>>].kind = "dir"
        BY <1>3, RootPath, TreeItem
    <2>2. ASSUME NEW x \in Path \ {<<>>}, u[x] # None PROVE u[Front(x)].kind = "dir"
        BY <1>3, <1>4, <2>2, TreeItem, FrontIs
    <2>3. QED
        BY <1>2, <2>1, <2>2 DEF Tree
<1>6. QED
    BY <1>2, <1>3, <1>5

LEMMA SetTimeEffect ==
    ASSUME Tree(src), Tree(dst), NEW p \in Path, dst[p] # None
    PROVE  /\ Tree(SetTime(dst, p))
           /\ \A x \in Path : /\ SetTime(dst, p)[x].kind = dst[x].kind
                              /\ SetTime(dst, p)[x].data = dst[x].data
           /\ \A x \in Path \ {p} : SetTime(dst, p)[x] = dst[x]
           /\ SetTime(dst, p)[p].mtime = src[p].mtime
<1> DEFINE item == [dst[p] EXCEPT !.mtime = src[p].mtime]
<1>1. dst[p] \in Item /\ dst[p].kind # "none" /\ src[p].mtime \in Nat
    BY TreeItem, ItemFacts
<1>2. /\ item \in Item /\ item.kind = dst[p].kind /\ item.data = dst[p].data
      /\ item.mtime = src[p].mtime
    BY <1>1, Stamp
<1>3. SetTime(dst, p) = [dst EXCEPT ![p] = item]
    BY DEF SetTime
<1> HIDE DEF item
<1> DEFINE u == [dst EXCEPT ![p] = item]
<1>4. /\ Tree(u) /\ u[p] = item
      /\ \A x \in Path : u[x].kind = dst[x].kind /\ u[x].data = dst[x].data
      /\ \A x \in Path \ {p} : u[x] = dst[x]
    BY <1>2, SetEffect
<1> HIDE DEF u
<1>5. QED
    BY <1>2, <1>3, <1>4 DEF u

LEMMA SetAttrsEffect ==
    ASSUME Tree(src), Tree(dst), NEW p \in Path, dst[p] # None, src[p] # None
    PROVE  /\ Tree(SetAttrs(dst, p))
           /\ \A x \in Path : /\ SetAttrs(dst, p)[x].kind = dst[x].kind
                              /\ SetAttrs(dst, p)[x].data = dst[x].data
           /\ \A x \in Path \ {p} : SetAttrs(dst, p)[x] = dst[x]
           /\ SetAttrs(dst, p)[p].mtime = src[p].mtime
           /\ SetAttrs(dst, p)[p].mode = src[p].mode
<1> DEFINE t == SetTime(dst, p)
           item == [t[p] EXCEPT !.mode = src[p].mode]
<1>1. /\ Tree(t) /\ t[p].mtime = src[p].mtime
      /\ \A x \in Path : t[x].kind = dst[x].kind /\ t[x].data = dst[x].data
      /\ \A x \in Path \ {p} : t[x] = dst[x]
    BY SetTimeEffect
<1>2. SetAttrs(dst, p) = [t EXCEPT ![p] = item]
    BY DEF SetAttrs
<1> HIDE DEF t
<1>3. t[p] \in Item /\ t[p].kind # "none" /\ src[p].mode \in DOMAIN Umask
    BY <1>1, TreeItem, ItemFacts
<1>4. /\ item \in Item /\ item.kind = t[p].kind /\ item.data = t[p].data
      /\ item.mtime = t[p].mtime /\ item.mode = src[p].mode
    BY <1>3, Chmod
<1> HIDE DEF item
<1> DEFINE u == [t EXCEPT ![p] = item]
<1>5. /\ Tree(u) /\ u[p] = item
      /\ \A x \in Path : u[x].kind = t[x].kind /\ u[x].data = t[x].data
      /\ \A x \in Path \ {p} : u[x] = t[x]
    BY <1>1, <1>4, SetEffect
<1>6. SetAttrs(dst, p) = u
    BY <1>2
<1> HIDE DEF u
<1>7. QED
    BY <1>1, <1>4, <1>5, <1>6

-----------------------------------------------------------------------------
(* The invariant.                                                          *)

\* Below an item on which a call has failed nothing is promised.
Clean(p) == \A q \in failed : ~ IsPrefix(q, p)

Pass == {"copy", "prune", "attrs"}

Frame == [dir : Path, pass : Pass, todo : SUBSET Path]

\* What a call of sync_dirs has still to do with the entries of its directory:
\* those of the source it has not come to, and those the source lacks.
Left(c) ==
    CASE c.pass = "copy"  -> c.todo \cup {q \in Child(c.dir) : src[q] = None}
      [] c.pass = "prune" -> {q \in c.todo : src[q] = None}
      [] OTHER            -> {}

\* The first pass has still to come to p.
Coming(s, p) == \E i \in DOMAIN s : \E q \in Left(s[i]) : IsPrefix(q, p)

\* The second pass has still to come to p, or is in it.
Unset(s, p) == \E i \in DOMAIN s : s[i].dir = p \/ \E q \in s[i].todo : IsPrefix(q, p)

\* The calls s are in one pass, and only the innermost is at the entries of
\* the destination t.
Passes(s, t) ==
    /\ s \in Seq(Frame)
    /\ \A i \in DOMAIN s :
          /\ s[i].todo \subseteq Entries(IF s[i].pass = "prune" THEN t ELSE src, s[i].dir)
          /\ s[i].pass = "prune" => i = 1
          /\ s[i].pass = "attrs" <=> s[1].pass = "attrs"

\* The calls are of directories inside one another, and a call that is
\* interrupted has done with what it was interrupted for.
Nested(s) ==
    \A i, j \in DOMAIN s : i < j =>
        /\ IsPrefix(s[j].dir, s[i].dir) /\ s[j].dir # s[i].dir
        /\ \A q \in Left(s[j]) : ~ IsPrefix(q, s[i].dir)

Opened(s, t) == \A i \in DOMAIN s : src[s[i].dir].kind = "dir" /\ t[s[i].dir].kind = "dir"

\* What the first pass has come to is as in the source, or as it was and looked
\* the same.
AsInSource(p) ==
    /\ dst[p].kind = src[p].kind
    /\ dst[p].data # src[p].data =>
          LooksSame(src[p], before[p]) /\ dst[p].data = before[p].data

Copied == \A p \in Path : Clean(p) /\ ~ Coming(stack, p) => AsInSource(p)

\* What it has not come to is as it was.
Untouched == \A p \in Path : Coming(stack, p) /\ dst[p].kind = "file" => dst[p] = before[p]

InFirstPass == stack # <<>> /\ stack[1].pass # "attrs"

\* What the second pass has come to has the times and permissions.
Equalled ==
    ~ InFirstPass => \A p \in Path : Clean(p) /\ ~ Unset(stack, p) => SameItem(src[p], dst[p])

CallsInv == Passes(stack, dst) /\ Nested(stack) /\ Opened(stack, dst)

Inv ==
    /\ TypeOK /\ CallsInv
    /\ Copied /\ Untouched /\ Equalled

-----------------------------------------------------------------------------
(* The calls.                                                              *)

LEMMA FrameFacts ==
    ASSUME NEW s \in Seq(Frame)
    PROVE  /\ Len(s) \in Nat /\ DOMAIN s = 1 .. Len(s)
           /\ \A i \in DOMAIN s : s[i] \in Frame
           /\ s # <<>> => /\ 1 \in DOMAIN s /\ Head(s) = s[1] /\ s[1] \in Frame
                          /\ Len(s) >= 1
           /\ s = <<>> => DOMAIN s = {}
<1>1. Len(s) \in Nat /\ DOMAIN s = 1 .. Len(s)
    OBVIOUS
<1>2. \A i \in DOMAIN s : s[i] \in Frame
    BY ElementOfSeq
<1>3. s # <<>> => Len(s) >= 1
    BY EmptySeq
<1>4. s # <<>> => 1 \in DOMAIN s
    BY <1>1, <1>3
<1>5. s # <<>> => Head(s) = s[1]
    OBVIOUS
<1>6. s = <<>> => DOMAIN s = {}
    BY <1>1, EmptySeq
<1>7. QED
    BY <1>1, <1>2, <1>3, <1>4, <1>5, <1>6

LEMMA FrameFields ==
    ASSUME NEW c \in Frame
    PROVE  c.dir \in Path /\ c.pass \in Pass /\ c.todo \in SUBSET Path
BY DEF Frame

LEMMA NewFrame ==
    ASSUME NEW d \in Path, NEW pass \in Pass, NEW todo \in SUBSET Path
    PROVE  /\ [dir |-> d, pass |-> pass, todo |-> todo] \in Frame
           /\ Call(d, pass, todo) = <<[dir |-> d, pass |-> pass, todo |-> todo]>>
BY DEF Frame, Call

LEMMA OneCall ==
    ASSUME NEW c \in Frame
    PROVE  <<c>> \in Seq(Frame) /\ Len(<<c>>) = 1 /\ <<c>>[1] = c
OBVIOUS

\* A call c made by the calls s, and the calls there are then.
Calling(c, s) == <<c>> \o s

Stacked(r, c, s) ==
    /\ r \in Seq(Frame) /\ r # <<>> /\ DOMAIN r = 1 .. Len(s) + 1
    /\ r[1] = c
    /\ \A i \in DOMAIN r : i = 1 \/ (i - 1 \in DOMAIN s /\ r[i] = s[i - 1])

LEMMA OnTop ==
    ASSUME NEW c \in Frame, NEW s \in Seq(Frame)
    PROVE  Stacked(Calling(c, s), c, s)
<1> DEFINE q == <<c>>
           r == Calling(c, s)
<1>1. q \in Seq(Frame) /\ Len(q) = 1 /\ q[1] = c
    OBVIOUS
<1>2. Len(s) \in Nat /\ DOMAIN s = 1 .. Len(s)
    OBVIOUS
<1>3. /\ r \in Seq(Frame) /\ Len(r) = 1 + Len(s)
      /\ \A i \in 1 .. 1 + Len(s) : r[i] = IF i <= 1 THEN q[i] ELSE s[i - 1]
    <2>1. r = q \o s
        BY DEF Calling
    <2> HIDE DEF q, r
    <2>2. /\ q \o s \in Seq(Frame) /\ Len(q \o s) = Len(q) + Len(s)
          /\ \A i \in 1 .. Len(q) + Len(s) :
                 (q \o s)[i] = IF i <= Len(q) THEN q[i] ELSE s[i - Len(q)]
        BY <1>1, ConcatProperties
    <2>3. Len(q) = 1
        BY <1>1
    <2>4. QED
        BY <2>1, <2>2, <2>3
<1> HIDE DEF q, r
<1>4. DOMAIN r = 1 .. Len(s) + 1 /\ r # <<>>
    BY <1>2, <1>3, EmptySeq
<1>5. r[1] = c
    BY <1>1, <1>2, <1>3
<1>6. \A i \in DOMAIN r : i = 1 \/ (i - 1 \in DOMAIN s /\ r[i] = s[i - 1])
    BY <1>2, <1>3, <1>4
<1>7. QED
    BY <1>3, <1>4, <1>5, <1>6 DEF r, Stacked

LEMMA OneDeeper ==
    ASSUME NEW c \in Frame, NEW s \in Seq(Frame), NEW i \in DOMAIN s
    PROVE  i + 1 \in DOMAIN Calling(c, s) /\ Calling(c, s)[i + 1] = s[i]
<1> DEFINE r == Calling(c, s)
           j == i + 1
<1>1. i \in 1 .. Len(s) /\ Len(s) \in Nat
    OBVIOUS
<1>2. DOMAIN r = 1 .. Len(s) + 1 /\ \A k \in DOMAIN r : k = 1 \/ r[k] = s[k - 1]
    BY OnTop DEF Stacked
<1> HIDE DEF r
<1>3. j \in DOMAIN r /\ j # 1 /\ j - 1 = i
    BY <1>1, <1>2
<1> HIDE DEF j
<1>4. r[j] = s[i]
    BY <1>2, <1>3
<1>5. QED
    BY <1>3, <1>4 DEF r, j

LEMMA TailIs ==
    ASSUME NEW s \in Seq(Frame), s # <<>>
    PROVE  /\ Tail(s) \in Seq(Frame) /\ DOMAIN Tail(s) = 1 .. Len(s) - 1
           /\ Tail(s) = <<>> <=> Len(s) = 1
           /\ \A i \in DOMAIN Tail(s) : i + 1 \in DOMAIN s /\ Tail(s)[i] = s[i + 1]
           /\ \A i \in DOMAIN s : i = 1 \/ (i - 1 \in DOMAIN Tail(s) /\ s[i] = Tail(s)[i - 1])
<1>1. /\ Tail(s) \in Seq(Frame) /\ Len(Tail(s)) = Len(s) - 1
      /\ \A i \in 1 .. Len(Tail(s)) : Tail(s)[i] = s[i + 1]
    BY HeadTailProperties
<1>2. Len(s) \in Nat /\ Len(s) >= 1 /\ DOMAIN s = 1 .. Len(s)
    BY FrameFacts
<1>3. DOMAIN Tail(s) = 1 .. Len(s) - 1
    BY <1>1
<1>4. Tail(s) = <<>> <=> Len(s) = 1
    <2>1. Len(s) = 1 => Len(Tail(s)) = 0
        BY <1>1, <1>2
    <2>2. Len(Tail(s)) = 0 => Tail(s) = <<>>
        BY <1>1, EmptySeq
    <2>3. Tail(s) = <<>> => Len(Tail(s)) = 0
        BY EmptySeq
    <2>4. Len(s) - 1 = 0 => Len(s) = 1
        BY <1>2
    <2>5. QED
        BY <1>1, <2>1, <2>2, <2>3, <2>4
<1>5. \A i \in DOMAIN Tail(s) : i + 1 \in DOMAIN s /\ Tail(s)[i] = s[i + 1]
    BY <1>1, <1>2, <1>3
<1>6. \A i \in DOMAIN s : i = 1 \/ (i - 1 \in DOMAIN Tail(s) /\ s[i] = Tail(s)[i - 1])
    BY <1>1, <1>2, <1>3
<1>7. QED
    BY <1>1, <1>3, <1>4, <1>5, <1>6

LEMMA DropEntry ==
    ASSUME NEW c \in Frame, NEW p
    PROVE  [c EXCEPT !.todo = @ \ {p}] = [dir |-> c.dir, pass |-> c.pass, todo |-> c.todo \ {p}]
BY DEF Frame

LEMMA AfterIs ==
    ASSUME stack \in Seq(Frame), stack # <<>>, NEW p \in Path
    PROVE  /\ After(p) \in Seq(Frame) /\ After(p) # <<>> /\ DOMAIN After(p) = DOMAIN stack
           /\ After(p)[1].todo = stack[1].todo \ {p}
           /\ \A i \in DOMAIN stack : i # 1 => After(p)[i] = stack[i]
           /\ \A i \in DOMAIN stack : /\ After(p)[i].dir = stack[i].dir
                                      /\ After(p)[i].pass = stack[i].pass
<1> DEFINE c == [dir |-> stack[1].dir, pass |-> stack[1].pass, todo |-> stack[1].todo \ {p}]
           rest == Tail(stack)
           r == After(p)
<1>1. stack[1] \in Frame /\ Head(stack) = stack[1] /\ 1 \in DOMAIN stack
    BY FrameFacts
<1>2. c \in Frame
    BY <1>1, FrameFields, NewFrame
<1>3. \A i \in DOMAIN stack : i = 1 \/ (i - 1 \in DOMAIN rest /\ stack[i] = rest[i - 1])
    BY TailIs
<1>4. rest \in Seq(Frame) /\ r = Calling(c, rest)
    BY <1>1, TailIs, DropEntry DEF After, Calling
<1>5. Len(stack) \in Nat /\ DOMAIN stack = 1 .. Len(stack) /\ Len(rest) = Len(stack) - 1
    BY FrameFacts, HeadTailProperties
<1>6. c.dir = stack[1].dir /\ c.pass = stack[1].pass /\ c.todo = stack[1].todo \ {p}
    OBVIOUS
<1> HIDE DEF c, rest, r
<1>7. /\ r \in Seq(Frame) /\ r # <<>> /\ DOMAIN r = 1 .. Len(rest) + 1
      /\ r[1] = c
      /\ \A i \in DOMAIN r : i = 1 \/ (i - 1 \in DOMAIN rest /\ r[i] = rest[i - 1])
    <2>1. Stacked(r, c, rest)
        BY <1>2, <1>4, OnTop
    <2>2. QED
        BY <2>1 DEF Stacked
<1>8. DOMAIN r = DOMAIN stack
    BY <1>5, <1>7
<1>9. \A i \in DOMAIN stack : i # 1 => r[i] = stack[i]
    BY <1>3, <1>7, <1>8
<1>10. \A i \in DOMAIN stack : r[i].dir = stack[i].dir /\ r[i].pass = stack[i].pass
    BY <1>6, <1>7, <1>9
<1>11. QED
    BY <1>6, <1>7, <1>8, <1>9, <1>10 DEF r

\* An entry the innermost call has to come to.
LEMMA EntryOf ==
    ASSUME CallsInv, stack # <<>>, NEW p \in stack[1].todo
    PROVE  /\ stack \in Seq(Frame) /\ 1 \in DOMAIN stack /\ stack[1] \in Frame
           /\ Head(stack) = stack[1] /\ stack[1].dir \in Path
           /\ p \in Child(stack[1].dir) /\ p \in Path \ {<<>>} /\ Front(p) = stack[1].dir
           /\ src[Front(p)].kind = "dir" /\ dst[Front(p)].kind = "dir"
           /\ stack[1].pass # "prune" => src[p] # None
           /\ \A i \in DOMAIN stack : stack[i].dir \in Path \ Under(p)
<1>1. stack \in Seq(Frame) /\ 1 \in DOMAIN stack /\ stack[1] \in Frame /\ Head(stack) = stack[1]
    BY FrameFacts DEF CallsInv, Passes
<1>2. stack[1].dir \in Path
    BY <1>1, FrameFields
<1>3. p \in Entries(IF stack[1].pass = "prune" THEN dst ELSE src, stack[1].dir)
    BY <1>1 DEF CallsInv, Passes
<1>4. p \in Child(stack[1].dir) /\ (stack[1].pass # "prune" => src[p] # None)
    BY <1>3 DEF Entries
<1>5. p \in Path \ {<<>>} /\ Front(p) = stack[1].dir /\ ~ IsPrefix(p, stack[1].dir)
    BY <1>2, <1>4, Siblings
<1>6. src[Front(p)].kind = "dir" /\ dst[Front(p)].kind = "dir"
    BY <1>1, <1>5 DEF CallsInv, Opened
<1>7. ASSUME NEW i \in DOMAIN stack PROVE stack[i].dir \in Path \ Under(p)
    <2>1. stack[i].dir \in Path
        BY <1>1, FrameFacts, FrameFields
    <2>2. i = 1 \/ 1 < i
        BY <1>1, FrameFacts
    <2>3. IsPrefix(stack[i].dir, stack[1].dir)
        BY <1>1, <1>2, <2>2, PrefixOrder DEF CallsInv, Nested
    <2>4. ~ IsPrefix(p, stack[i].dir)
        BY <1>2, <1>5, <2>1, <2>3, PrefixOrder
    <2>5. QED
        BY <1>5, <2>1, <2>4, Unders
<1>8. QED
    BY <1>1, <1>2, <1>4, <1>5, <1>6, <1>7

LEMMA LeftIsChild ==
    ASSUME Passes(stack, dst), NEW i \in DOMAIN stack
    PROVE  /\ stack[i].dir \in Path
           /\ Left(stack[i]) \subseteq Child(stack[i].dir)
           /\ stack[i].todo \subseteq Child(stack[i].dir)
<1>1. stack[i] \in Frame /\ stack[i].dir \in Path
    BY FrameFacts, FrameFields DEF Passes
<1>2. stack[i].todo \subseteq Child(stack[i].dir)
    BY DEF Passes, Entries
<1>3. QED
    BY <1>1, <1>2 DEF Left

\* An entry is under no other.
LEMMA OnlyEntry ==
    ASSUME CallsInv, stack # <<>>, NEW p \in stack[1].todo, NEW x \in Path, IsPrefix(p, x),
           NEW i \in DOMAIN stack, NEW q \in Left(stack[i]), IsPrefix(q, x)
    PROVE  i = 1 /\ q = p
<1> DEFINE d == stack[1].dir
           e == stack[i].dir
<1>1. /\ d \in Path /\ p \in Child(d) /\ p \in Path /\ Front(p) = d /\ 1 \in DOMAIN stack
      /\ e \in Path /\ ~ IsPrefix(p, e)
    BY EntryOf, Unders
<1>2. q \in Child(e)
    BY LeftIsChild DEF CallsInv
<1>3. i = 1 \/ 1 < i
    BY EntryOf, FrameFacts
<1>4. CASE i = 1
    BY <1>1, <1>2, <1>4, Siblings
<1>5. CASE 1 < i
    <2>1. IsPrefix(e, d) /\ e # d /\ ~ IsPrefix(q, d)
        BY <1>1, <1>5 DEF CallsInv, Nested
    <2> HIDE DEF d, e
    <2>2. q \in Path /\ Front(q) = e /\ (IsPrefix(p, q) => p = q \/ IsPrefix(p, e))
        BY <1>1, <1>2, Siblings
    <2>3. IsPrefix(q, p) => q = p \/ IsPrefix(q, d)
        BY <1>1, <2>2, Siblings
    <2>4. QED
        BY <1>1, <2>1, <2>2, <2>3, PrefixOrder
<1>6. QED
    BY <1>3, <1>4, <1>5

LEMMA LeftAfter ==
    ASSUME CallsInv, stack # <<>>, NEW p \in stack[1].todo
    PROVE  /\ Left(After(p)[1]) = Left(stack[1]) \ {p}
           /\ \A i \in DOMAIN stack : i # 1 => Left(After(p)[i]) = Left(stack[i])
<1> DEFINE c == stack[1]
           a == After(p)[1]
<1>1. a.dir = c.dir /\ a.pass = c.pass /\ a.todo = c.todo \ {p}
    BY EntryOf, AfterIs
<1>2. \A i \in DOMAIN stack : i # 1 => After(p)[i] = stack[i]
    BY EntryOf, AfterIs
<1>3. c.pass # "prune" => src[p] # None
    BY EntryOf
<1> HIDE DEF c, a
<1>4. Left(a) = Left(c) \ {p}
    <2>1. CASE c.pass = "copy"
        BY <1>1, <1>3, <2>1 DEF Left
    <2>2. CASE c.pass = "prune"
        BY <1>1, <2>2 DEF Left
    <2>3. CASE c.pass \notin {"copy", "prune"}
        BY <1>1, <2>3 DEF Left
    <2>4. QED
        BY <2>1, <2>2, <2>3
<1>5. QED
    BY <1>2, <1>4 DEF a, c

LEMMA ComingAfter ==
    ASSUME CallsInv, stack # <<>>, NEW p \in stack[1].todo, NEW x \in Path
    PROVE  /\ p \in Left(stack[1]) => (Coming(After(p), x) <=> Coming(stack, x) /\ ~ IsPrefix(p, x))
           /\ p \in Left(stack[1]) /\ IsPrefix(p, x) => Coming(stack, x)
           /\ p \notin Left(stack[1]) => (Coming(After(p), x) <=> Coming(stack, x))
<1>1. DOMAIN After(p) = DOMAIN stack /\ 1 \in DOMAIN stack
    BY EntryOf, AfterIs
<1>2. /\ Left(After(p)[1]) = Left(stack[1]) \ {p}
      /\ \A i \in DOMAIN stack : i # 1 => Left(After(p)[i]) = Left(stack[i])
    BY LeftAfter
<1>3. Coming(After(p), x) <=>
          \E i \in DOMAIN stack : \E q \in Left(stack[i]) :
              IsPrefix(q, x) /\ ~ (i = 1 /\ q = p)
    BY <1>1, <1>2 DEF Coming
<1>4. IsPrefix(p, x) => \A i \in DOMAIN stack : \A q \in Left(stack[i]) :
                            IsPrefix(q, x) => i = 1 /\ q = p
    BY OnlyEntry
<1>5. p \in Left(stack[1]) /\ IsPrefix(p, x) => Coming(stack, x)
    BY <1>1 DEF Coming
<1>6. p \in Left(stack[1]) => (Coming(After(p), x) <=> Coming(stack, x) /\ ~ IsPrefix(p, x))
    BY <1>3, <1>4 DEF Coming
<1>7. p \notin Left(stack[1]) => (Coming(After(p), x) <=> Coming(stack, x))
    BY <1>3 DEF Coming
<1>8. QED
    BY <1>5, <1>6, <1>7

LEMMA UnsetAfter ==
    ASSUME CallsInv, stack # <<>>, NEW p \in stack[1].todo, NEW x, Unset(stack, x)
    PROVE  Unset(After(p), x) \/ IsPrefix(p, x)
<1>1. PICK i \in DOMAIN stack : stack[i].dir = x \/ \E q \in stack[i].todo : IsPrefix(q, x)
    BY DEF Unset
<1>2. /\ i \in DOMAIN After(p) /\ After(p)[i].dir = stack[i].dir
      /\ After(p)[1].todo = stack[1].todo \ {p}
      /\ i # 1 => After(p)[i] = stack[i]
    BY EntryOf, AfterIs
<1>3. CASE i = 1
    BY <1>1, <1>2, <1>3 DEF Unset
<1>4. CASE i # 1
    BY <1>1, <1>2, <1>4 DEF Unset
<1>5. QED
    BY <1>3, <1>4

LEMMA CallsAfter ==
    ASSUME CallsInv, Tree(dst), stack # <<>>, NEW p \in stack[1].todo,
           NEW t, Tree(t), \A x \in Path \ Under(p) : t[x].kind = dst[x].kind
    PROVE  Passes(After(p), t) /\ Nested(After(p)) /\ Opened(After(p), t)
<1> DEFINE r == After(p)
<1>1. /\ r \in Seq(Frame) /\ r # <<>> /\ DOMAIN r = DOMAIN stack
      /\ r[1].todo = stack[1].todo \ {p}
      /\ \A i \in DOMAIN stack : i # 1 => r[i] = stack[i]
      /\ \A i \in DOMAIN stack : r[i].dir = stack[i].dir /\ r[i].pass = stack[i].pass
    BY EntryOf, AfterIs
<1>2. 1 \in DOMAIN stack
    BY EntryOf
<1>3. \A i, j \in DOMAIN stack : i < j => j # 1
    BY EntryOf, FrameFacts
<1>4. \A i \in DOMAIN stack : i # 1 => Left(r[i]) = Left(stack[i])
    BY LeftAfter
<1> HIDE DEF r
<1>5. ASSUME NEW i \in DOMAIN stack
      PROVE  /\ r[i].todo \subseteq Entries(IF r[i].pass = "prune" THEN t ELSE src, r[i].dir)
             /\ r[i].pass = "prune" => i = 1
             /\ r[i].pass = "attrs" <=> r[1].pass = "attrs"
    <2>1. /\ stack[i].todo \subseteq
                 Entries(IF stack[i].pass = "prune" THEN dst ELSE src, stack[i].dir)
          /\ stack[i].pass = "prune" => i = 1
          /\ stack[i].pass = "attrs" <=> stack[1].pass = "attrs"
        BY DEF CallsInv, Passes
    <2>2. r[i].todo \subseteq stack[i].todo
        BY <1>1, <1>2
    <2>3. CASE stack[i].pass # "prune"
        BY <1>1, <1>2, <2>1, <2>2, <2>3
    <2>4. CASE stack[i].pass = "prune"
        <3>1. i = 1 /\ r[i].todo = stack[i].todo \ {p}
            BY <1>1, <2>1, <2>4
        <3>2. ASSUME NEW q \in r[i].todo PROVE q \in Child(stack[i].dir) /\ t[q] # None
            <4>1. q # p /\ q \in stack[1].todo /\ q \in Child(stack[i].dir) /\ dst[q] # None
                BY <2>1, <2>4, <3>1 DEF Entries
            <4>2. q \in Path /\ ~ IsPrefix(p, q)
                BY <3>1, <4>1, EntryOf, Siblings, PrefixOrder
            <4>3. t[q].kind = dst[q].kind /\ t[q] \in Item /\ dst[q] \in Item
                BY <4>2, EntryOf, Unders, TreeItem
            <4>4. QED
                BY <4>1, <4>3, ItemFacts
        <3>3. QED
            BY <1>1, <1>2, <2>1, <2>4, <3>2 DEF Entries
    <2>5. QED
        BY <2>3, <2>4
<1>6. Passes(r, t)
    BY <1>1, <1>5 DEF Passes
<1>7. Nested(r)
    BY <1>1, <1>3, <1>4 DEF CallsInv, Nested
<1>8. Opened(r, t)
    <2>1. \A i \in DOMAIN stack : stack[i].dir \in Path \ Under(p)
        BY EntryOf
    <2>2. QED
        BY <1>1, <2>1 DEF CallsInv, Opened
<1>9. QED
    BY <1>6, <1>7, <1>8 DEF r

\* The call for the directory p.
CallFor(p) == [dir |-> p, pass |-> stack[1].pass, todo |-> Entries(src, p)]

LEMMA Deeper ==
    ASSUME CallsInv, stack # <<>>, NEW p \in stack[1].todo
    PROVE  /\ CallFor(p) \in Frame
           /\ CallFor(p).dir = p /\ CallFor(p).pass = stack[1].pass
           /\ CallFor(p).todo = Entries(src, p)
           /\ Stacked(Calling(CallFor(p), After(p)), CallFor(p), After(p))
<1>1. stack[1].pass \in Pass /\ p \in Path /\ Entries(src, p) \in SUBSET Path
    BY EntryOf, FrameFields DEF Entries, Child
<1>2. CallFor(p) \in Frame
    BY <1>1, NewFrame DEF CallFor
<1>3. After(p) \in Seq(Frame)
    BY EntryOf, AfterIs
<1>4. QED
    BY <1>2, <1>3, OnTop DEF CallFor

LEMMA CallsDeeper ==
    ASSUME CallsInv, Tree(dst), stack # <<>>, NEW p \in stack[1].todo,
           stack[1].pass # "prune", src[p].kind = "dir",
           NEW t, Tree(t), \A x \in Path \ Under(p) : t[x].kind = dst[x].kind,
           t[p].kind = "dir", NEW r, r = Calling(CallFor(p), After(p))
    PROVE  Passes(r, t) /\ Nested(r) /\ Opened(r, t)
<1> DEFINE s == After(p)
           c == CallFor(p)
<1>1. c.dir = p /\ c.pass = stack[1].pass /\ c.todo = Entries(src, p)
    BY Deeper
<1>2. Stacked(r, c, s)
    BY Deeper
<1>3. /\ r \in Seq(Frame) /\ r[1] = c
      /\ \A i \in DOMAIN r : i = 1 \/ (i - 1 \in DOMAIN s /\ r[i] = s[i - 1])
    BY <1>2 DEF Stacked
<1>4. Passes(s, t) /\ Nested(s) /\ Opened(s, t)
    BY CallsAfter
<1>5. /\ s \in Seq(Frame) /\ s # <<>> /\ DOMAIN s = DOMAIN stack
      /\ \A k \in DOMAIN stack : s[k].dir = stack[k].dir /\ s[k].pass = stack[k].pass
    BY EntryOf, AfterIs
<1>6. p \in Path /\ 1 \in DOMAIN stack
    BY EntryOf
<1>7. ASSUME NEW k \in DOMAIN stack
      PROVE  /\ IsPrefix(stack[k].dir, p) /\ stack[k].dir # p
             /\ \A q \in Left(s[k]) : ~ IsPrefix(q, p)
    <2>1. k = 1 \/ 1 < k
        BY EntryOf, FrameFacts
    <2>2. IsPrefix(stack[k].dir, stack[1].dir)
        BY <1>6, <2>1, EntryOf, PrefixOrder DEF CallsInv, Nested
    <2>3. IsPrefix(stack[1].dir, p) /\ stack[k].dir \in Path \ Under(p)
        BY EntryOf, Siblings
    <2>4. IsPrefix(stack[k].dir, p) /\ stack[k].dir # p
        BY <1>6, <2>2, <2>3, EntryOf, PrefixOrder, Unders
    <2>5. ASSUME NEW q \in Left(s[k]), IsPrefix(q, p) PROVE FALSE
        <3>1. q \in Left(stack[k]) /\ (k = 1 => q # p)
            BY LeftAfter
        <3>2. QED
            BY <1>6, <2>5, <3>1, OnlyEntry, PrefixOrder
    <2>6. QED
        BY <2>4, <2>5
<1> HIDE DEF s, c
<1>8. ASSUME NEW k \in DOMAIN s PROVE s[k].pass # "prune" /\ (s[k].pass = "attrs" <=> c.pass = "attrs")
    <2>1. (s[k].pass = "prune" => k = 1) /\ (s[k].pass = "attrs" <=> s[1].pass = "attrs")
        BY <1>4 DEF Passes
    <2>2. s[1].pass = stack[1].pass
        BY <1>5, <1>6
    <2>3. QED
        BY <1>1, <2>1, <2>2
<1>9. ASSUME NEW i \in DOMAIN r
      PROVE  /\ r[i].todo \subseteq Entries(IF r[i].pass = "prune" THEN t ELSE src, r[i].dir)
             /\ r[i].pass = "prune" => i = 1
             /\ r[i].pass = "attrs" <=> r[1].pass = "attrs"
    <2>1. CASE i = 1
        BY <1>1, <1>3, <2>1
    <2>2. CASE i # 1
        <3>1. PICK k \in DOMAIN s : r[i] = s[k]
            BY <1>3, <2>2
        <3>2. s[k].todo \subseteq Entries(IF s[k].pass = "prune" THEN t ELSE src, s[k].dir)
            BY <1>4 DEF Passes
        <3>3. QED
            BY <1>3, <1>8, <3>1, <3>2
    <2>3. QED
        BY <2>1, <2>2
<1>10. Passes(r, t)
    BY <1>3, <1>9 DEF Passes
<1>11. ASSUME NEW i \in DOMAIN r, NEW j \in DOMAIN r, i < j
       PROVE  /\ IsPrefix(r[j].dir, r[i].dir) /\ r[j].dir # r[i].dir
              /\ \A q \in Left(r[j]) : ~ IsPrefix(q, r[i].dir)
    <2>1. i \in Nat /\ j \in Nat /\ i >= 1
        BY <1>3, FrameFacts
    <2>2. PICK k \in DOMAIN s : k = j - 1 /\ r[j] = s[k]
        BY <1>3, <1>11, <2>1
    <2>3. CASE i = 1
        BY <1>1, <1>3, <1>5, <1>7, <2>2, <2>3
    <2>4. CASE i # 1
        <3>1. PICK l \in DOMAIN s : l = i - 1 /\ r[i] = s[l]
            BY <1>3, <2>4
        <3>2. l < k
            BY <1>11, <2>1, <2>2, <3>1
        <3>3. QED
            BY <1>4, <2>2, <3>1, <3>2 DEF Nested
    <2>5. QED
        BY <2>3, <2>4
<1>12. Nested(r)
    BY <1>11 DEF Nested
<1>13. Opened(r, t)
    <2>1. ASSUME NEW i \in DOMAIN r
          PROVE  src[r[i].dir].kind = "dir" /\ t[r[i].dir].kind = "dir"
        <3>1. CASE i = 1
            BY <1>1, <1>3, <3>1
        <3>2. CASE i # 1
            <4>1. PICK k \in DOMAIN s : r[i] = s[k]
                BY <1>3, <3>2
            <4>2. QED
                BY <1>4, <4>1 DEF Opened
        <3>3. QED
            BY <3>1, <3>2
    <2>2. QED
        BY <2>1 DEF Opened
<1>14. QED
    BY <1>10, <1>12, <1>13

LEMMA ComingDeeper ==
    ASSUME CallsInv, stack # <<>>, NEW p \in stack[1].todo, stack[1].pass = "copy",
           NEW r, r = Calling(CallFor(p), After(p)), NEW x \in Path
    PROVE  Coming(r, x) <=> Coming(stack, x) /\ x # p
<1> DEFINE s == After(p)
           c == CallFor(p)
<1>1. c.dir = p /\ c.pass = "copy" /\ c.todo = Entries(src, p) /\ c \in Frame
    BY Deeper
<1>2. /\ r[1] = c /\ 1 \in DOMAIN r
      /\ \A i \in DOMAIN r : i = 1 \/ (i - 1 \in DOMAIN s /\ r[i] = s[i - 1])
    <2>1. Stacked(r, c, s)
        BY Deeper
    <2>2. r \in Seq(Frame) /\ r # <<>> /\ r[1] = c
          /\ \A i \in DOMAIN r : i = 1 \/ (i - 1 \in DOMAIN s /\ r[i] = s[i - 1])
        BY <2>1 DEF Stacked
    <2>3. QED
        BY <2>2, FrameFacts
<1>3. s \in Seq(Frame)
    BY EntryOf, AfterIs
<1>4. \A i \in DOMAIN s : i + 1 \in DOMAIN r /\ r[i + 1] = s[i]
    BY <1>1, <1>3, OneDeeper
<1>5. p \in Path /\ p \in Left(stack[1])
    BY EntryOf DEF Left
<1>6. Coming(s, x) <=> Coming(stack, x) /\ ~ IsPrefix(p, x)
    BY <1>5, ComingAfter
<1>7. IsPrefix(p, x) => Coming(stack, x)
    BY <1>5, ComingAfter
<1> HIDE DEF s, c
<1>8. Left(c) = Child(p)
    BY <1>1 DEF Left, Entries
<1>9. Coming(r, x) <=> Coming(s, x) \/ \E q \in Child(p) : IsPrefix(q, x)
    <2>1. ASSUME Coming(r, x) PROVE Coming(s, x) \/ \E q \in Child(p) : IsPrefix(q, x)
        <3>1. PICK i \in DOMAIN r : \E q \in Left(r[i]) : IsPrefix(q, x)
            BY <2>1 DEF Coming
        <3>2. CASE i = 1
            BY <1>2, <1>8, <3>1, <3>2
        <3>3. CASE i # 1
            <4>1. PICK k \in DOMAIN s : r[i] = s[k]
                BY <1>2, <3>3
            <4>2. QED
                BY <3>1, <4>1 DEF Coming
        <3>4. QED
            BY <3>2, <3>3
    <2>2. ASSUME Coming(s, x) PROVE Coming(r, x)
        <3>1. PICK k \in DOMAIN s : \E q \in Left(s[k]) : IsPrefix(q, x)
            BY <2>2 DEF Coming
        <3>2. PICK i \in DOMAIN r : r[i] = s[k]
            BY <1>4
        <3>3. QED
            BY <3>1, <3>2 DEF Coming
    <2>3. ASSUME \E q \in Child(p) : IsPrefix(q, x) PROVE Coming(r, x)
        BY <1>2, <1>8, <2>3 DEF Coming
    <2>4. QED
        BY <2>1, <2>2, <2>3
<1>10. (\E q \in Child(p) : IsPrefix(q, x)) <=> IsPrefix(p, x) /\ x # p
    <2>1. ASSUME NEW q \in Child(p), IsPrefix(q, x) PROVE IsPrefix(p, x) /\ x # p
        BY <1>5, <2>1, Siblings, PrefixOrder
    <2>2. QED
        BY <1>5, <2>1, Below
<1>11. QED
    BY <1>5, <1>6, <1>7, <1>9, <1>10, PrefixOrder

LEMMA UnsetDeeper ==
    ASSUME CallsInv, stack # <<>>, NEW p \in stack[1].todo,
           NEW r, r = Calling(CallFor(p), After(p)), NEW x \in Path, Unset(stack, x)
    PROVE  Unset(r, x) \/ \E q \in Child(p) : src[q] = None /\ IsPrefix(q, x)
<1> DEFINE s == After(p)
           c == CallFor(p)
<1>1. c.dir = p /\ c.todo = Entries(src, p) /\ c \in Frame
    BY Deeper
<1>2. r[1] = c /\ 1 \in DOMAIN r
    <2>1. Stacked(r, c, s)
        BY Deeper
    <2>2. r \in Seq(Frame) /\ r # <<>> /\ r[1] = c
        BY <2>1 DEF Stacked
    <2>3. QED
        BY <2>2, FrameFacts
<1>3. s \in Seq(Frame)
    BY EntryOf, AfterIs
<1>4. \A i \in DOMAIN s : i + 1 \in DOMAIN r /\ r[i + 1] = s[i]
    BY <1>1, <1>3, OneDeeper
<1>5. Unset(s, x) \/ IsPrefix(p, x)
    BY UnsetAfter
<1>6. p \in Path
    BY EntryOf
<1> HIDE DEF s, c
<1>7. CASE Unset(s, x)
    <2>1. PICK k \in DOMAIN s : s[k].dir = x \/ \E q \in s[k].todo : IsPrefix(q, x)
        BY <1>7 DEF Unset
    <2>2. PICK i \in DOMAIN r : r[i] = s[k]
        BY <1>4
    <2>3. QED
        BY <2>1, <2>2 DEF Unset
<1>8. CASE x = p
    BY <1>1, <1>2, <1>8 DEF Unset
<1>9. CASE IsPrefix(p, x) /\ x # p
    <2>1. PICK q \in Child(p) : IsPrefix(q, x)
        BY <1>6, <1>9, Below
    <2>2. CASE src[q] = None
        BY <2>1, <2>2
    <2>3. CASE src[q] # None
        <3>1. q \in c.todo
            BY <1>1, <2>3 DEF Entries
        <3>2. QED
            BY <1>2, <2>1, <3>1 DEF Unset
    <2>4. QED
        BY <2>2, <2>3
<1>10. QED
    BY <1>5, <1>7, <1>8, <1>9

\* The innermost call returns.
LEMMA CallsReturn ==
    ASSUME CallsInv, stack # <<>>,
           NEW t, \A i \in DOMAIN stack : t[stack[i].dir].kind = "dir"
    PROVE  Passes(Tail(stack), t) /\ Nested(Tail(stack)) /\ Opened(Tail(stack), t)
<1> DEFINE r == Tail(stack)
<1>1. stack \in Seq(Frame) /\ 1 \in DOMAIN stack
    BY FrameFacts DEF CallsInv, Passes
<1>2. r \in Seq(Frame) /\ \A i \in DOMAIN r : i + 1 \in DOMAIN stack /\ r[i] = stack[i + 1]
    BY <1>1, TailIs
<1> HIDE DEF r
<1>3. ASSUME NEW i \in DOMAIN r
      PROVE  \E k \in DOMAIN stack : k = i + 1 /\ k # 1 /\ r[i] = stack[k] /\ i \in Nat
    <2>1. i \in Nat /\ i >= 1
        BY <1>2, FrameFacts
    <2>2. PICK k \in DOMAIN stack : k = i + 1 /\ r[i] = stack[k]
        BY <1>2
    <2>3. QED
        BY <2>1, <2>2
<1>4. ASSUME NEW i \in DOMAIN r
      PROVE  /\ r[i].todo \subseteq Entries(IF r[i].pass = "prune" THEN t ELSE src, r[i].dir)
             /\ r[i].pass # "prune"
             /\ r[i].pass = "attrs" <=> stack[1].pass = "attrs"
    <2>1. PICK k \in DOMAIN stack : k # 1 /\ r[i] = stack[k]
        BY <1>3
    <2>2. /\ stack[k].todo \subseteq
                 Entries(IF stack[k].pass = "prune" THEN dst ELSE src, stack[k].dir)
          /\ stack[k].pass = "prune" => k = 1
          /\ stack[k].pass = "attrs" <=> stack[1].pass = "attrs"
        BY DEF CallsInv, Passes
    <2>3. QED
        BY <2>1, <2>2
<1>5. Passes(r, t)
    <2>1. ASSUME NEW i \in DOMAIN r PROVE r[i].pass = "attrs" <=> r[1].pass = "attrs"
        <3>1. 1 \in DOMAIN r
            BY <1>2, FrameFacts
        <3>2. QED
            BY <1>4, <3>1
    <2>2. QED
        BY <1>2, <1>4, <2>1 DEF Passes
<1>6. ASSUME NEW i \in DOMAIN r, NEW j \in DOMAIN r, i < j
      PROVE  /\ IsPrefix(r[j].dir, r[i].dir) /\ r[j].dir # r[i].dir
             /\ \A q \in Left(r[j]) : ~ IsPrefix(q, r[i].dir)
    <2>1. PICK k \in DOMAIN stack : k = i + 1 /\ r[i] = stack[k] /\ i \in Nat
        BY <1>3
    <2>2. PICK l \in DOMAIN stack : l = j + 1 /\ r[j] = stack[l] /\ j \in Nat
        BY <1>3
    <2>3. k < l
        BY <1>6, <2>1, <2>2
    <2>4. QED
        BY <2>1, <2>2, <2>3 DEF CallsInv, Nested
<1>7. Nested(r)
    BY <1>6 DEF Nested
<1>8. Opened(r, t)
    <2>1. ASSUME NEW i \in DOMAIN r
          PROVE  src[r[i].dir].kind = "dir" /\ t[r[i].dir].kind = "dir"
        <3>1. PICK k \in DOMAIN stack : r[i] = stack[k]
            BY <1>3
        <3>2. QED
            BY <3>1 DEF CallsInv, Opened
    <2>2. QED
        BY <2>1 DEF Opened
<1>9. QED
    BY <1>5, <1>7, <1>8 DEF r

LEMMA ComingReturn ==
    ASSUME CallsInv, stack # <<>>, NEW x
    PROVE  /\ Coming(Tail(stack), x) => Coming(stack, x)
           /\ Coming(stack, x) => \/ Coming(Tail(stack), x)
                                  \/ \E q \in Left(stack[1]) : IsPrefix(q, x)
           /\ Unset(stack, x) => \/ Unset(Tail(stack), x) \/ x = stack[1].dir
                                 \/ \E q \in stack[1].todo : IsPrefix(q, x)
<1> DEFINE r == Tail(stack)
<1>1. stack \in Seq(Frame)
    BY DEF CallsInv, Passes
<1>2. /\ \A i \in DOMAIN r : i + 1 \in DOMAIN stack /\ r[i] = stack[i + 1]
      /\ \A i \in DOMAIN stack : i = 1 \/ (i - 1 \in DOMAIN r /\ stack[i] = r[i - 1])
    BY <1>1, TailIs
<1> HIDE DEF r
<1>3. ASSUME NEW i \in DOMAIN r PROVE \E k \in DOMAIN stack : r[i] = stack[k]
    BY <1>2
<1>4. ASSUME NEW i \in DOMAIN stack, i # 1 PROVE \E k \in DOMAIN r : stack[i] = r[k]
    BY <1>2, <1>4
<1>5. Coming(r, x) => Coming(stack, x)
    BY <1>3 DEF Coming
<1>6. ASSUME Coming(stack, x)
      PROVE  Coming(r, x) \/ \E q \in Left(stack[1]) : IsPrefix(q, x)
    <2>1. PICK i \in DOMAIN stack : \E q \in Left(stack[i]) : IsPrefix(q, x)
        BY <1>6 DEF Coming
    <2>2. CASE i = 1
        BY <2>1, <2>2
    <2>3. CASE i # 1
        BY <1>4, <2>1, <2>3 DEF Coming
    <2>4. QED
        BY <2>2, <2>3
<1>7. ASSUME Unset(stack, x)
      PROVE  \/ Unset(r, x) \/ x = stack[1].dir
             \/ \E q \in stack[1].todo : IsPrefix(q, x)
    <2>1. PICK i \in DOMAIN stack : stack[i].dir = x \/ \E q \in stack[i].todo : IsPrefix(q, x)
        BY <1>7 DEF Unset
    <2>2. CASE i = 1
        BY <2>1, <2>2
    <2>3. CASE i # 1
        BY <1>4, <2>1, <2>3 DEF Unset
    <2>4. QED
        BY <2>2, <2>3
<1>8. QED
    BY <1>5, <1>6, <1>7 DEF r

\* The innermost call goes on to the entries of the destination.
Rewound == [dir |-> stack[1].dir, pass |-> "prune", todo |-> Entries(dst, stack[1].dir)]

LEMMA RewoundIs ==
    ASSUME CallsInv, stack # <<>>, NEW r, r = Calling(Rewound, Tail(stack))
    PROVE  /\ Rewound.dir = stack[1].dir /\ Rewound.pass = "prune"
           /\ Rewound.todo = Entries(dst, stack[1].dir)
           /\ r \in Seq(Frame) /\ r # <<>> /\ DOMAIN r = DOMAIN stack /\ r[1] = Rewound
           /\ \A i \in DOMAIN stack : i # 1 => r[i] = stack[i]
           /\ \A i \in DOMAIN stack : r[i].dir = stack[i].dir
<1> DEFINE s == Tail(stack)
<1>1. stack \in Seq(Frame) /\ 1 \in DOMAIN stack /\ stack[1] \in Frame
    BY FrameFacts DEF CallsInv, Passes
<1>2. Rewound \in Frame
    <2>1. stack[1].dir \in Path /\ "prune" \in Pass /\ Entries(dst, stack[1].dir) \in SUBSET Path
        BY <1>1, FrameFields DEF Pass, Entries, Child
    <2>2. QED
        BY <2>1, NewFrame DEF Rewound
<1>3. /\ Rewound.dir = stack[1].dir /\ Rewound.pass = "prune"
      /\ Rewound.todo = Entries(dst, stack[1].dir)
    BY DEF Rewound
<1>4. s \in Seq(Frame)
    BY <1>1, TailIs
<1>5. \A i \in DOMAIN stack : i = 1 \/ (i - 1 \in DOMAIN s /\ stack[i] = s[i - 1])
    BY <1>1, TailIs
<1>6. Len(stack) \in Nat /\ DOMAIN stack = 1 .. Len(stack) /\ Len(s) = Len(stack) - 1
    BY <1>1, FrameFacts, HeadTailProperties
<1> HIDE DEF s
<1>7. Stacked(r, Rewound, s)
    BY <1>2, <1>4, OnTop DEF s
<1>8. /\ r \in Seq(Frame) /\ r # <<>> /\ DOMAIN r = 1 .. Len(s) + 1
      /\ r[1] = Rewound
      /\ \A i \in DOMAIN r : i = 1 \/ (i - 1 \in DOMAIN s /\ r[i] = s[i - 1])
    BY <1>7 DEF Stacked
<1>9. DOMAIN r = DOMAIN stack
    BY <1>6, <1>8
<1>10. \A i \in DOMAIN stack : i # 1 => r[i] = stack[i]
    BY <1>5, <1>8, <1>9
<1>11. \A i \in DOMAIN stack : r[i].dir = stack[i].dir
    BY <1>3, <1>8, <1>10
<1>12. QED
    BY <1>3, <1>8, <1>9, <1>10, <1>11

LEMMA CallsRewound ==
    ASSUME CallsInv, stack # <<>>, stack[1].pass = "copy", NEW r, r = Calling(Rewound, Tail(stack))
    PROVE  Passes(r, dst) /\ Nested(r) /\ Opened(r, dst)
<1>1. /\ r \in Seq(Frame) /\ DOMAIN r = DOMAIN stack /\ r[1] = Rewound
      /\ \A i \in DOMAIN stack : i # 1 => r[i] = stack[i]
      /\ \A i \in DOMAIN stack : r[i].dir = stack[i].dir
      /\ Rewound.dir = stack[1].dir /\ Rewound.pass = "prune"
      /\ Rewound.todo = Entries(dst, stack[1].dir)
    BY RewoundIs
<1>2. \A i, j \in DOMAIN stack : i < j => j # 1
    BY FrameFacts DEF CallsInv, Passes
<1>3. ASSUME NEW i \in DOMAIN stack
      PROVE  /\ r[i].todo \subseteq Entries(IF r[i].pass = "prune" THEN dst ELSE src, r[i].dir)
             /\ r[i].pass = "prune" => i = 1
             /\ r[i].pass = "attrs" <=> r[1].pass = "attrs"
    <2>1. /\ stack[i].todo \subseteq
                 Entries(IF stack[i].pass = "prune" THEN dst ELSE src, stack[i].dir)
          /\ stack[i].pass = "prune" => i = 1
          /\ stack[i].pass = "attrs" <=> stack[1].pass = "attrs"
        BY DEF CallsInv, Passes
    <2>2. CASE i = 1
        BY <1>1, <2>2
    <2>3. CASE i # 1
        BY <1>1, <2>1, <2>3
    <2>4. QED
        BY <2>2, <2>3
<1>4. Passes(r, dst)
    BY <1>1, <1>3 DEF Passes
<1>5. Nested(r)
    BY <1>1, <1>2 DEF CallsInv, Nested
<1>6. Opened(r, dst)
    BY <1>1 DEF CallsInv, Opened
<1>7. QED
    BY <1>4, <1>5, <1>6

\* What neither has is done with.
LEMMA ComingRewound ==
    ASSUME CallsInv, stack # <<>>, stack[1].pass = "copy", stack[1].todo = {},
           NEW r, r = Calling(Rewound, Tail(stack)), NEW x \in Path
    PROVE  /\ Coming(r, x) => Coming(stack, x)
           /\ Coming(stack, x) => \/ Coming(r, x)
                                  \/ \E q \in Path : /\ src[q] = None /\ dst[q] = None
                                                     /\ IsPrefix(q, x)
<1>1. /\ DOMAIN r = DOMAIN stack /\ r[1] = Rewound /\ 1 \in DOMAIN stack
      /\ \A i \in DOMAIN stack : i # 1 => r[i] = stack[i]
      /\ Rewound.dir = stack[1].dir /\ Rewound.pass = "prune"
      /\ Rewound.todo = Entries(dst, stack[1].dir)
    BY RewoundIs, FrameFacts DEF CallsInv, Passes
<1>2. Left(Rewound) = {q \in Entries(dst, stack[1].dir) : src[q] = None}
    BY <1>1 DEF Left
<1>3. Left(stack[1]) = {q \in Child(stack[1].dir) : src[q] = None}
    BY DEF Left
<1>4. ASSUME Coming(r, x) PROVE Coming(stack, x)
    <2>1. PICK i \in DOMAIN stack : \E q \in Left(r[i]) : IsPrefix(q, x)
        BY <1>1, <1>4 DEF Coming
    <2>2. Left(r[i]) \subseteq Left(stack[i])
        BY <1>1, <1>2, <1>3 DEF Entries
    <2>3. QED
        BY <2>1, <2>2 DEF Coming
<1>5. ASSUME Coming(stack, x)
      PROVE  \/ Coming(r, x)
             \/ \E q \in Path : src[q] = None /\ dst[q] = None /\ IsPrefix(q, x)
    <2>1. PICK i \in DOMAIN stack : \E q \in Left(stack[i]) : IsPrefix(q, x)
        BY <1>5 DEF Coming
    <2>2. PICK q \in Left(stack[i]) : IsPrefix(q, x)
        BY <2>1
    <2>3. CASE i = 1
        <3>1. q \in Child(stack[1].dir) /\ src[q] = None /\ q \in Path
            BY <1>3, <2>2, <2>3 DEF Child
        <3>2. CASE dst[q] = None
            BY <2>2, <3>1, <3>2
        <3>3. CASE dst[q] # None
            <4>1. q \in Left(r[1])
                BY <1>1, <1>2, <3>1, <3>3 DEF Entries
            <4>2. QED
                BY <1>1, <2>2, <4>1 DEF Coming
        <3>4. QED
            BY <3>2, <3>3
    <2>4. CASE i # 1
        BY <1>1, <2>1, <2>4 DEF Coming
    <2>5. QED
        BY <2>3, <2>4
<1>6. QED
    BY <1>4, <1>5

\* A pass begins.
LEMMA CallsStart ==
    ASSUME Tree(src), NEW t, Tree(t), NEW pass \in {"copy", "attrs"},
           NEW r, r = Call(<<>>, pass, Entries(src, <<>>))
    PROVE  /\ r # <<>> /\ Passes(r, t) /\ Nested(r) /\ Opened(r, t)
           /\ r[1].pass = pass
           /\ pass = "copy" => \A x \in Path : Coming(r, x) => x # <<>>
           /\ pass = "copy" => \A x \in Path : x # <<>> => Coming(r, x)
           /\ pass = "attrs" => \A x \in Path :
                 Unset(r, x) \/ \E q \in Child(<<>>) : src[q] = None /\ IsPrefix(q, x)
<1> DEFINE c == [dir |-> <<>>, pass |-> pass, todo |-> Entries(src, <<>>)]
<1>1. c \in Frame /\ r = <<c>>
    <2>1. pass \in Pass /\ Entries(src, <<>>) \in SUBSET Path
        BY DEF Pass, Entries, Child
    <2>2. QED
        BY <2>1, RootPath, NewFrame
<1>2. c.dir = <<>> /\ c.pass = pass /\ c.todo = Entries(src, <<>>)
    OBVIOUS
<1> HIDE DEF c
<1>3. r \in Seq(Frame) /\ r # <<>> /\ DOMAIN r = {1} /\ r[1] = c
    <2>1. r \in Seq(Frame) /\ Len(r) = 1 /\ r[1] = c
        BY <1>1, OneCall
    <2>2. DOMAIN r = 1 .. 1 /\ 1 .. 1 = {1}
        BY <2>1
    <2>3. QED
        BY <2>1, <2>2, EmptySeq
<1>4. Passes(r, t)
    BY <1>2, <1>3 DEF Passes
<1>5. Nested(r)
    BY <1>3 DEF Nested
<1>6. Opened(r, t)
    BY <1>2, <1>3, TreeItem, RootPath DEF Opened
<1>7. ASSUME pass = "copy" PROVE Left(c) = Child(<<>>)
    BY <1>2, <1>7 DEF Left, Entries
<1>8. ASSUME NEW x \in Path PROVE (\E q \in Child(<<>>) : IsPrefix(q, x)) <=> x # <<>>
    <2>1. ASSUME NEW q \in Child(<<>>), IsPrefix(q, x) PROVE x # <<>>
        BY <2>1, RootPath, Siblings
    <2>2. x # <<>> => \E q \in Child(<<>>) : IsPrefix(q, x)
        BY RootPath, Below, PrefixOrder
    <2>3. QED
        BY <2>1, <2>2
<1>9. pass = "copy" => \A x \in Path : Coming(r, x) <=> x # <<>>
    BY <1>3, <1>7, <1>8 DEF Coming
<1>10. ASSUME NEW x \in Path
       PROVE  Unset(r, x) \/ \E q \in Child(<<>>) : src[q] = None /\ IsPrefix(q, x)
    <2>1. CASE x = <<>>
        BY <1>2, <1>3, <2>1 DEF Unset
    <2>2. CASE x # <<>>
        <3>1. PICK q \in Child(<<>>) : IsPrefix(q, x)
            BY <1>8, <2>2
        <3>2. CASE src[q] # None
            BY <1>2, <1>3, <3>1, <3>2 DEF Unset, Entries
        <3>3. CASE src[q] = None
            BY <3>1, <3>3
        <3>4. QED
            BY <3>2, <3>3
    <2>3. QED
        BY <2>1, <2>2
<1>11. QED
    BY <1>2, <1>3, <1>4, <1>5, <1>6, <1>9, <1>10

-----------------------------------------------------------------------------
(* The steps of the first pass.                                            *)

LEMMA BothTrees == TypeOK => Tree(src) /\ Tree(dst) /\ Tree(before)
BY TreeAssumption DEF TypeOK

LEMMA InWork ==
    ASSUME Inv, NEW pass, NEW p, Working(pass, p)
    PROVE  stack # <<>> /\ stack[1].pass = pass /\ p \in stack[1].todo
BY FrameFacts DEF Inv, CallsInv, Passes, Working

LEMMA AtEnd ==
    ASSUME Inv, NEW pass, Listed(pass)
    PROVE  stack # <<>> /\ stack[1].pass = pass /\ stack[1].todo = {} /\ 1 \in DOMAIN stack
BY FrameFacts DEF Inv, CallsInv, Passes, Listed

LEMMA NextCalls ==
    ASSUME src' = src
    PROVE  /\ Passes(stack', dst') /\ Nested(stack') /\ Opened(stack', dst') => CallsInv'
           /\ \A x : Coming(stack, x)' <=> Coming(stack', x)
           /\ \A x : Unset(stack, x)' <=> Unset(stack', x)
<1>1. \A c : Left(c)' = Left(c)
    BY DEF Left
<1>2. Passes(stack', dst') => Passes(stack, dst)'
    BY DEF Passes
<1>3. Nested(stack') => Nested(stack)'
    BY DEF Nested, Left
<1>4. Opened(stack', dst') => Opened(stack, dst)'
    BY DEF Opened
<1>5. \A x : Coming(stack, x)' <=> Coming(stack', x)
    BY DEF Coming, Left
<1>6. \A x : Unset(stack, x)' <=> Unset(stack', x)
    BY DEF Unset
<1>7. QED
    BY <1>2, <1>3, <1>4, <1>5, <1>6 DEF CallsInv

LEMMA NextTypes ==
    ASSUME TypeOK, src' = src, Tree(dst'), Tree(before'), Passes(stack', dst'),
           failed' \subseteq Path, run' \in Run
    PROVE  TypeOK'
<1>1. stack' \in Seq(Frame)
    BY DEF Passes
<1>2. ASSUME NEW i \in DOMAIN stack'
      PROVE  stack'[i].dir \in Path /\ stack'[i].todo \subseteq Child(stack'[i].dir)
    <2>1. stack'[i] \in Frame
        BY <1>1, FrameFacts
    <2>2. stack'[i].todo \subseteq Child(stack'[i].dir)
        BY DEF Passes, Entries
    <2>3. QED
        BY <2>1, <2>2, FrameFields
<1>3. Tree(dst)' /\ Tree(before)'
    BY DEF Tree
<1>4. QED
    BY <1>2, <1>3 DEF TypeOK

LEMMA LessClean ==
    ASSUME failed \subseteq failed', NEW x
    PROVE  Clean(x)' => Clean(x)
BY DEF Clean

LEMMA SameOutcome ==
    ASSUME src' = src, before' = before, NEW x, AsInSource(x),
           dst'[x].kind = dst[x].kind, dst'[x].data = dst[x].data
    PROVE  AsInSource(x)'
BY DEF AsInSource, LooksSame

\* The innermost call has done with p, or a call on it has failed.
LEMMA DoneWith ==
    ASSUME Inv, src' = src, before' = before, run' = run,
           stack # <<>>, NEW p \in stack[1].todo, p \in Left(stack[1]), stack' = After(p),
           failed \subseteq failed', failed' \subseteq Path,
           Tree(dst'), Alike(dst, dst', Path \ Under(p)),
           p \in failed' \/ \A x \in Under(p) : AsInSource(x)'
    PROVE  Inv'
<1>1. TypeOK /\ CallsInv /\ Tree(dst) /\ Tree(before)
    BY BothTrees DEF Inv
<1>2. p \in Path /\ stack[1].pass # "attrs" /\ 1 \in DOMAIN stack
    BY <1>1, EntryOf DEF Left
<1>3. \A x \in Path \ Under(p) : dst'[x].kind = dst[x].kind /\ dst'[x].data = dst[x].data
    BY DEF Alike
<1>4. Passes(stack', dst') /\ Nested(stack') /\ Opened(stack', dst')
    BY <1>1, <1>3, CallsAfter
<1>5. CallsInv' /\ TypeOK'
    <2>1. run' \in Run
        BY <1>1 DEF TypeOK
    <2>2. QED
        BY <1>1, <1>4, <2>1, NextCalls, NextTypes
<1>6. ASSUME NEW x \in Path
      PROVE  Coming(stack, x)' <=> Coming(stack, x) /\ x \notin Under(p)
    BY <1>1, <1>2, ComingAfter, NextCalls, Unders
<1>7. ASSUME NEW x \in Under(p), p \in failed' PROVE ~ Clean(x)'
    BY <1>2, <1>7, Unders DEF Clean
<1>8. Copied'
    <2>1. ASSUME NEW x \in Path, Clean(x)', ~ Coming(stack, x)' PROVE AsInSource(x)'
        <3>1. CASE x \in Under(p)
            BY <1>7, <2>1, <3>1
        <3>2. CASE x \notin Under(p)
            <4>1. Clean(x) /\ ~ Coming(stack, x)
                BY <1>6, <2>1, <3>2, LessClean
            <4>2. AsInSource(x)
                BY <4>1 DEF Inv, Copied
            <4>3. QED
                BY <1>3, <3>2, <4>2, SameOutcome
        <3>3. QED
            BY <3>1, <3>2
    <2>2. QED
        BY <2>1 DEF Copied
<1>9. Untouched'
    <2>1. ASSUME NEW x \in Path, Coming(stack, x)', dst'[x].kind = "file"
          PROVE  dst'[x] = before'[x]
        <3>1. Coming(stack, x) /\ x \in Path \ Under(p)
            BY <1>6, <2>1
        <3>2. dst[x].kind = "file" /\ dst'[x] = dst[x]
            BY <2>1, <3>1 DEF Alike
        <3>3. QED
            BY <3>1, <3>2 DEF Inv, Untouched
    <2>2. QED
        BY <2>1 DEF Untouched
<1>10. Equalled'
    <2>1. stack' # <<>> /\ stack'[1].pass = stack[1].pass
        BY <1>1, <1>2, EntryOf, AfterIs
    <2>2. InFirstPass'
        BY <1>2, <2>1 DEF InFirstPass
    <2>3. QED
        BY <2>2 DEF Equalled
<1>11. QED
    BY <1>5, <1>8, <1>9, <1>10 DEF Inv

LEMMA ToBeCopied ==
    ASSUME Inv, NEW p, Working("copy", p)
    PROVE  /\ stack # <<>> /\ stack[1].pass = "copy" /\ p \in stack[1].todo
           /\ p \in Left(stack[1]) /\ p \in Path \ {<<>>} /\ CallsInv
           /\ Tree(src) /\ Tree(dst) /\ dst[Front(p)].kind = "dir"
           /\ \A x \in Path : Coming(stack, x) \/ x \notin Under(p)
<1>1. stack # <<>> /\ stack[1].pass = "copy" /\ p \in stack[1].todo /\ CallsInv
    BY InWork DEF Inv
<1>2. p \in Left(stack[1]) /\ p \in Path \ {<<>>} /\ dst[Front(p)].kind = "dir"
    BY <1>1, EntryOf DEF Left
<1>3. \A x \in Path : Coming(stack, x) \/ x \notin Under(p)
    BY <1>1, <1>2, ComingAfter, Unders
<1>4. QED
    BY <1>1, <1>2, <1>3, BothTrees DEF Inv

LEMMA FailsIs ==
    ASSUME Inv, NEW p \in Path, Fails(p)
    PROVE  failed \subseteq failed' /\ failed' \subseteq Path /\ p \in failed' /\ run = "first"
BY DEF Inv, TypeOK, Fails

LEMMA StepCopyDir ==
    ASSUME Inv, NEW p \in Path, CopyDir(p)
    PROVE  Inv'
<1>1. /\ stack # <<>> /\ stack[1].pass = "copy" /\ p \in stack[1].todo
      /\ p \in Path \ {<<>>} /\ CallsInv /\ Head(stack) = stack[1]
      /\ Tree(src) /\ Tree(dst) /\ dst[Front(p)].kind = "dir"
    BY ToBeCopied, EntryOf DEF CopyDir
<1>2. /\ src[p].kind = "dir" /\ dst' = WithDir(p)
      /\ stack' = Calling(CallFor(p), After(p))
      /\ failed' = failed /\ src' = src /\ before' = before /\ run' = run
    BY <1>1 DEF CopyDir, Call, CallFor, Calling, Works
<1>3. Tree(dst') /\ Alike(dst, dst', Path \ {p}) /\ dst'[p].kind = "dir"
    BY <1>1, <1>2, WithDirEffect
<1>4. \A x \in Path \ Under(p) : dst'[x].kind = dst[x].kind
    BY <1>3, Unders DEF Alike
<1>5. Passes(stack', dst') /\ Nested(stack') /\ Opened(stack', dst')
    BY <1>1, <1>2, <1>3, <1>4, CallsDeeper
<1>6. CallsInv' /\ TypeOK'
    <2>1. TypeOK /\ Tree(before') /\ failed' \subseteq Path /\ run' \in Run
        BY <1>2, BothTrees DEF Inv, TypeOK
    <2>2. QED
        BY <1>2, <1>3, <1>5, <2>1, NextCalls, NextTypes
<1>7. ASSUME NEW x \in Path PROVE Coming(stack, x)' <=> Coming(stack, x) /\ x # p
    BY <1>1, <1>2, ComingDeeper, NextCalls
<1>8. Copied'
    <2>1. ASSUME NEW x \in Path, Clean(x)', ~ Coming(stack, x)' PROVE AsInSource(x)'
        <3>1. CASE x = p
            <4>1. src[p].data = Cut /\ dst'[p].data = Cut
                BY <1>1, <1>2, <1>3, TreeItem, ItemFacts
            <4>2. QED
                BY <1>2, <1>3, <3>1, <4>1 DEF AsInSource
        <3>2. CASE x # p
            <4>1. Clean(x) /\ ~ Coming(stack, x)
                BY <1>2, <1>7, <2>1, <3>2, LessClean
            <4>2. AsInSource(x)
                BY <4>1 DEF Inv, Copied
            <4>3. dst'[x].kind = dst[x].kind /\ dst'[x].data = dst[x].data
                BY <1>3, <3>2 DEF Alike
            <4>4. QED
                BY <1>2, <4>2, <4>3, SameOutcome
        <3>3. QED
            BY <3>1, <3>2
    <2>2. QED
        BY <2>1 DEF Copied
<1>9. Untouched'
    <2>1. ASSUME NEW x \in Path, Coming(stack, x)', dst'[x].kind = "file"
          PROVE  dst'[x] = before'[x]
        <3>1. Coming(stack, x) /\ x # p
            BY <1>7, <2>1
        <3>2. dst[x].kind = "file" /\ dst'[x] = dst[x]
            BY <1>3, <2>1, <3>1 DEF Alike
        <3>3. QED
            BY <1>2, <3>1, <3>2 DEF Inv, Untouched
    <2>2. QED
        BY <2>1 DEF Untouched
<1>10. Equalled'
    <2>1. Stacked(stack', CallFor(p), After(p)) /\ CallFor(p).pass = "copy"
        BY <1>1, <1>2, Deeper
    <2>2. stack' # <<>> /\ stack'[1].pass = "copy"
        BY <2>1 DEF Stacked
    <2>3. QED
        BY <2>2 DEF Equalled, InFirstPass
<1>11. QED
    BY <1>6, <1>8, <1>9, <1>10 DEF Inv

LEMMA DirFailure ==
    ASSUME Inv, NEW p \in Path, CopyDirFails(p)
    PROVE  Tree(dst') /\ Alike(dst, dst', Path \ {p})
<1>1. /\ p \in Path \ {<<>>} /\ src[p].kind = "dir"
      /\ Tree(src) /\ Tree(dst) /\ dst[Front(p)].kind = "dir"
    BY ToBeCopied DEF CopyDirFails
<1>2. CASE dst' = dst
    BY <1>1, <1>2 DEF Alike
<1>3. CASE dst[p].kind # "dir" /\ dst' = Without(dst, {p})
    BY <1>1, <1>3, RemoveFile
<1>4. CASE dst' = WithDir(p)
    BY <1>1, <1>4, WithDirEffect
<1>5. QED
    BY <1>2, <1>3, <1>4 DEF CopyDirFails

LEMMA StepCopyDirFails ==
    ASSUME Inv, NEW p \in Path, CopyDirFails(p)
    PROVE  Inv'
<1>1. stack # <<>> /\ p \in stack[1].todo /\ p \in Left(stack[1])
    BY ToBeCopied DEF CopyDirFails
<1>2. stack' = After(p) /\ src' = src /\ before' = before /\ run' = run
    BY DEF CopyDirFails, Done
<1>3. failed \subseteq failed' /\ failed' \subseteq Path /\ p \in failed'
    BY FailsIs DEF CopyDirFails
<1>4. Tree(dst') /\ Alike(dst, dst', Path \ {p})
    BY DirFailure
<1>5. Alike(dst, dst', Path \ Under(p))
    BY <1>4, Unders DEF Alike
<1>6. QED
    BY <1>1, <1>2, <1>3, <1>4, <1>5, DoneWith

LEMMA StepCopyFile ==
    ASSUME Inv, NEW p \in Path, CopyFile(p)
    PROVE  Inv'
<1>1. /\ stack # <<>> /\ stack[1].pass = "copy" /\ p \in stack[1].todo
      /\ p \in Left(stack[1]) /\ p \in Path \ {<<>>}
      /\ Tree(src) /\ Tree(dst) /\ dst[Front(p)].kind = "dir"
      /\ \A x \in Path : Coming(stack, x) \/ x \notin Under(p)
    BY ToBeCopied DEF CopyFile
<1>2. /\ src[p].kind = "file" /\ failed' = failed /\ failed \subseteq Path
      /\ stack' = After(p) /\ src' = src /\ before' = before /\ run' = run
    BY DEF CopyFile, Done, Works, Inv, TypeOK
<1>3. /\ Tree(dst') /\ Alike(dst, dst', Path \ Under(p)) /\ dst'[p].kind = "file"
      /\ dst'[p].data # src[p].data =>
            LooksSame(src[p], before[p]) /\ dst'[p].data = before[p].data
    <2>1. CASE LooksSame(src[p], dst[p])
        <3>1. dst' = dst
            BY <2>1 DEF CopyFile
        <3>2. dst[p].kind = "file" /\ Coming(stack, p)
            BY <1>1, <2>1, Unders DEF LooksSame
        <3>3. dst[p] = before[p]
            BY <1>1, <3>2 DEF Inv, Untouched
        <3>4. QED
            BY <1>1, <2>1, <3>1, <3>2, <3>3 DEF Alike
    <2>2. CASE ~ LooksSame(src[p], dst[p])
        <3>1. dst' = Write(Cleared(p), p, src[p].data) /\ src[p].data \in DOMAIN Size
            BY <1>1, <2>2, TreeItem, ItemFacts DEF CopyFile
        <3>2. QED
            BY <1>1, <1>2, <3>1, CopyEffect
    <2>3. QED
        BY <2>1, <2>2
<1>4. ASSUME NEW x \in Under(p) PROVE AsInSource(x)'
    <2>1. CASE x = p
        BY <1>2, <1>3, <2>1 DEF AsInSource, LooksSame
    <2>2. CASE x # p
        <3>1. src[x] = None /\ dst'[x] = None
            BY <1>1, <1>2, <1>3, <2>2, OnlyInDirs, Unders
        <3>2. QED
            BY <1>2, <3>1 DEF AsInSource
    <2>3. QED
        BY <2>1, <2>2
<1>5. QED
    BY <1>1, <1>2, <1>3, <1>4, DoneWith

LEMMA FileFailure ==
    ASSUME Inv, NEW p \in Path, CopyFileFails(p)
    PROVE  Tree(dst') /\ Alike(dst, dst', Path \ Under(p))
<1>1. /\ p \in Path \ {<<>>} /\ src[p].kind = "file"
      /\ Tree(src) /\ Tree(dst) /\ dst[Front(p)].kind = "dir"
    BY ToBeCopied DEF CopyFileFails
<1>2. Cut \in DOMAIN Size
    BY CutAssumption
<1>3. CASE dst' \in PartlyRemoved(dst, p)
    BY <1>1, <1>3, RemoveSome
<1>4. CASE dst' = Cleared(p)
    BY <1>1, <1>4, ClearedEffect
<1>5. CASE dst' = Write(Cleared(p), p, Cut)
    BY <1>1, <1>2, <1>5, CopyEffect
<1>6. CASE dst[p] = None /\ dst' = Without(Write(dst, p, Cut), {p})
    <2> DEFINE t == Write(dst, p, Cut)
    <2>1. dst[p].kind # "dir"
        BY <1>6, NoItem
    <2>2. Tree(t) /\ Alike(dst, t, Path \ {p}) /\ t[p].kind = "file"
        BY <1>1, <1>2, <2>1, WriteEffect
    <2> HIDE DEF t
    <2>3. Tree(Without(t, {p})) /\ Alike(t, Without(t, {p}), Path \ {p})
        BY <1>1, <2>2, RemoveFile
    <2>4. Alike(dst, Without(t, {p}), Path \ {p})
        BY <2>2, <2>3, AlikeTwice
    <2>5. Path \ Under(p) \in SUBSET (Path \ {p})
        BY Unders
    <2>6. Alike(dst, Without(t, {p}), Path \ Under(p))
        BY <2>4, <2>5, AlikeLess
    <2>7. QED
        BY <1>6, <2>3, <2>6 DEF t
<1>7. QED
    BY <1>3, <1>4, <1>5, <1>6 DEF CopyFileFails

LEMMA StepCopyFileFails ==
    ASSUME Inv, NEW p \in Path, CopyFileFails(p)
    PROVE  Inv'
<1>1. stack # <<>> /\ p \in stack[1].todo /\ p \in Left(stack[1])
    BY ToBeCopied DEF CopyFileFails
<1>2. stack' = After(p) /\ src' = src /\ before' = before /\ run' = run
    BY DEF CopyFileFails, Done
<1>3. failed \subseteq failed' /\ failed' \subseteq Path /\ p \in failed'
    BY FailsIs DEF CopyFileFails
<1>4. Tree(dst') /\ Alike(dst, dst', Path \ Under(p))
    BY FileFailure
<1>5. QED
    BY <1>1, <1>2, <1>3, <1>4, DoneWith

LEMMA ToBePruned ==
    ASSUME Inv, NEW p, Working("prune", p)
    PROVE  /\ stack # <<>> /\ stack[1].pass = "prune" /\ p \in stack[1].todo /\ CallsInv
           /\ p \in Path \ {<<>>} /\ Tree(src) /\ Tree(dst)
           /\ p \in Left(stack[1]) <=> src[p] = None
<1>1. stack # <<>> /\ stack[1].pass = "prune" /\ p \in stack[1].todo /\ CallsInv
    BY InWork DEF Inv
<1>2. p \in Path \ {<<>>}
    BY <1>1, EntryOf
<1>3. p \in Left(stack[1]) <=> src[p] = None
    BY <1>1 DEF Left
<1>4. QED
    BY <1>1, <1>2, <1>3, BothTrees DEF Inv

LEMMA StepPrune ==
    ASSUME Inv, NEW p \in Path, Prune(p)
    PROVE  Inv'
<1>1. /\ stack # <<>> /\ stack[1].pass = "prune" /\ p \in stack[1].todo /\ CallsInv
      /\ p \in Path \ {<<>>} /\ Tree(src) /\ Tree(dst)
      /\ p \in Left(stack[1]) <=> src[p] = None
    BY ToBePruned DEF Prune
<1>2. /\ failed' = failed /\ failed \subseteq Path
      /\ stack' = After(p) /\ src' = src /\ before' = before /\ run' = run
    BY DEF Prune, Done, Works, Inv, TypeOK
<1>3. CASE src[p] = None
    <2>1. dst' = Without(dst, Under(p))
        BY <1>3 DEF Prune
    <2>2. /\ Tree(dst') /\ Alike(dst, dst', Path \ Under(p))
          /\ \A x \in Under(p) : dst'[x] = None
        BY <1>1, <2>1, RemoveTree
    <2>3. ASSUME NEW x \in Under(p) PROVE AsInSource(x)'
        <3>1. src[x] = None /\ dst'[x] = None
            BY <1>1, <1>3, <2>2, NothingBelow
        <3>2. QED
            BY <1>2, <3>1 DEF AsInSource
    <2>4. QED
        BY <1>1, <1>2, <1>3, <2>2, <2>3, DoneWith
<1>4. CASE src[p] # None
    <2>1. dst' = dst
        BY <1>4 DEF Prune
    <2>2. Passes(stack', dst') /\ Nested(stack') /\ Opened(stack', dst')
        BY <1>1, <1>2, <2>1, CallsAfter
    <2>3. CallsInv' /\ TypeOK'
        <3>1. TypeOK /\ Tree(before') /\ failed' \subseteq Path /\ run' \in Run
            BY <1>2, BothTrees DEF Inv, TypeOK
        <3>2. QED
            BY <1>1, <1>2, <2>1, <2>2, <3>1, NextCalls, NextTypes
    <2>4. \A x \in Path : Coming(stack, x)' <=> Coming(stack, x)
        BY <1>1, <1>2, <1>4, ComingAfter, NextCalls
    <2>5. Copied'
        <3>1. ASSUME NEW x \in Path, Clean(x)', ~ Coming(stack, x)' PROVE AsInSource(x)'
            <4>1. AsInSource(x)
                BY <1>2, <2>4, <3>1, LessClean DEF Inv, Copied
            <4>2. QED
                BY <1>2, <2>1, <4>1, SameOutcome
        <3>2. QED
            BY <3>1 DEF Copied
    <2>6. Untouched'
        BY <1>2, <2>1, <2>4 DEF Inv, Untouched
    <2>7. Equalled'
        <3>1. stack' # <<>> /\ stack'[1].pass = "prune"
            BY <1>1, <1>2, EntryOf, AfterIs
        <3>2. QED
            BY <3>1 DEF Equalled, InFirstPass
    <2>8. QED
        BY <2>3, <2>5, <2>6, <2>7 DEF Inv
<1>5. QED
    BY <1>3, <1>4

LEMMA StepPruneFails ==
    ASSUME Inv, NEW p \in Path, PruneFails(p)
    PROVE  Inv'
<1>1. /\ stack # <<>> /\ p \in stack[1].todo /\ p \in Left(stack[1])
      /\ p \in Path \ {<<>>} /\ Tree(dst)
    BY ToBePruned DEF PruneFails
<1>2. stack' = After(p) /\ src' = src /\ before' = before /\ run' = run
    BY DEF PruneFails, Done
<1>3. failed \subseteq failed' /\ failed' \subseteq Path /\ p \in failed'
    BY FailsIs DEF PruneFails
<1>4. Tree(dst') /\ Alike(dst, dst', Path \ Under(p))
    BY <1>1, RemoveSome DEF PruneFails
<1>5. QED
    BY <1>1, <1>2, <1>3, <1>4, DoneWith

LEMMA StepRewind ==
    ASSUME Inv, Rewind
    PROVE  Inv'
<1>1. stack # <<>> /\ stack[1].pass = "copy" /\ stack[1].todo = {} /\ 1 \in DOMAIN stack
    BY AtEnd DEF Rewind
<1>2. TypeOK /\ CallsInv /\ Tree(src) /\ Tree(dst) /\ Tree(before)
    BY BothTrees DEF Inv
<1>3. Head(stack) = stack[1]
    BY <1>1, <1>2, FrameFacts DEF CallsInv, Passes
<1>4. /\ stack' = Calling(Rewound, Tail(stack))
      /\ failed' = failed /\ dst' = dst /\ src' = src /\ before' = before /\ run' = run
    BY <1>3 DEF Rewind, Call, Calling, Rewound, Works
<1>5. Passes(stack', dst') /\ Nested(stack') /\ Opened(stack', dst')
    BY <1>1, <1>2, <1>4, CallsRewound
<1>6. CallsInv' /\ TypeOK'
    <2>1. Tree(before') /\ failed' \subseteq Path /\ run' \in Run
        BY <1>2, <1>4 DEF TypeOK
    <2>2. QED
        BY <1>2, <1>4, <1>5, <2>1, NextCalls, NextTypes
<1>7. ASSUME NEW x \in Path
      PROVE  /\ Coming(stack, x)' => Coming(stack, x)
             /\ Coming(stack, x) => \/ Coming(stack, x)'
                                    \/ \E q \in Path : /\ src[q] = None /\ dst[q] = None
                                                       /\ IsPrefix(q, x)
    <2>1. Coming(stack, x)' <=> Coming(stack', x)
        BY <1>4, NextCalls
    <2>2. QED
        BY <1>1, <1>2, <1>4, <2>1, ComingRewound
<1>8. Copied'
    <2>1. ASSUME NEW x \in Path, Clean(x)', ~ Coming(stack, x)' PROVE AsInSource(x)'
        <3>1. CASE Coming(stack, x)
            <4>1. PICK q \in Path : src[q] = None /\ dst[q] = None /\ IsPrefix(q, x)
                BY <1>7, <2>1, <3>1
            <4>2. src[x] = None /\ dst[x] = None
                BY <1>2, <4>1, NothingBelow, Unders
            <4>3. QED
                BY <1>4, <4>2 DEF AsInSource
        <3>2. CASE ~ Coming(stack, x)
            <4>1. AsInSource(x)
                BY <1>4, <2>1, <3>2, LessClean DEF Inv, Copied
            <4>2. QED
                BY <1>4, <4>1, SameOutcome
        <3>3. QED
            BY <3>1, <3>2
    <2>2. QED
        BY <2>1 DEF Copied
<1>9. Untouched'
    BY <1>4, <1>7 DEF Inv, Untouched
<1>10. Equalled'
    <2>1. stack' # <<>> /\ stack'[1] = Rewound /\ Rewound.pass = "prune"
        BY <1>1, <1>2, <1>4, RewoundIs
    <2>2. QED
        BY <2>1 DEF Equalled, InFirstPass
<1>11. QED
    BY <1>6, <1>8, <1>9, <1>10 DEF Inv

LEMMA NothingComing ==
    ASSUME NEW s, NEW t, Passes(s, t), s = <<>> \/ s[1].pass = "attrs", NEW x
    PROVE  ~ Coming(s, x)
<1>1. \A i \in DOMAIN s : s[i].pass = "attrs"
    BY FrameFacts DEF Passes
<1>2. QED
    BY <1>1 DEF Coming, Left

LEMMA StepSyncDirsReturns ==
    ASSUME Inv, SyncDirsReturns
    PROVE  Inv'
<1>1. stack # <<>> /\ stack[1].pass = "prune" /\ stack[1].todo = {} /\ 1 \in DOMAIN stack
    BY AtEnd DEF SyncDirsReturns
<1>2. TypeOK /\ CallsInv /\ Tree(src) /\ Tree(dst) /\ Tree(before) /\ stack \in Seq(Frame)
    BY BothTrees DEF Inv, CallsInv, Passes
<1>3. failed' = failed /\ dst' = dst /\ src' = src /\ before' = before /\ run' = run
    BY DEF SyncDirsReturns, Works
<1>4. Left(stack[1]) = {}
    BY <1>1 DEF Left
<1>5. \A x : Coming(Tail(stack), x) <=> Coming(stack, x)
    BY <1>1, <1>2, <1>4, ComingReturn
<1>6. ASSUME Passes(stack', dst'), Nested(stack'), Opened(stack', dst') PROVE CallsInv' /\ TypeOK'
    <2>1. Tree(before') /\ failed' \subseteq Path /\ run' \in Run
        BY <1>2, <1>3 DEF TypeOK
    <2>2. QED
        BY <1>2, <1>3, <1>6, <2>1, NextCalls, NextTypes
<1>7. ASSUME \A x \in Path : Coming(stack', x) <=> Coming(stack, x)
      PROVE  Copied' /\ Untouched'
    <2>1. \A x \in Path : Coming(stack, x)' <=> Coming(stack, x)
        BY <1>3, <1>7, NextCalls
    <2>2. ASSUME NEW x \in Path, Clean(x)', ~ Coming(stack, x)' PROVE AsInSource(x)'
        <3>1. AsInSource(x)
            BY <1>3, <2>1, <2>2, LessClean DEF Inv, Copied
        <3>2. QED
            BY <1>3, <3>1, SameOutcome
    <2>3. Copied'
        BY <2>2 DEF Copied
    <2>4. Untouched'
        BY <1>3, <2>1 DEF Inv, Untouched
    <2>5. QED
        BY <2>3, <2>4
<1>8. CASE Len(stack) # 1
    <2>1. stack' = Tail(stack) /\ stack' # <<>>
        BY <1>1, <1>2, <1>8, TailIs DEF SyncDirsReturns
    <2>2. \A i \in DOMAIN stack : dst[stack[i].dir].kind = "dir"
        BY <1>2 DEF CallsInv, Opened
    <2>3. Passes(stack', dst') /\ Nested(stack') /\ Opened(stack', dst')
        BY <1>1, <1>2, <1>3, <2>1, <2>2, CallsReturn
    <2>4. Equalled'
        <3>1. 1 \in DOMAIN stack'
            BY <2>1, <2>3, FrameFacts DEF Passes
        <3>2. PICK k \in DOMAIN stack : stack'[1] = stack[k]
            BY <1>1, <1>2, <2>1, <3>1, TailIs
        <3>3. stack'[1].pass # "attrs"
            BY <1>1, <1>2, <3>2 DEF CallsInv, Passes
        <3>4. QED
            BY <2>1, <3>3 DEF Equalled, InFirstPass
    <2>5. QED
        BY <1>5, <1>6, <1>7, <2>1, <2>3, <2>4 DEF Inv
<1>9. CASE Len(stack) = 1
    <2>1. stack' = Call(<<>>, "attrs", Entries(src, <<>>)) /\ Tail(stack) = <<>>
        BY <1>1, <1>2, <1>9, TailIs DEF SyncDirsReturns
    <2>2. /\ stack' # <<>> /\ Passes(stack', dst') /\ Nested(stack') /\ Opened(stack', dst')
          /\ stack'[1].pass = "attrs"
          /\ \A x \in Path :
                 Unset(stack', x) \/ \E q \in Child(<<>>) : src[q] = None /\ IsPrefix(q, x)
        BY <1>2, <1>3, <2>1, CallsStart
    <2>3. \A x \in Path : ~ Coming(stack, x) /\ ~ Coming(stack', x)
        <3>1. \A x : ~ Coming(Tail(stack), x)
            BY <2>1, EmptySeq, FrameFacts DEF Coming
        <3>2. QED
            BY <1>5, <2>2, <3>1, NothingComing
    <2>4. Equalled'
        <3>1. ASSUME NEW x \in Path, Clean(x)', ~ Unset(stack, x)' PROVE SameItem(src[x], dst[x])
            <4>1. ~ Unset(stack', x)
                BY <1>3, <3>1, NextCalls
            <4>2. PICK q \in Child(<<>>) : src[q] = None /\ IsPrefix(q, x)
                BY <2>2, <4>1
            <4>3. src[x] = None
                BY <1>2, <4>2, NothingBelow, Unders DEF Child
            <4>4. AsInSource(x)
                BY <1>3, <2>3, <3>1, LessClean DEF Inv, Copied
            <4>5. dst[x] = None
                BY <1>2, <4>3, <4>4, TreeItem, ItemFacts, NoItem DEF AsInSource
            <4>6. QED
                BY <4>3, <4>5 DEF SameItem
        <3>2. QED
            BY <1>3, <3>1 DEF Equalled
    <2>5. QED
        BY <1>6, <1>7, <2>2, <2>3, <2>4 DEF Inv
<1>10. QED
    BY <1>8, <1>9

-----------------------------------------------------------------------------
(* The steps of the second pass.                                           *)

LEMMA SecondPass ==
    ASSUME Inv, src' = src, before' = before, run' = run,
           stack # <<>>, stack[1].pass = "attrs",
           Passes(stack', dst'), Nested(stack'), Opened(stack', dst'),
           stack' = <<>> \/ stack'[1].pass = "attrs",
           failed \subseteq failed', failed' \subseteq Path,
           Tree(dst'),
           \A x \in Path : dst'[x].kind = dst[x].kind /\ dst'[x].data = dst[x].data,
           \A x \in Path : Clean(x)' /\ ~ Unset(stack', x) => SameItem(src[x], dst'[x])
    PROVE  Inv'
<1>1. TypeOK /\ CallsInv /\ Tree(before)
    BY BothTrees DEF Inv
<1>2. CallsInv' /\ TypeOK'
    <2>1. run' \in Run
        BY <1>1 DEF TypeOK
    <2>2. QED
        BY <1>1, <2>1, NextCalls, NextTypes
<1>3. \A x : ~ Coming(stack, x) /\ ~ Coming(stack, x)'
    <2>1. \A x : ~ Coming(stack, x) /\ ~ Coming(stack', x)
        BY <1>1, NothingComing DEF CallsInv
    <2>2. QED
        BY <2>1, NextCalls
<1>4. Copied'
    <2>1. ASSUME NEW x \in Path, Clean(x)' PROVE AsInSource(x)'
        <3>1. AsInSource(x)
            BY <1>3, <2>1, LessClean DEF Inv, Copied
        <3>2. QED
            BY <3>1, SameOutcome
    <2>2. QED
        BY <2>1 DEF Copied
<1>5. Untouched'
    BY <1>3 DEF Untouched
<1>6. Equalled'
    <2>1. ASSUME NEW x \in Path, Clean(x)', ~ Unset(stack, x)' PROVE SameItem(src[x], dst'[x])
        <3>1. ~ Unset(stack', x)
            BY <2>1, NextCalls
        <3>2. QED
            BY <2>1, <3>1
    <2>2. QED
        BY <2>1 DEF Equalled
<1>7. QED
    BY <1>2, <1>4, <1>5, <1>6 DEF Inv

LEMMA ToBeSet ==
    ASSUME Inv, NEW p, Working("attrs", p)
    PROVE  /\ stack # <<>> /\ stack[1].pass = "attrs" /\ p \in stack[1].todo /\ CallsInv
           /\ p \in Path /\ Tree(src) /\ Tree(dst) /\ src[p] # None
           /\ stack[1] = Head(stack) /\ failed \subseteq Path
           /\ \A x \in Path : /\ Clean(x) /\ ~ Unset(stack, x) => SameItem(src[x], dst[x])
                              /\ Clean(x) => AsInSource(x)
           /\ Unset(stack, p)
<1>1. stack # <<>> /\ stack[1].pass = "attrs" /\ p \in stack[1].todo /\ CallsInv
    BY InWork DEF Inv
<1>2. p \in Path /\ src[p] # None /\ stack[1] = Head(stack) /\ 1 \in DOMAIN stack
    BY <1>1, EntryOf
<1>3. ~ InFirstPass
    BY <1>1 DEF InFirstPass
<1>4. \A x : ~ Coming(stack, x)
    BY <1>1, NothingComing DEF CallsInv
<1>5. \A x \in Path : Clean(x) /\ ~ Unset(stack, x) => SameItem(src[x], dst[x])
    BY <1>3 DEF Inv, Equalled
<1>6. \A x \in Path : Clean(x) => AsInSource(x)
    BY <1>4 DEF Inv, Copied
<1>7. Unset(stack, p)
    BY <1>1, <1>2, PrefixOrder DEF Unset
<1>8. QED
    BY <1>1, <1>2, <1>5, <1>6, <1>7, BothTrees DEF Inv, TypeOK

LEMMA CleanAbove ==
    ASSUME NEW p \in Path, NEW x \in Path, IsPrefix(p, x), Clean(x), failed \subseteq Path
    PROVE  Clean(p)
BY PrefixOrder DEF Clean

LEMMA StepAttrsDir ==
    ASSUME Inv, NEW p \in Path, AttrsDir(p)
    PROVE  Inv'
<1>1. /\ stack # <<>> /\ stack[1].pass = "attrs" /\ p \in stack[1].todo /\ CallsInv
      /\ Tree(src) /\ Tree(dst) /\ stack[1] = Head(stack) /\ failed \subseteq Path
      /\ \A x \in Path : /\ Clean(x) /\ ~ Unset(stack, x) => SameItem(src[x], dst[x])
                         /\ Clean(x) => AsInSource(x)
    BY ToBeSet DEF AttrsDir
<1>2. /\ src[p].kind = "dir" /\ dst[p].kind = "dir" /\ dst' = dst
      /\ stack' = Calling(CallFor(p), After(p))
      /\ failed' = failed /\ src' = src /\ before' = before /\ run' = run
    BY <1>1 DEF AttrsDir, Call, CallFor, Calling, Works
<1>3. Passes(stack', dst') /\ Nested(stack') /\ Opened(stack', dst')
    BY <1>1, <1>2, CallsDeeper
<1>4. stack'[1].pass = "attrs"
    <2>1. Stacked(stack', CallFor(p), After(p)) /\ CallFor(p).pass = "attrs"
        BY <1>1, <1>2, Deeper
    <2>2. QED
        BY <2>1 DEF Stacked
<1>5. ASSUME NEW x \in Path, Clean(x)', ~ Unset(stack', x) PROVE SameItem(src[x], dst'[x])
    <2>1. Clean(x)
        BY <1>2, <1>5, LessClean
    <2>2. CASE ~ Unset(stack, x)
        BY <1>1, <1>2, <2>1, <2>2
    <2>3. CASE Unset(stack, x)
        <3>1. PICK q \in Child(p) : src[q] = None /\ IsPrefix(q, x)
            BY <1>1, <1>2, <1>5, <2>3, UnsetDeeper
        <3>2. src[x] = None
            BY <1>1, <3>1, NothingBelow, Unders DEF Child
        <3>3. dst[x] = None
            BY <1>1, <2>1, <3>2, TreeItem, ItemFacts, NoItem DEF AsInSource
        <3>4. QED
            BY <1>2, <3>2, <3>3 DEF SameItem
    <2>4. QED
        BY <2>2, <2>3
<1>6. QED
    BY <1>1, <1>2, <1>3, <1>4, <1>5, SecondPass

\* The innermost call has done with p, without opening it.
LEMMA AttrsDone ==
    ASSUME Inv, NEW p \in Path, Working("attrs", p), Done(p),
           failed \subseteq failed', failed' \subseteq Path, Tree(dst'),
           \A x \in Path : dst'[x].kind = dst[x].kind /\ dst'[x].data = dst[x].data,
           \A x \in Path \ {p} : dst'[x] = dst[x],
           p \in failed' \/ \A x \in Under(p) : Clean(x)' => SameItem(src[x], dst'[x])
    PROVE  Inv'
<1>1. /\ stack # <<>> /\ stack[1].pass = "attrs" /\ p \in stack[1].todo /\ CallsInv
      /\ Tree(src) /\ Tree(dst)
      /\ \A x \in Path : Clean(x) /\ ~ Unset(stack, x) => SameItem(src[x], dst[x])
    BY ToBeSet
<1>2. stack' = After(p) /\ src' = src /\ before' = before /\ run' = run
    BY DEF Done
<1>3. Passes(stack', dst') /\ Nested(stack') /\ Opened(stack', dst')
    BY <1>1, <1>2, CallsAfter
<1>4. stack'[1].pass = "attrs"
    BY <1>1, <1>2, EntryOf, AfterIs
<1>5. ASSUME NEW x \in Path, Clean(x)', ~ Unset(stack', x) PROVE SameItem(src[x], dst'[x])
    <2>1. CASE IsPrefix(p, x)
        <3>1. x \in Under(p) /\ p \notin failed'
            BY <1>5, <2>1, Unders DEF Clean
        <3>2. QED
            BY <1>5, <3>1
    <2>2. CASE ~ IsPrefix(p, x)
        <3>1. ~ Unset(stack, x) /\ Clean(x) /\ x # p
            BY <1>1, <1>2, <1>5, <2>2, UnsetAfter, LessClean, PrefixOrder
        <3>2. QED
            BY <1>1, <3>1
    <2>3. QED
        BY <2>1, <2>2
<1>6. QED
    BY <1>1, <1>2, <1>3, <1>4, <1>5, SecondPass

LEMMA StepAttrsFile ==
    ASSUME Inv, NEW p \in Path, AttrsFile(p)
    PROVE  Inv'
<1>1. /\ Tree(src) /\ Tree(dst) /\ src[p] # None /\ failed \subseteq Path
      /\ \A x \in Path : Clean(x) => AsInSource(x)
    BY ToBeSet DEF AttrsFile
<1>2. Working("attrs", p) /\ Done(p) /\ failed' = failed
    BY DEF AttrsFile, Works
<1>3. /\ Tree(dst')
      /\ \A x \in Path : dst'[x].kind = dst[x].kind /\ dst'[x].data = dst[x].data
      /\ \A x \in Path \ {p} : dst'[x] = dst[x]
      /\ src[p].kind = "file" /\ dst[p].kind = "file" =>
             dst'[p].mtime = src[p].mtime /\ dst'[p].mode = src[p].mode
    <2>1. CASE src[p].kind = "dir" \/ dst[p] = None
        <3>1. dst' = dst
            BY <2>1 DEF AttrsFile
        <3>2. QED
            BY <1>1, <2>1, <3>1, NoItem
    <2>2. CASE ~ (src[p].kind = "dir" \/ dst[p] = None)
        <3>1. dst' = SetAttrs(dst, p)
            BY <2>2 DEF AttrsFile
        <3>2. QED
            BY <1>1, <2>2, <3>1, SetAttrsEffect
    <2>3. QED
        BY <2>1, <2>2
<1>4. ASSUME NEW x \in Under(p), Clean(x)' PROVE SameItem(src[x], dst'[x])
    <2>1. x \in Path /\ IsPrefix(p, x) /\ Clean(x)
        BY <1>2, <1>4, Unders, LessClean
    <2>2. AsInSource(p) /\ AsInSource(x)
        BY <1>1, <2>1, CleanAbove
    <2>3. src[p].kind = "file" /\ dst[p].kind = "file"
        <3>1. src[p].kind \in {"file", "dir"}
            BY <1>1, TreeItem, ItemFacts
        <3>2. QED
            BY <2>2, <3>1 DEF AttrsFile, AsInSource
    <2>4. CASE x = p
        BY <1>3, <2>3, <2>4 DEF SameItem
    <2>5. CASE x # p
        <3>1. src[x] = None /\ dst[x] = None
            BY <1>1, <2>1, <2>3, <2>5, OnlyInDirs
        <3>2. QED
            BY <1>3, <2>1, <2>5, <3>1 DEF SameItem
    <2>6. QED
        BY <2>4, <2>5
<1>5. QED
    BY <1>1, <1>2, <1>3, <1>4, AttrsDone

LEMMA StepAttrsFail ==
    ASSUME Inv, NEW p \in Path, AttrsFail(p)
    PROVE  Inv'
<1>1. Tree(src) /\ Tree(dst)
    BY ToBeSet DEF AttrsFail
<1>2. Working("attrs", p) /\ Done(p)
    BY DEF AttrsFail
<1>3. failed \subseteq failed' /\ failed' \subseteq Path /\ p \in failed'
    BY FailsIs DEF AttrsFail
<1>4. /\ Tree(dst')
      /\ \A x \in Path : dst'[x].kind = dst[x].kind /\ dst'[x].data = dst[x].data
      /\ \A x \in Path \ {p} : dst'[x] = dst[x]
    <2>1. CASE dst' = dst
        BY <1>1, <2>1
    <2>2. CASE dst[p] # None /\ dst' = SetTime(dst, p)
        BY <1>1, <2>2, SetTimeEffect
    <2>3. QED
        BY <2>1, <2>2 DEF AttrsFail
<1>5. QED
    BY <1>2, <1>3, <1>4, AttrsDone

\* The innermost call has set its directory's times and mode, or failed to.
LEMMA AttrsLeft ==
    ASSUME Inv, Listed("attrs"), stack' = Tail(stack),
           src' = src, before' = before, run' = run,
           failed \subseteq failed', failed' \subseteq Path, Tree(dst'),
           \A x \in Path : dst'[x].kind = dst[x].kind /\ dst'[x].data = dst[x].data,
           \A x \in Path \ {Head(stack).dir} : dst'[x] = dst[x],
           \/ Head(stack).dir \in failed'
           \/ SameItem(src[Head(stack).dir], dst'[Head(stack).dir])
    PROVE  Inv'
<1>1. stack # <<>> /\ stack[1].pass = "attrs" /\ stack[1].todo = {} /\ 1 \in DOMAIN stack
    BY AtEnd
<1>2. CallsInv /\ stack \in Seq(Frame) /\ stack[1] = Head(stack) /\ stack[1].dir \in Path
    BY <1>1, FrameFacts, FrameFields DEF Inv, CallsInv, Passes
<1>3. \A i \in DOMAIN stack : dst'[stack[i].dir].kind = "dir"
    <2>1. \A i \in DOMAIN stack : stack[i].dir \in Path
        BY <1>2, LeftIsChild DEF CallsInv
    <2>2. QED
        BY <1>2, <2>1 DEF CallsInv, Opened
<1>4. Passes(stack', dst') /\ Nested(stack') /\ Opened(stack', dst')
    BY <1>1, <1>2, <1>3, CallsReturn
<1>5. stack' = <<>> \/ stack'[1].pass = "attrs"
    <2>1. CASE stack' # <<>>
        <3>1. 1 \in DOMAIN stack'
            BY <1>4, <2>1, FrameFacts DEF Passes
        <3>2. PICK k \in DOMAIN stack : stack'[1] = stack[k]
            BY <1>1, <1>2, <3>1, TailIs
        <3>3. QED
            BY <1>1, <1>2, <3>2 DEF CallsInv, Passes
    <2>2. QED
        BY <2>1
<1>6. ASSUME NEW x \in Path, Clean(x)', ~ Unset(stack', x) PROVE SameItem(src[x], dst'[x])
    <2>1. CASE x = stack[1].dir
        BY <1>2, <1>6, <2>1, PrefixOrder DEF Clean
    <2>2. CASE x # stack[1].dir
        <3>1. ~ Unset(stack, x) /\ Clean(x)
            BY <1>1, <1>2, <1>6, <2>2, ComingReturn, LessClean
        <3>2. SameItem(src[x], dst[x])
            BY <1>1, <3>1 DEF Inv, Equalled, InFirstPass
        <3>3. QED
            BY <1>2, <2>2, <3>2
    <2>3. QED
        BY <2>1, <2>2
<1>7. QED
    BY <1>1, <1>4, <1>5, <1>6, SecondPass

LEMMA OpenDir ==
    ASSUME Inv, Listed("attrs")
    PROVE  /\ Head(stack).dir \in Path /\ Tree(src) /\ Tree(dst)
           /\ src[Head(stack).dir].kind = "dir" /\ dst[Head(stack).dir].kind = "dir"
           /\ src[Head(stack).dir] # None /\ dst[Head(stack).dir] # None
<1>1. stack # <<>> /\ 1 \in DOMAIN stack
    BY AtEnd
<1>2. stack \in Seq(Frame) /\ Head(stack) = stack[1] /\ stack[1].dir \in Path
    BY <1>1, FrameFacts, FrameFields DEF Inv, CallsInv, Passes
<1>3. src[stack[1].dir].kind = "dir" /\ dst[stack[1].dir].kind = "dir"
    BY <1>1 DEF Inv, CallsInv, Opened
<1>4. QED
    BY <1>2, <1>3, BothTrees, NoItem DEF Inv

LEMMA StepAttrsReturns ==
    ASSUME Inv, AttrsReturns
    PROVE  Inv'
<1> DEFINE d == Head(stack).dir
<1>1. /\ d \in Path /\ Tree(src) /\ Tree(dst) /\ src[d].kind = "dir" /\ dst[d].kind = "dir"
      /\ src[d] # None /\ dst[d] # None
    BY OpenDir DEF AttrsReturns
<1>2. /\ dst' = SetAttrs(dst, d) /\ stack' = Tail(stack) /\ Listed("attrs")
      /\ failed' = failed /\ src' = src /\ before' = before /\ run' = run
    BY DEF AttrsReturns, Works
<1> HIDE DEF d
<1>3. /\ Tree(dst')
      /\ \A x \in Path : dst'[x].kind = dst[x].kind /\ dst'[x].data = dst[x].data
      /\ \A x \in Path \ {d} : dst'[x] = dst[x]
      /\ dst'[d].mtime = src[d].mtime /\ dst'[d].mode = src[d].mode
    BY <1>1, <1>2, SetAttrsEffect
<1>4. SameItem(src[d], dst'[d])
    BY <1>1, <1>3 DEF SameItem
<1>5. failed \subseteq failed' /\ failed' \subseteq Path
    BY <1>2 DEF Inv, TypeOK
<1>6. QED
    BY <1>2, <1>3, <1>4, <1>5, AttrsLeft DEF d

LEMMA StepAttrsReturnsFails ==
    ASSUME Inv, AttrsReturnsFails
    PROVE  Inv'
<1> DEFINE d == Head(stack).dir
<1>1. d \in Path /\ Tree(src) /\ Tree(dst) /\ dst[d] # None
    BY OpenDir DEF AttrsReturnsFails
<1>2. /\ dst' \in {dst, SetTime(dst, d)} /\ stack' = Tail(stack) /\ Listed("attrs")
      /\ src' = src /\ before' = before /\ run' = run
    BY DEF AttrsReturnsFails
<1>3. failed \subseteq failed' /\ failed' \subseteq Path /\ d \in failed'
    BY <1>1, FailsIs DEF AttrsReturnsFails
<1> HIDE DEF d
<1>4. /\ Tree(dst')
      /\ \A x \in Path : dst'[x].kind = dst[x].kind /\ dst'[x].data = dst[x].data
      /\ \A x \in Path \ {d} : dst'[x] = dst[x]
    BY <1>1, <1>2, SetTimeEffect
<1>5. QED
    BY <1>2, <1>3, <1>4, AttrsLeft DEF d

-----------------------------------------------------------------------------
(* The theorems.                                                           *)

LEMMA Begins ==
    ASSUME src \in SrcTrees, Tree(dst), stack = Call(<<>>, "copy", Entries(src, <<>>)),
           failed = {}, before = dst, run \in Run
    PROVE  Inv
<1>1. Tree(src)
    BY TreeAssumption
<1>2. /\ stack # <<>> /\ CallsInv /\ stack[1].pass = "copy"
      /\ \A x \in Path : Coming(stack, x) <=> x # <<>>
    BY <1>1, CallsStart DEF CallsInv
<1>3. TypeOK
    <2>1. \A i \in DOMAIN stack : stack[i].dir \in Path /\ stack[i].todo \subseteq Child(stack[i].dir)
        BY <1>2, LeftIsChild DEF CallsInv
    <2>2. QED
        BY <2>1 DEF TypeOK
<1>4. AsInSource(<<>>)
    BY <1>1, TreeItem, ItemFacts, RootPath DEF AsInSource
<1>5. Copied
    BY <1>2, <1>4 DEF Copied
<1>6. Untouched /\ Equalled
    BY <1>2 DEF Untouched, Equalled, InFirstPass
<1>7. QED
    BY <1>2, <1>3, <1>5, <1>6 DEF Inv

LEMMA InitInv == Init => Inv
BY TreeAssumption, Begins DEF Init, Run

LEMMA StepRunAgain ==
    ASSUME Inv, RunAgain
    PROVE  Inv'
<1>1. /\ src' \in SrcTrees /\ Tree(dst') /\ stack' = Call(<<>>, "copy", Entries(src', <<>>))
      /\ failed' = {} /\ before' = dst' /\ run' \in Run
    BY DEF RunAgain, Inv, TypeOK, Run
<1>2. src' = src /\ dst' = dst /\ before' = dst
    BY DEF RunAgain
<1>3. Tree(src')
    BY <1>1, TreeAssumption
<1>4. /\ stack' # <<>> /\ stack'[1].pass = "copy"
      /\ Passes(stack', dst') /\ Nested(stack') /\ Opened(stack', dst')
      /\ \A x \in Path : Coming(stack', x) <=> x # <<>>
    BY <1>1, <1>2, <1>3, CallsStart
<1>5. CallsInv' /\ TypeOK'
    <2>1. TypeOK /\ Tree(before')
        BY <1>1, <1>2 DEF Inv
    <2>2. failed' \subseteq Path
        BY <1>1
    <2>3. QED
        BY <1>1, <1>2, <1>4, <2>1, <2>2, NextCalls, NextTypes
<1>6. \A x \in Path : Coming(stack, x)' <=> x # <<>>
    BY <1>2, <1>4, NextCalls
<1>7. AsInSource(<<>>)'
    <2>1. /\ src[<<>>].kind = "dir" /\ dst[<<>>].kind = "dir"
          /\ src[<<>>].data = Cut /\ dst[<<>>].data = Cut
        BY <1>1, <1>2, <1>3, TreeItem, ItemFacts, RootPath
    <2>2. QED
        BY <1>2, <2>1 DEF AsInSource
<1>8. Copied'
    BY <1>6, <1>7 DEF Copied
<1>9. Untouched' /\ Equalled'
    BY <1>2, <1>4 DEF Untouched, Equalled, InFirstPass
<1>10. QED
    BY <1>5, <1>8, <1>9 DEF Inv

LEMMA NextInv ==
    ASSUME Inv, [Next]_vars
    PROVE  Inv'
<1>1. CASE UNCHANGED vars
    BY <1>1 DEF vars, Inv, TypeOK, Tree, CallsInv, Passes, Nested, Opened, Left, Copied, Untouched,
                Equalled, InFirstPass, Coming, Unset, Clean, AsInSource
<1>2. CASE Next
    BY <1>2, StepCopyDir, StepCopyDirFails, StepCopyFile, StepCopyFileFails, StepPrune,
       StepPruneFails, StepRewind, StepSyncDirsReturns, StepAttrsDir, StepAttrsFile, StepAttrsFail,
       StepAttrsReturns, StepAttrsReturnsFails, StepRunAgain DEF Next, ItemStep
<1>3. QED
    BY <1>1, <1>2

\* The invariant holds at all times (sync.c: sync_dirs, sync_time_permissions).
THEOREM Invariance == Spec => []Inv
<1>1. Inv /\ [Next]_vars => Inv'
    BY NextInv
<1>2. QED
    BY InitInv, <1>1, PTL DEF Spec

\* After a run the destination mirrors the source, except below the items on
\* which a call has failed (sync.c:94-96 and sync_time_permissions).
THEOREM MirrorsSource == Spec => []Mirrors
<1>1. Inv => Mirrors
    <2> SUFFICES ASSUME Inv, Finished, NEW p \in Path, \A q \in failed : ~ IsPrefix(q, p)
                 PROVE  /\ SameItem(src[p], dst[p])
                        /\ dst[p].data # src[p].data =>
                              LooksSame(src[p], before[p]) /\ dst[p].data = before[p].data
        BY DEF Mirrors, Inv
    <2>1. Clean(p)
        BY DEF Clean
    <2>2. ~ Coming(stack, p) /\ ~ Unset(stack, p)
        BY FrameFacts DEF Finished, Coming, Unset, Inv, CallsInv, Passes
    <2>3. AsInSource(p)
        BY <2>1, <2>2 DEF Inv, Copied
    <2>4. SameItem(src[p], dst[p])
        BY <2>1, <2>2 DEF Inv, Equalled, InFirstPass, Finished
    <2>5. QED
        BY <2>3, <2>4 DEF AsInSource
<1>2. QED
    BY <1>1, Invariance, PTL

\* Setting what is set already.
LEMMA SetSame ==
    ASSUME Tree(dst), NEW p \in Path, SameItem(src[p], dst[p])
    PROVE  SetAttrs(dst, p) = dst
<1>1. dst \in [Path -> Item] /\ dst[p] \in Item
    BY DEF Tree
<1>2. [dst[p] EXCEPT !.mtime = dst[p].mtime] = dst[p]
    BY <1>1 DEF Item
<1>3. SetTime(dst, p) = dst
    BY <1>1, <1>2 DEF SetTime, SameItem
<1>4. [dst[p] EXCEPT !.mode = dst[p].mode] = dst[p]
    BY <1>1 DEF Item
<1>5. QED
    BY <1>1, <1>3, <1>4 DEF SetAttrs, SameItem

LEMMA IdleStep ==
    ASSUME Inv, Next, ~ RunAgain, failed' = {},
           InStep(dst)
    PROVE  dst' = dst
<1> USE DEF InStep
<1>1. Tree(src) /\ Tree(dst)
    BY BothTrees DEF Inv
<1>2. ASSUME NEW p \in Path, CopyDir(p) PROVE dst' = dst
    BY <1>2 DEF CopyDir, WithDir, SameItem
<1>3. ASSUME NEW p \in Path, CopyFile(p) PROVE dst' = dst
    BY <1>3 DEF CopyFile, LooksSame, SameItem
<1>4. ASSUME NEW p \in Path, Prune(p) PROVE dst' = dst
    <2>1. stack # <<>> /\ stack[1].pass = "prune" /\ p \in stack[1].todo /\ 1 \in DOMAIN stack
        BY <1>4, ToBePruned, EntryOf DEF Prune
    <2>2. dst[p] # None
        BY <2>1 DEF Inv, CallsInv, Passes, Entries
    <2>3. src[p] # None
        BY <1>1, <2>2, TreeItem, ItemFacts, NoItem DEF SameItem
    <2>4. QED
        BY <1>4, <2>3 DEF Prune
<1>5. ASSUME NEW p \in Path, AttrsFile(p) PROVE dst' = dst
    BY <1>1, <1>5, SetSame DEF AttrsFile
<1>6. ASSUME AttrsReturns PROVE dst' = dst
    BY <1>1, <1>6, SetSame, OpenDir DEF AttrsReturns
<1>7. ASSUME NEW p \in Path PROVE ~ Fails(p)
    BY FailsIs
<1>8. ~ AttrsReturnsFails
    BY <1>7, OpenDir DEF AttrsReturnsFails
<1>9. \A p \in Path : ~ (\/ CopyDirFails(p) \/ CopyFileFails(p) \/ PruneFails(p)
                         \/ AttrsFail(p))
    BY <1>7 DEF CopyDirFails, CopyFileFails, PruneFails, AttrsFail
<1>10. ASSUME NEW p \in Path, AttrsDir(p) PROVE dst' = dst
    BY <1>10 DEF AttrsDir
<1>11. Rewind \/ SyncDirsReturns => dst' = dst
    BY DEF Rewind, SyncDirsReturns
<1>12. QED
    BY <1>2, <1>3, <1>4, <1>5, <1>6, <1>8, <1>9, <1>10, <1>11 DEF Next, ItemStep

LEMMA OneRun ==
    ASSUME Inv, Next, ~ RunAgain
    PROVE  failed \subseteq failed' /\ before' = before /\ src' = src /\ run' = run
<1>1. ASSUME NEW p \in Path, ItemStep(p)
      PROVE  failed \subseteq failed' /\ before' = before /\ src' = src /\ run' = run
    BY <1>1 DEF ItemStep, CopyDir, CopyDirFails, CopyFile, CopyFileFails, Prune, PruneFails,
                AttrsDir, AttrsFile, AttrsFail, Done, Works, Fails
<1>2. Rewind \/ SyncDirsReturns \/ AttrsReturns \/ AttrsReturnsFails =>
          failed \subseteq failed' /\ before' = before /\ src' = src /\ run' = run
    BY DEF Rewind, SyncDirsReturns, AttrsReturns, AttrsReturnsFails, Works, Fails
<1>3. QED
    BY <1>1, <1>2 DEF Next

\* A run without failures leaves the two in step: a file that was not copied
\* looked the same and is as it was.
LEMMA LeavesInStep ==
    ASSUME Inv, Mirrors, Finished, failed = {}
    PROVE  InStep(dst)
<1> SUFFICES ASSUME NEW p \in Path
             PROVE  SameItem(src[p], dst[p]) /\ Size[src[p].data] = Size[dst[p].data]
    BY DEF InStep
<1>1. /\ SameItem(src[p], dst[p])
      /\ dst[p].data # src[p].data =>
            LooksSame(src[p], before[p]) /\ dst[p].data = before[p].data
    BY DEF Mirrors
<1>2. QED
    BY <1>1 DEF LooksSame

\* Run right after a run without failures, or on a destination that is in step
\* with the source, the program changes nothing in it (the comparisons at
\* sync.c:145-222 and 388-447, and the order of the passes, 474-477).
THEOREM IdleRun == Spec => []IdleWhenInStep
<1> DEFINE Idle == IdleWhenInStep /\ (run = "repeat" => InStep(before))
<1>1. Init => Idle
    BY DEF Init, IdleWhenInStep
<1>2. ASSUME Inv, Mirrors, Idle, [Next]_vars PROVE Idle'
    <2>1. CASE UNCHANGED vars
        BY <1>2, <2>1 DEF vars, IdleWhenInStep, InStep, SameItem
    <2>2. CASE RunAgain
        <3>1. /\ before' = dst /\ dst' = dst /\ src' = src /\ Finished
              /\ run' = "repeat" => failed = {}
            BY <2>2 DEF RunAgain
        <3>2. run' = "repeat" => InStep(dst)
            BY <1>2, <3>1, LeavesInStep
        <3>3. QED
            BY <3>1, <3>2 DEF IdleWhenInStep, InStep, SameItem
    <2>3. CASE Next /\ ~ RunAgain
        <3>1. failed \subseteq failed' /\ before' = before /\ src' = src /\ run' = run
            BY <1>2, <2>3, OneRun
        <3>2. InStep(before)' <=> InStep(before)
            BY <3>1 DEF InStep, SameItem
        <3>3. ASSUME failed' = {}, run' = "repeat" \/ InStep(before)' PROVE dst' = before'
            <4>1. failed = {} /\ InStep(before) /\ dst = before
                BY <1>2, <3>1, <3>2, <3>3 DEF IdleWhenInStep
            <4>2. dst' = dst
                BY <1>2, <2>3, <3>3, <4>1, IdleStep
            <4>3. QED
                BY <3>1, <4>1, <4>2
        <3>4. QED
            BY <1>2, <3>1, <3>2, <3>3 DEF IdleWhenInStep
    <2>4. QED
        BY <1>2, <2>1, <2>2, <2>3
<1>3. QED
    BY <1>1, <1>2, Invariance, MirrorsSource, PTL DEF Spec

LEMMA AttrsKeepContents ==
    ASSUME Inv, Next, stack # <<>>, stack[1].pass = "attrs", NEW x \in Path
    PROVE  dst'[x].kind = dst[x].kind /\ dst'[x].data = dst[x].data
<1>1. Tree(src) /\ Tree(dst)
    BY BothTrees DEF Inv
<1>2. ASSUME NEW p \in Path, src[p] # None, dst[p] # None,
             dst' \in {dst, SetTime(dst, p), SetAttrs(dst, p)}
      PROVE  dst'[x].kind = dst[x].kind /\ dst'[x].data = dst[x].data
    BY <1>1, <1>2, SetTimeEffect, SetAttrsEffect
<1>3. \A p : ~ Working("copy", p) /\ ~ Working("prune", p)
    BY InWork
<1>4. ~ Listed("copy") /\ ~ Listed("prune") /\ ~ Finished
    BY AtEnd DEF Finished
<1>5. ASSUME NEW p \in Path, AttrsFile(p) \/ AttrsFail(p)
      PROVE  dst' = dst \/ (/\ src[p] # None /\ dst[p] # None
                            /\ dst' \in {dst, SetTime(dst, p), SetAttrs(dst, p)})
    <2>1. src[p] # None
        BY <1>5, ToBeSet DEF AttrsFile, AttrsFail
    <2>2. QED
        BY <1>5, <2>1 DEF AttrsFile, AttrsFail
<1>6. ASSUME NEW p \in Path, ItemStep(p)
      PROVE  dst' = dst \/ (/\ src[p] # None /\ dst[p] # None
                            /\ dst' \in {dst, SetTime(dst, p), SetAttrs(dst, p)})
    BY <1>3, <1>5, <1>6 DEF ItemStep, CopyDir, CopyDirFails, CopyFile, CopyFileFails, Prune,
                            PruneFails, AttrsDir
<1>7. ASSUME AttrsReturns \/ AttrsReturnsFails
      PROVE  \E p \in Path : /\ src[p] # None /\ dst[p] # None
                             /\ dst' \in {dst, SetTime(dst, p), SetAttrs(dst, p)}
    BY <1>7, OpenDir DEF AttrsReturns, AttrsReturnsFails
<1>8. CASE \E p \in Path : ItemStep(p)
    BY <1>2, <1>6, <1>8
<1>9. CASE AttrsReturns \/ AttrsReturnsFails
    BY <1>2, <1>7, <1>9
<1>10. QED
    BY <1>4, <1>8, <1>9 DEF Next, Rewind, SyncDirsReturns, RunAgain

LEMMA KeptStep ==
    ASSUME Inv, Next, NEW x \in Path, LooksSame(src[x], dst[x])
    PROVE  dst'[x].kind = "file" /\ dst'[x].data = dst[x].data
<1>1. Tree(src) /\ Tree(dst) /\ src[x].kind = "file" /\ dst[x].kind = "file"
    BY BothTrees DEF Inv, LooksSame
<1>2. ASSUME NEW p \in Path, x \in Under(p), x # p PROVE src[p].kind = "dir"
    BY <1>1, <1>2, OnlyInDirs, NoItem, Unders
<1>3. ASSUME NEW p \in Path, x \notin Under(p), Alike(dst, dst', Path \ Under(p))
      PROVE  dst'[x].kind = "file" /\ dst'[x].data = dst[x].data
    BY <1>1, <1>3 DEF Alike
<1>4. ASSUME NEW p \in Path, CopyDir(p) \/ CopyDirFails(p)
      PROVE  dst'[x].kind = "file" /\ dst'[x].data = dst[x].data
    <2>1. src[p].kind = "dir" /\ x # p
        BY <1>1, <1>4 DEF CopyDir, CopyDirFails
    <2>2. CASE CopyDir(p)
        <3>1. p \in Path \ {<<>>} /\ dst[Front(p)].kind = "dir" /\ dst' = WithDir(p)
            BY <2>2, ToBeCopied DEF CopyDir
        <3>2. Alike(dst, dst', Path \ {p})
            BY <1>1, <2>1, <3>1, WithDirEffect
        <3>3. QED
            BY <1>1, <2>1, <3>2 DEF Alike
    <2>3. CASE CopyDirFails(p)
        BY <1>1, <2>1, <2>3, DirFailure DEF Alike
    <2>4. QED
        BY <1>4, <2>2, <2>3
<1>5. ASSUME NEW p \in Path, CopyFile(p) \/ CopyFileFails(p)
      PROVE  dst'[x].kind = "file" /\ dst'[x].data = dst[x].data
    <2>1. src[p].kind = "file" /\ p \in Path \ {<<>>} /\ dst[Front(p)].kind = "dir"
        BY <1>5, ToBeCopied DEF CopyFile, CopyFileFails
    <2>2. CASE LooksSame(src[p], dst[p])
        BY <1>1, <1>5, <2>2 DEF CopyFile, CopyFileFails
    <2>3. CASE ~ LooksSame(src[p], dst[p])
        <3>1. x \notin Under(p)
            BY <1>2, <2>1, <2>3
        <3>2. CASE CopyFile(p)
            <4>1. dst' = Write(Cleared(p), p, src[p].data) /\ src[p].data \in DOMAIN Size
                BY <1>1, <2>3, <3>2, TreeItem, ItemFacts DEF CopyFile
            <4>2. Alike(dst, dst', Path \ Under(p))
                BY <1>1, <2>1, <4>1, CopyEffect
            <4>3. QED
                BY <1>3, <3>1, <4>2
        <3>3. CASE CopyFileFails(p)
            BY <1>3, <3>1, <3>3, FileFailure
        <3>4. QED
            BY <1>5, <3>2, <3>3
    <2>4. QED
        BY <2>2, <2>3
<1>6. ASSUME NEW p \in Path, Prune(p) \/ PruneFails(p)
      PROVE  dst'[x].kind = "file" /\ dst'[x].data = dst[x].data
    <2>1. p \in Path \ {<<>>}
        BY <1>6, ToBePruned DEF Prune, PruneFails
    <2>2. CASE src[p] # None
        BY <1>1, <1>6, <2>2 DEF Prune, PruneFails
    <2>3. CASE src[p] = None
        <3>1. x \notin Under(p)
            BY <1>1, <2>3, NothingBelow, NoItem
        <3>2. dst' = Without(dst, Under(p)) \/ dst' \in PartlyRemoved(dst, p)
            BY <1>6, <2>3 DEF Prune, PruneFails
        <3>3. Alike(dst, dst', Path \ Under(p))
            BY <1>1, <2>1, <3>2, RemoveTree, RemoveSome
        <3>4. QED
            BY <1>3, <3>1, <3>3
    <2>4. QED
        BY <2>2, <2>3
<1>7. ASSUME NEW p \in Path, AttrsDir(p) \/ AttrsFile(p) \/ AttrsFail(p)
      PROVE  dst'[x].kind = "file" /\ dst'[x].data = dst[x].data
    <2>1. stack # <<>> /\ stack[1].pass = "attrs"
        BY <1>7, InWork DEF AttrsDir, AttrsFile, AttrsFail
    <2>2. QED
        BY <1>1, <2>1, AttrsKeepContents
<1>8. ASSUME AttrsReturns \/ AttrsReturnsFails
      PROVE  dst'[x].kind = "file" /\ dst'[x].data = dst[x].data
    <2>1. stack # <<>> /\ stack[1].pass = "attrs"
        BY <1>8, AtEnd DEF AttrsReturns, AttrsReturnsFails
    <2>2. QED
        BY <1>1, <2>1, AttrsKeepContents
<1>9. Rewind \/ SyncDirsReturns \/ RunAgain => dst'[x].kind = "file" /\ dst'[x].data = dst[x].data
    BY <1>1 DEF Rewind, SyncDirsReturns, RunAgain
<1>10. QED
    BY <1>4, <1>5, <1>6, <1>7, <1>8, <1>9 DEF Next, ItemStep

\* A file that is up to date keeps its contents through the run, whatever
\* fails around it (sync.c:222, 292-306).
THEOREM KeepsUpToDate == Spec => UpToDateKept
<1>1. ASSUME Inv, [Next]_vars
      PROVE  [\A p \in Path : LooksSame(src[p], dst[p]) =>
                 dst'[p].kind = "file" /\ dst'[p].data = dst[p].data]_vars
    BY <1>1, KeptStep
<1>2. QED
    BY <1>1, Invariance, PTL DEF Spec, UpToDateKept

=============================================================================
