----------------------------- MODULE Files_proofs -----------------------------
(***************************************************************************)
(* Theorems about the path gate, for any names, links and configurations,  *)
(* any depth of the tree and any bound on a resolution.                    *)
(***************************************************************************)
EXTENDS Files, Integers, FiniteSetTheorems, SequenceTheorems, TLAPS

-----------------------------------------------------------------------------
(* Induction over the naturals, in the form the provers can instantiate:   *)
(* of a set of numbers, and obtained from finite sets, where an injection  *)
(* of a set into itself is onto.                                           *)

LEMMA Induct ==
    ASSUME NEW T, 0 \in T, \A n \in Nat : n \in T => n + 1 \in T
    PROVE  \A n \in Nat : n \in T
<1> SUFFICES ASSUME NEW m \in Nat, m \notin T PROVE FALSE
    OBVIOUS
<1> DEFINE S == {k \in 0..m : k \notin T}
<1> DEFINE f == [k \in S |-> k - 1]
<1>1. \A k \in S : k - 1 \in S
    <2> TAKE k \in S
    <2>1. k \in 0..m /\ k \notin T /\ k # 0
        OBVIOUS
    <2>2. k - 1 \in Nat /\ k - 1 \in 0..m
        BY <2>1
    <2>3. k - 1 \notin T
        <3>1. k - 1 \in T => (k - 1) + 1 \in T
            BY <2>2
        <3>2. (k - 1) + 1 = k
            BY <2>1
        <3> QED BY <2>1, <3>1, <3>2
    <2> QED BY <2>2, <2>3
<1>2. f \in Injection(S, S)
    <2>1. f \in [S -> S]
        BY <1>1
    <2>2. \A a, b \in S : f[a] = f[b] => a = b
        OBVIOUS
    <2> HIDE DEF S, f
    <2> QED BY <2>1, <2>2 DEF Injection, IsInjective
<1>3. IsFiniteSet(S)
    <2>1. IsFiniteSet(0..m)
        BY FS_Interval
    <2>2. S \in SUBSET (0..m)
        OBVIOUS
    <2> HIDE DEF S
    <2> QED BY <2>1, <2>2, FS_Subset
<1>4. f \in Surjection(S, S)
    <2> HIDE DEF S, f
    <2> QED BY <1>2, <1>3, FS_Injection
<1>5. m \in S
    OBVIOUS
<1>6. \E k \in S : f[k] = m
    <2> HIDE DEF S, f
    <2> QED BY <1>4, <1>5 DEF Surjection
<1> QED BY <1>6

-----------------------------------------------------------------------------
(* Iterations: the functions that are defined by recursion exist.          *)

Runs(S, x, F, m) == {g \in [0..m -> S] : g[0] = x /\ \A n \in 1..m : g[n] = F[n][g[n - 1]]}

LEMMA RunExists ==
    ASSUME NEW S, NEW x \in S, NEW F, NEW m \in Nat, \A n \in 1..m, s \in S : F[n][s] \in S
    PROVE  \E g : g \in Runs(S, x, F, m)
<1> DEFINE T == {n \in Nat : n <= m => \E g : g \in Runs(S, x, F, n)}
<1>1. 0 \in T
    <2>1. [i \in 0..0 |-> x] \in Runs(S, x, F, 0)
        BY DEF Runs
    <2> QED BY <2>1
<1>2. ASSUME NEW n \in Nat, n \in T PROVE n + 1 \in T
    <2> SUFFICES ASSUME n + 1 <= m PROVE \E g : g \in Runs(S, x, F, n + 1)
        OBVIOUS
    <2>1. PICK g : g \in Runs(S, x, F, n)
        BY <1>2
    <2> DEFINE h == [i \in 0..(n + 1) |-> IF i = n + 1 THEN F[n + 1][g[n]] ELSE g[i]]
    <2>2. g[n] \in S /\ g \in [0..n -> S] /\ g[0] = x /\ \A i \in 1..n : g[i] = F[i][g[i - 1]]
        BY <2>1 DEF Runs
    <2>3. F[n + 1][g[n]] \in S
        BY <2>2
    <2>4. h \in [0..(n + 1) -> S]
        BY <2>2, <2>3
    <2>5. h[0] = x
        BY <2>2
    <2>6. \A i \in 1..(n + 1) : h[i] = F[i][h[i - 1]]
        <3> TAKE i \in 1..(n + 1)
        <3>1. CASE i = n + 1
            BY <3>1
        <3>2. CASE i # n + 1
            <4>1. i \in 1..n /\ i \in 0..(n + 1) /\ i - 1 \in 0..(n + 1) /\ i - 1 # n + 1
                BY <3>2
            <4>2. h[i] = g[i] /\ h[i - 1] = g[i - 1]
                BY <4>1, <3>2
            <4> QED BY <2>2, <4>1, <4>2
        <3> QED BY <3>1, <3>2
    <2>7. h \in Runs(S, x, F, n + 1)
        <3> HIDE DEF h
        <3> QED BY <2>4, <2>5, <2>6 DEF Runs
    <2> QED BY <2>7
<1>3. m \in T
    <2> HIDE DEF T
    <2> QED BY <1>1, <1>2, Induct
<1> QED BY <1>3

\* Two runs agree as far as both go.
LEMMA RunsAgree ==
    ASSUME NEW S, NEW x, NEW F, NEW m \in Nat, NEW n \in Nat,
           NEW g \in Runs(S, x, F, m), NEW h \in Runs(S, x, F, n)
    PROVE  \A k \in Nat : k <= m /\ k <= n => g[k] = h[k]
<1> DEFINE T == {k \in Nat : k <= m /\ k <= n => g[k] = h[k]}
<1>1. 0 \in T
    BY DEF Runs
<1>2. ASSUME NEW k \in Nat, k \in T PROVE k + 1 \in T
    <2> SUFFICES ASSUME k + 1 <= m, k + 1 <= n PROVE g[k + 1] = h[k + 1]
        OBVIOUS
    <2>1. k + 1 \in 1..m /\ k + 1 \in 1..n /\ (k + 1) - 1 = k
        OBVIOUS
    <2>2. g[k + 1] = F[k + 1][g[k]] /\ h[k + 1] = F[k + 1][h[k]]
        BY <2>1 DEF Runs
    <2>3. g[k] = h[k]
        BY <1>2
    <2> QED BY <2>2, <2>3
<1>3. \A k \in Nat : k \in T
    <2> HIDE DEF T
    <2> QED BY <1>1, <1>2, Induct
<1> QED BY <1>3

Iteration(S, x, F) ==
    {g \in [Nat -> S] : g[0] = x /\ \A n \in Nat \ {0} : g[n] = F[n][g[n - 1]]}
Within(F, S) == \A n \in Nat \ {0}, s \in S : F[n][s] \in S

LEMMA IterationExists ==
    ASSUME NEW S, NEW x \in S, NEW F, Within(F, S)
    PROVE  \E g : g \in Iteration(S, x, F)
<1> DEFINE G(n) == CHOOSE g : g \in Runs(S, x, F, n)
<1> DEFINE f == [n \in Nat |-> G(n)[n]]
<1>1. \A n \in Nat : G(n) \in Runs(S, x, F, n)
    <2> TAKE n \in Nat
    <2>1. \A k \in 1..n, s \in S : F[k][s] \in S
        BY DEF Within
    <2>2. \E g : g \in Runs(S, x, F, n)
        BY <2>1, RunExists
    <2> QED BY <2>2
<1>2. \A n \in Nat : G(n)[n] \in S /\ G(n)[0] = x
    <2> HIDE DEF G
    <2> TAKE n \in Nat
    <2>1. G(n) \in Runs(S, x, F, n) /\ n \in 0..n
        BY <1>1
    <2> QED BY <2>1 DEF Runs
<1>3. \A n \in Nat \ {0} : G(n)[n] = F[n][G(n - 1)[n - 1]]
    <2> HIDE DEF G
    <2> TAKE n \in Nat \ {0}
    <2>1. n - 1 \in Nat /\ n \in Nat /\ n \in 1..n /\ n - 1 <= n
        OBVIOUS
    <2>2. G(n) \in Runs(S, x, F, n) /\ G(n - 1) \in Runs(S, x, F, n - 1)
        BY <1>1, <2>1
    <2>3. G(n)[n - 1] = G(n - 1)[n - 1]
        BY <2>1, <2>2, RunsAgree
    <2>4. G(n)[n] = F[n][G(n)[n - 1]]
        BY <2>1, <2>2 DEF Runs
    <2> QED BY <2>3, <2>4
<1>4. f \in [Nat -> S] /\ f[0] = x
    <2> HIDE DEF G
    <2> QED BY <1>2
<1>5. \A n \in Nat \ {0} : f[n] = F[n][f[n - 1]]
    <2> HIDE DEF G
    <2> QED BY <1>3
<1>6. f \in Iteration(S, x, F)
    <2> HIDE DEF f
    <2> QED BY <1>4, <1>5 DEF Iteration
<1> QED BY <1>6

-----------------------------------------------------------------------------
(* Paths, kept behind operators: one after the other, and a part in front. *)

Parts == Names \cup {".."}
Cat(p, q) == p \o q

LEMMA EmptyTyped == ASSUME NEW S PROVE <<>> \in Seq(S)
BY EmptySeq

LEMMA OneTyped ==
    ASSUME NEW S, NEW x \in S
    PROVE  <<x>> \in Seq(S) /\ <<x>> # <<>>
<1>1. <<x>> = Append(<<>>, x)
    OBVIOUS
<1>2. <<>> \in Seq(S)
    BY EmptyTyped
<1> QED BY <1>1, <1>2, AppendProperties

LEMMA CatTyped ==
    ASSUME NEW S, NEW p \in Seq(S), NEW q \in Seq(S)
    PROVE  Cat(p, q) \in Seq(S)
BY ConcatProperties DEF Cat

LEMMA CatEmpty ==
    ASSUME NEW S, NEW p \in Seq(S)
    PROVE  Cat(p, <<>>) = p /\ Cat(<<>>, p) = p
BY ConcatEmptySeq DEF Cat

LEMMA CatEmptyBoth ==
    ASSUME NEW S, NEW p \in Seq(S), NEW q \in Seq(S), Cat(p, q) = <<>>
    PROVE  p = <<>> /\ q = <<>>
BY ConcatEqualIffEmpty DEF Cat

LEMMA CatAssoc ==
    ASSUME NEW S, NEW p \in Seq(S), NEW q \in Seq(S), NEW r \in Seq(S)
    PROVE  Cat(Cat(p, q), r) = Cat(p, Cat(q, r))
BY ConcatAssociative DEF Cat

LEMMA CatCancel ==
    ASSUME NEW S, NEW p \in Seq(S), NEW q \in Seq(S), NEW r \in Seq(S), Cat(p, r) = Cat(q, r)
    PROVE  p = q
BY ConcatSimplifications DEF Cat

LEMMA ConsTyped ==
    ASSUME NEW S, NEW x \in S, NEW q \in Seq(S)
    PROVE  /\ Cons(x, q) \in Seq(S) /\ Cons(x, q) # <<>>
           /\ Head(Cons(x, q)) = x /\ Tail(Cons(x, q)) = q
<1>1. <<x>> \in Seq(S) /\ <<x>> # <<>>
    BY OneTyped
<1>2. Cons(x, q) \in Seq(S) /\ Cons(x, q) # <<>>
    BY <1>1, ConcatProperties, ConcatEqualIffEmpty DEF Cons
<1>3. Len(<<x>>) = 1 /\ <<x>>[1] = x
    OBVIOUS
<1>4. /\ Len(Cons(x, q)) = 1 + Len(q) /\ Len(q) \in Nat
      /\ \A i \in 1..(1 + Len(q)) : Cons(x, q)[i] = IF i <= 1 THEN <<x>>[i] ELSE q[i - 1]
    BY <1>1, <1>3, ConcatProperties, LenProperties DEF Cons
<1>5. Head(Cons(x, q)) = x
    <2>1. Head(Cons(x, q)) = Cons(x, q)[1]
        BY <1>2
    <2> QED BY <2>1, <1>3, <1>4
<1>6. Tail(Cons(x, q)) = q
    <2>1. /\ Tail(Cons(x, q)) \in Seq(S) /\ Len(Tail(Cons(x, q))) = Len(Cons(x, q)) - 1
          /\ \A i \in 1..Len(Tail(Cons(x, q))) : Tail(Cons(x, q))[i] = Cons(x, q)[i + 1]
        BY <1>2, HeadTailProperties
    <2>2. Len(Tail(Cons(x, q))) = Len(q)
        BY <2>1, <1>4
    <2>3. \A i \in 1..Len(q) : Tail(Cons(x, q))[i] = q[i]
        <3> TAKE i \in 1..Len(q)
        <3>1. Tail(Cons(x, q))[i] = Cons(x, q)[i + 1]
            BY <2>1, <2>2
        <3>2. Cons(x, q)[i + 1] = q[(i + 1) - 1]
            BY <1>4
        <3> QED BY <1>4, <3>1, <3>2
    <2> QED BY <2>1, <2>2, <2>3, SeqEqual
<1> QED BY <1>2, <1>5, <1>6

LEMMA ConsOrEmpty ==
    ASSUME NEW S, NEW p \in Seq(S), p # <<>>
    PROVE  \E x \in S, q \in Seq(S) : p = Cons(x, q)
<1>1. /\ Head(p) \in S /\ Tail(p) \in Seq(S) /\ Len(Tail(p)) = Len(p) - 1
      /\ \A i \in 1..Len(Tail(p)) : Tail(p)[i] = p[i + 1]
    BY HeadTailProperties
<1>2. Len(p) \in Nat /\ Len(p) # 0
    BY EmptySeq
<1>3. <<Head(p)>> \in Seq(S) /\ Len(<<Head(p)>>) = 1 /\ <<Head(p)>>[1] = Head(p) /\ Head(p) = p[1]
    BY <1>1, OneTyped
<1>4. /\ Cons(Head(p), Tail(p)) \in Seq(S) /\ Len(Cons(Head(p), Tail(p))) = Len(p)
      /\ \A i \in 1..Len(p) :
            Cons(Head(p), Tail(p))[i] = IF i <= 1 THEN <<Head(p)>>[i] ELSE Tail(p)[i - 1]
    BY <1>1, <1>2, <1>3, ConcatProperties DEF Cons
<1>5. \A i \in 1..Len(p) : Cons(Head(p), Tail(p))[i] = p[i]
    <2> TAKE i \in 1..Len(p)
    <2>1. CASE i = 1
        BY <2>1, <1>3, <1>4
    <2>2. CASE i # 1
        <3>1. i - 1 \in 1..Len(Tail(p)) /\ (i - 1) + 1 = i
            BY <2>2, <1>1, <1>2
        <3> QED BY <2>2, <3>1, <1>1, <1>4
    <2> QED BY <2>1, <2>2
<1>6. p = Cons(Head(p), Tail(p))
    BY <1>4, <1>5, SeqEqual
<1> QED BY <1>1, <1>6

LEMMA ConsCat ==
    ASSUME NEW S, NEW x \in S, NEW p \in Seq(S), NEW q \in Seq(S)
    PROVE  Cat(Cons(x, p), q) = Cons(x, Cat(p, q))
<1>1. <<x>> \in Seq(S)
    BY OneTyped
<1> QED BY <1>1, ConcatAssociative DEF Cat, Cons

LEMMA AppendCat ==
    ASSUME NEW S, NEW x \in S, NEW p \in Seq(S), NEW q \in Seq(S)
    PROVE  /\ Append(p, x) \in Seq(S) /\ Append(p, x) # <<>>
           /\ Cat(Append(p, x), q) = Cat(p, Cons(x, q))
           /\ Append(p, x) = Cat(p, Cons(x, <<>>))
<1>1. <<x>> \in Seq(S)
    BY OneTyped
<1>2. Append(p, x) \in Seq(S) /\ Append(p, x) # <<>>
    BY AppendProperties
<1>3. Append(p, x) = p \o <<x>>
    BY AppendIsConcat
<1>4. (p \o <<x>>) \o q = p \o (<<x>> \o q)
    BY <1>1, ConcatAssociative
<1>5. <<x>> \o <<>> = <<x>>
    BY <1>1, ConcatEmptySeq
<1> QED BY <1>2, <1>3, <1>4, <1>5 DEF Cat, Cons

-----------------------------------------------------------------------------
(* Places and trees.                                                       *)

LEMMA PlaceIs == \A p : p \in Places <=> p \in Seq(Names) /\ Len(p) <= MaxDepth
<1>1. MaxDepth \in Nat
    BY GateAssumption
<1>2. ASSUME NEW p \in Places PROVE p \in Seq(Names) /\ Len(p) <= MaxDepth
    <2>1. PICK n \in 0..MaxDepth : p \in [1..n -> Names]
        BY DEF Places
    <2>2. n \in Nat
        BY <1>1
    <2>3. p \in Seq(Names)
        BY <2>1, <2>2, SeqDef
    <2>4. Len(p) = n
        <3>1. Len(p) \in Nat /\ DOMAIN p = 1..Len(p)
            BY <2>3, LenProperties
        <3> QED BY <2>1, <2>2, <3>1
    <2> QED BY <1>1, <2>3, <2>4
<1>3. ASSUME NEW p \in Seq(Names), Len(p) <= MaxDepth PROVE p \in Places
    <2>1. Len(p) \in Nat /\ p \in [1..Len(p) -> Names]
        BY LenProperties
    <2>2. Len(p) \in 0..MaxDepth
        BY <1>1, <1>3, <2>1
    <2> QED BY <2>1, <2>2 DEF Places
<1> TAKE p
<1> QED BY <1>2, <1>3

LEMMA RootIsPlace == <<>> \in Places
<1>1. <<>> \in Seq(Names)
    BY EmptyTyped
<1>2. Len(<<>>) = 0
    BY EmptySeq
<1>3. Len(<<>>) <= MaxDepth
    BY <1>2, GateAssumption
<1> QED BY <1>1, <1>3, PlaceIs

LEMMA ParentIs ==
    /\ Parent(<<>>) = <<>>
    /\ \A p \in Seq(Names), x \in Names : Parent(Append(p, x)) = p
    /\ \A p \in Seq(Names), x \in Names : Append(p, x) \in Places => p \in Places
<1>1. Parent(<<>>) = <<>>
    BY DEF Parent
<1>2. ASSUME NEW p \in Seq(Names), NEW x \in Names PROVE Parent(Append(p, x)) = p
    <2>1. /\ Append(p, x) \in Seq(Names) /\ Append(p, x) # <<>> /\ Len(Append(p, x)) = Len(p) + 1
          /\ \A i \in 1..Len(p) : Append(p, x)[i] = p[i]
        BY AppendProperties
    <2>2. Len(p) \in Nat /\ \A i \in 1..Len(p) : p[i] \in Names
        BY LenProperties, ElementOfSeq
    <2> DEFINE a == Append(p, x)
    <2>3. Parent(a) = SubSeq(a, 1, Len(p))
        <3>1. Len(a) - 1 = Len(p)
            BY <2>1, <2>2
        <3> QED BY <3>1, <2>1 DEF Parent, Front
    <2>4. \A i \in 1..Len(p) : a[i] \in Names /\ a[i] = p[i]
        BY <2>1, <2>2
    <2> HIDE DEF a
    <2>5. /\ SubSeq(a, 1, Len(p)) \in Seq(Names) /\ Len(SubSeq(a, 1, Len(p))) = Len(p)
          /\ \A i \in 1..Len(p) : SubSeq(a, 1, Len(p))[i] = p[i]
        <3>1. /\ SubSeq(a, 1, Len(p)) \in Seq(Names)
              /\ Len(SubSeq(a, 1, Len(p))) = IF 1 <= Len(p) THEN Len(p) - 1 + 1 ELSE 0
              /\ \A i \in 1..(Len(p) - 1 + 1) : SubSeq(a, 1, Len(p))[i] = a[1 + i - 1]
            BY <2>2, <2>4, SubSeqProperties
        <3>2. Len(SubSeq(a, 1, Len(p))) = Len(p)
            BY <2>2, <3>1
        <3>3. \A i \in 1..Len(p) : SubSeq(a, 1, Len(p))[i] = p[i]
            <4> TAKE i \in 1..Len(p)
            <4>1. i \in 1..(Len(p) - 1 + 1) /\ 1 + i - 1 = i
                BY <2>2
            <4> QED BY <3>1, <4>1, <2>4
        <3> QED BY <3>1, <3>2, <3>3
    <2>6. SubSeq(a, 1, Len(p)) = p
        BY <2>2, <2>5, SeqEqual
    <2> QED BY <2>3, <2>6 DEF a
<1>3. ASSUME NEW p \in Seq(Names), NEW x \in Names, Append(p, x) \in Places PROVE p \in Places
    <2>1. Len(Append(p, x)) = Len(p) + 1 /\ Len(p) \in Nat /\ Len(Append(p, x)) <= MaxDepth
        BY <1>3, AppendProperties, LenProperties, PlaceIs
    <2> QED BY <2>1, PlaceIs, GateAssumption
<1> QED BY <1>1, <1>2, <1>3

LEMMA PlaceCases ==
    ASSUME NEW p \in Places, p # <<>>
    PROVE  \E q \in Places, x \in Names : p = Append(q, x) /\ Parent(p) = q
<1>1. p \in Seq(Names)
    BY PlaceIs
<1>2. \E q \in Seq(Names), x \in Names : p = Append(q, x)
    BY <1>1, SequenceEmptyOrAppend
<1> QED BY <1>2, ParentIs

\* What may be at a place, and the trees: below a directory, and links to anywhere.
LinkTargets == [abs : BOOLEAN, parts : Seq(Parts)]
Nodes == {Missing, Dir, File} \cup {Link(to) : to \in LinkTargets}
TreeOK(t) ==
    /\ t \in [Places -> Nodes]
    /\ t[<<>>] = Dir
    /\ \A p \in Seq(Names), x \in Names : At(t, Append(p, x)) # Missing => At(t, p) = Dir

LEMMA KindOf ==
    /\ \A n \in Nodes :
        \/ n = Missing /\ n.kind = "none"
        \/ n = Dir /\ n.kind = "dir"
        \/ n = File /\ n.kind = "file"
        \/ n.kind = "link" /\ n.to \in LinkTargets
    /\ Missing.kind = "none" /\ Dir.kind = "dir" /\ File.kind = "file"
<1>1. \A to \in LinkTargets : Link(to).kind = "link" /\ Link(to).to = to
    BY DEF Link
<1>2. Missing.kind = "none" /\ Dir.kind = "dir" /\ File.kind = "file"
    BY DEF Missing, Dir, File
<1> QED BY <1>1, <1>2 DEF Nodes

LEMMA AtTyped ==
    ASSUME NEW t, TreeOK(t), NEW p
    PROVE  /\ At(t, p) \in Nodes
           /\ At(t, p) # Missing => p \in Places /\ p \in Seq(Names) /\ At(t, p) = t[p]
           /\ At(t, <<>>) = Dir /\ <<>> \in Seq(Names)
<1>1. DOMAIN t = Places /\ \A q \in Places : t[q] \in Nodes
    BY DEF TreeOK
<1>2. Missing \in Nodes
    BY DEF Nodes
<1>3. <<>> \in Places /\ t[<<>>] = Dir
    BY RootIsPlace DEF TreeOK
<1> QED BY <1>1, <1>2, <1>3, PlaceIs DEF At

-----------------------------------------------------------------------------
(* A walk: what a step does, and where the walk is after so many.          *)

St(a, l) == [at |-> a, left |-> l]
Here(t) == {p \in Places : At(t, p) \in {Dir, File}}
States(t) == {St(a, l) : a \in Here(t), l \in Seq(Parts)}

LEMMA StIs ==
    /\ \A a, l : St(a, l).at = a /\ St(a, l).left = l
    /\ \A a, l, b, m : St(a, l) = St(b, m) => a = b /\ l = m
    /\ \A p : Start(p) = St(<<>>, p)
BY DEF St, Start

LEMMA StepAtEnd == \A t, a : Step(t, St(a, <<>>)) = St(a, <<>>)
BY StIs DEF Step

LEMMA StepBelowFile ==
    ASSUME NEW t, NEW a, NEW l, At(t, a) # Dir
    PROVE  Step(t, St(a, l)) = St(a, l)
<1>1. \A w : w.at = a => Step(t, w) = w
    BY DEF Step
<1> QED BY <1>1, StIs

LEMMA StepUp ==
    ASSUME NEW t, NEW a, NEW l \in Seq(Parts), At(t, a) = Dir
    PROVE  Step(t, St(a, Cons("..", l))) = St(Parent(a), l)
<1> DEFINE c == Cons("..", l)
<1>1. c # <<>> /\ Head(c) = ".." /\ Tail(c) = l
    BY ConsTyped DEF Parts
<1> HIDE DEF c
<1>2. Step(t, St(a, c)) = St(Parent(a), l)
    BY <1>1, StIs DEF Step, St
<1> QED BY <1>2 DEF c

LEMMA StepName ==
    ASSUME NEW t, NEW a, NEW x \in Names, NEW l \in Seq(Parts), At(t, a) = Dir
    PROVE  LET node == At(t, Append(a, x))
               next == Step(t, St(a, Cons(x, l)))
           IN /\ node = Missing => next = St(a, Cons(x, l))
              /\ node \in {Dir, File} => next = St(Append(a, x), l)
              /\ node \in Nodes /\ node.kind = "link" =>
                     next = St(IF node.to.abs THEN <<>> ELSE a, Cat(node.to.parts, l))
<1> DEFINE c == Cons(x, l)
<1>1. c # <<>> /\ Head(c) = x /\ Tail(c) = l /\ x # ".."
    BY ConsTyped, GateAssumption DEF Parts
<1> HIDE DEF c
<1>2. ASSUME At(t, Append(a, x)) = Missing PROVE Step(t, St(a, c)) = St(a, c)
    <2>1. At(t, Append(a, x)).kind = "none"
        BY <1>2, KindOf
    <2>2. \A w : w.at = a /\ w.left = c => Step(t, w) = w
        BY <1>1, <1>2, <2>1 DEF Step
    <2> QED BY <2>2, StIs
<1>3. ASSUME At(t, Append(a, x)) \in {Dir, File}
      PROVE  Step(t, St(a, c)) = St(Append(a, x), l)
    <2>1. At(t, Append(a, x)).kind \in {"dir", "file"} /\ At(t, Append(a, x)) # Missing
        BY <1>3, KindOf
    <2> QED BY <1>1, <2>1, StIs DEF Step, St
<1>4. ASSUME At(t, Append(a, x)) \in Nodes, At(t, Append(a, x)).kind = "link"
      PROVE  Step(t, St(a, c)) = St(IF At(t, Append(a, x)).to.abs THEN <<>> ELSE a,
                                    Cat(At(t, Append(a, x)).to.parts, l))
    <2>1. At(t, Append(a, x)).kind \notin {"dir", "file"} /\ At(t, Append(a, x)) # Missing
        BY <1>4, KindOf
    <2> QED BY <1>1, <1>4, <2>1, StIs DEF Step, St, Cat
<1> QED BY <1>2, <1>3, <1>4 DEF c

\* A state is at its end or has a part in front of it.
LEMMA StateCases ==
    ASSUME NEW t, NEW w \in States(t)
    PROVE  \E a \in Here(t) : \/ w = St(a, <<>>)
                              \/ \E x \in Parts, l \in Seq(Parts) : w = St(a, Cons(x, l))
<1>1. PICK a \in Here(t), l \in Seq(Parts) : w = St(a, l)
    BY DEF States
<1>2. CASE l = <<>>
    BY <1>1, <1>2
<1>3. CASE l # <<>>
    <2>1. \E x \in Parts, m \in Seq(Parts) : l = Cons(x, m)
        BY <1>3, ConsOrEmpty
    <2> QED BY <1>1, <2>1
<1> QED BY <1>2, <1>3

LEMMA StateTyped ==
    ASSUME NEW t, NEW a \in Here(t), NEW l \in Seq(Parts)
    PROVE  St(a, l) \in States(t) /\ a \in Seq(Names) /\ a \in Places
BY PlaceIs DEF States, Here

LEMMA HereIs ==
    ASSUME NEW t, TreeOK(t)
    PROVE  /\ <<>> \in Here(t)
           /\ \A p : At(t, p) \in {Dir, File} => p \in Here(t)
           /\ \A p \in Here(t) : p \in Seq(Names) /\ At(t, p) \in {Dir, File}
           /\ \A p \in Here(t) : Parent(p) \in Here(t)
<1>1. Missing \notin {Dir, File}
    BY KindOf
<1>2. \A p : At(t, p) \in {Dir, File} => p \in Here(t)
    BY <1>1, AtTyped DEF Here
<1>3. <<>> \in Here(t)
    BY <1>2, AtTyped
<1>4. \A p \in Here(t) : p \in Seq(Names) /\ At(t, p) \in {Dir, File}
    BY PlaceIs DEF Here
<1>5. ASSUME NEW p \in Here(t) PROVE Parent(p) \in Here(t)
    <2>1. CASE p = <<>>
        BY <2>1, <1>3, ParentIs
    <2>2. CASE p # <<>>
        <3>1. p \in Places
            BY DEF Here
        <3>2. PICK q \in Places, x \in Names : p = Append(q, x) /\ Parent(p) = q
            BY <2>2, <3>1, PlaceCases
        <3>3. At(t, Append(q, x)) # Missing
            BY <1>1, <1>4, <3>2
        <3>4. q \in Seq(Names)
            BY PlaceIs
        <3>5. At(t, q) = Dir
            BY <3>3, <3>4 DEF TreeOK
        <3> QED BY <1>2, <3>2, <3>5
    <2> QED BY <2>1, <2>2
<1> QED BY <1>2, <1>3, <1>4, <1>5

LEMMA StepTyped ==
    ASSUME NEW t, TreeOK(t), NEW w \in States(t)
    PROVE  Step(t, w) \in States(t)
<1>1. PICK a \in Here(t) : \/ w = St(a, <<>>)
                           \/ \E x \in Parts, l \in Seq(Parts) : w = St(a, Cons(x, l))
    BY StateCases
<1>2. CASE w = St(a, <<>>)
    BY <1>2, StepAtEnd
<1>3. ASSUME NEW x \in Parts, NEW l \in Seq(Parts), w = St(a, Cons(x, l))
      PROVE  Step(t, w) \in States(t)
    <2>1. CASE At(t, a) # Dir
        BY <1>3, <2>1, StepBelowFile
    <2>2. CASE At(t, a) = Dir /\ x = ".."
        <3>1. Step(t, w) = St(Parent(a), l)
            BY <1>3, <2>2, StepUp
        <3>2. Parent(a) \in Here(t)
            BY HereIs
        <3> QED BY <3>1, <3>2, StateTyped
    <2>3. CASE At(t, a) = Dir /\ x # ".."
        <3> DEFINE node == At(t, Append(a, x))
        <3>1. node \in Nodes
            BY AtTyped
        <3>2. x \in Names
            BY <2>3 DEF Parts
        <3>3. /\ node = Missing => Step(t, w) = w
              /\ node \in {Dir, File} => Step(t, w) = St(Append(a, x), l)
              /\ node.kind = "link" =>
                     Step(t, w) = St(IF node.to.abs THEN <<>> ELSE a, Cat(node.to.parts, l))
            BY <1>3, <2>3, <3>1, <3>2, StepName
        <3>4. node \in {Dir, File} => Append(a, x) \in Here(t)
            BY HereIs
        <3>5. node = Missing \/ node \in {Dir, File} \/ (node.kind = "link" /\ node.to \in LinkTargets)
            BY <3>1, KindOf
        <3> HIDE DEF node
        <3>6. CASE node = Missing
            BY <3>3, <3>6
        <3>7. CASE node \in {Dir, File}
            BY <3>3, <3>4, <3>7, StateTyped
        <3>8. CASE node.kind = "link" /\ node.to \in LinkTargets
            <4>1. node.to.parts \in Seq(Parts)
                BY <3>8 DEF LinkTargets
            <4>2. Cat(node.to.parts, l) \in Seq(Parts)
                BY <4>1, CatTyped
            <4>3. (IF node.to.abs THEN <<>> ELSE a) \in Here(t)
                BY HereIs
            <4>4. St(IF node.to.abs THEN <<>> ELSE a, Cat(node.to.parts, l)) \in States(t)
                BY <4>2, <4>3, StateTyped
            <4> QED BY <3>3, <3>8, <4>4
        <3> QED BY <3>5, <3>6, <3>7, <3>8
    <2> QED BY <2>1, <2>2, <2>3
<1> QED BY <1>1, <1>2, <1>3

LEMMA AfterIs ==
    ASSUME NEW t, TreeOK(t), NEW w \in States(t)
    PROVE  /\ After(t, w) \in [Nat -> States(t)]
           /\ After(t, w)[0] = w
           /\ \A n \in Nat : After(t, w)[n + 1] = Step(t, After(t, w)[n])
<1> DEFINE S == States(t)
<1> DEFINE F == [n \in Nat |-> [s \in S |-> Step(t, s)]]
<1> DEFINE P(g) == g = [n \in Nat |-> IF n = 0 THEN w ELSE Step(t, g[n - 1])]
<1>1. \A n \in Nat \ {0}, s \in S : F[n][s] = Step(t, s) /\ Step(t, s) \in S
    BY StepTyped
<1>2. PICK g : g \in [Nat -> S] /\ g[0] = w /\ \A n \in Nat \ {0} : g[n] = F[n][g[n - 1]]
    <2> HIDE DEF F, S
    <2>1. w \in S
        BY DEF S
    <2>2. Within(F, S)
        BY <1>1 DEF Within
    <2>3. \E g : g \in Iteration(S, w, F)
        BY <2>1, <2>2, IterationExists
    <2> QED BY <2>3 DEF Iteration
<1>3. P(g)
    <2>1. \A n \in Nat \ {0} : g[n] = Step(t, g[n - 1])
        <3> HIDE DEF F, S
        <3> TAKE n \in Nat \ {0}
        <3>1. n - 1 \in Nat
            OBVIOUS
        <3> QED BY <1>1, <1>2, <3>1
    <2> HIDE DEF F, S
    <2> QED BY <1>2, <2>1
<1>4. After(t, w) = CHOOSE h : P(h)
    BY DEF After
<1>5. P(After(t, w))
    <2> HIDE DEF P
    <2> QED BY <1>3, <1>4
<1> DEFINE f == After(t, w)
<1>6. f[0] = w /\ \A n \in Nat \ {0} : f[n] = Step(t, f[n - 1])
    <2> HIDE DEF f
    <2>1. P(f)
        BY <1>5 DEF f
    <2> QED BY <2>1
<1>7. \A n \in Nat : f[n + 1] = Step(t, f[n])
    <2> HIDE DEF f
    <2> TAKE n \in Nat
    <2>1. n + 1 \in Nat \ {0} /\ (n + 1) - 1 = n
        OBVIOUS
    <2> QED BY <1>6, <2>1
<1>8. \A n \in Nat : f[n] \in S
    <2> DEFINE T == {n \in Nat : f[n] \in S}
    <2>1. 0 \in T
        BY <1>6
    <2>2. \A n \in Nat : n \in T => n + 1 \in T
        <3> HIDE DEF f
        <3> TAKE n \in Nat
        <3>1. f[n + 1] = Step(t, f[n])
            BY <1>7
        <3> QED BY <3>1, StepTyped
    <2>3. \A n \in Nat : n \in T
        <3> HIDE DEF T
        <3> QED BY <2>1, <2>2, Induct
    <2> QED BY <2>3
<1>9. f \in [Nat -> S]
    <2>1. f = [n \in Nat |-> IF n = 0 THEN w ELSE Step(t, f[n - 1])]
        BY <1>5
    <2> HIDE DEF f, S
    <2>2. DOMAIN f = Nat
        BY <2>1
    <2> QED BY <2>1, <2>2, <1>8
<1> HIDE DEF f
<1>10. f \in [Nat -> S] /\ f[0] = w /\ \A n \in Nat : f[n + 1] = Step(t, f[n])
    BY <1>6, <1>7, <1>9
<1> QED BY <1>10 DEF f

LEMMA AfterAdd ==
    ASSUME NEW t, TreeOK(t), NEW w \in States(t), NEW m \in Nat, NEW n \in Nat
    PROVE  After(t, w)[m + n] = After(t, After(t, w)[m])[n]
<1> DEFINE v == After(t, w)[m]
<1> DEFINE T == {k \in Nat : After(t, w)[m + k] = After(t, v)[k]}
<1>1. v \in States(t)
    BY AfterIs
<1>2. 0 \in T
    <2>1. After(t, v)[0] = v
        BY <1>1, AfterIs
    <2>2. m + 0 = m
        OBVIOUS
    <2> QED BY <2>1, <2>2
<1>3. ASSUME NEW k \in Nat, k \in T PROVE k + 1 \in T
    <2>1. m + k \in Nat /\ m + (k + 1) = (m + k) + 1
        OBVIOUS
    <2>2. After(t, w)[(m + k) + 1] = Step(t, After(t, w)[m + k])
        BY <2>1, AfterIs
    <2>3. After(t, v)[k + 1] = Step(t, After(t, v)[k])
        BY <1>1, AfterIs
    <2>4. After(t, w)[m + k] = After(t, v)[k]
        BY <1>3
    <2> QED BY <2>1, <2>2, <2>3, <2>4
<1>4. n \in T
    <2> HIDE DEF T
    <2> QED BY <1>2, <1>3, Induct
<1> QED BY <1>4

LEMMA AfterFix ==
    ASSUME NEW t, TreeOK(t), NEW w \in States(t), Step(t, w) = w, NEW n \in Nat
    PROVE  After(t, w)[n] = w
<1> DEFINE T == {k \in Nat : After(t, w)[k] = w}
<1>1. 0 \in T
    BY AfterIs
<1>2. ASSUME NEW k \in Nat, k \in T PROVE k + 1 \in T
    <2>1. After(t, w)[k + 1] = Step(t, After(t, w)[k])
        BY AfterIs
    <2> QED BY <1>2, <2>1
<1>3. n \in T
    <2> HIDE DEF T
    <2> QED BY <1>1, <1>2, Induct
<1> QED BY <1>3

\* Where it rests it stays.
LEMMA AfterRest ==
    ASSUME NEW t, TreeOK(t), NEW w \in States(t), NEW m \in Nat, NEW n \in Nat, m <= n,
           Step(t, After(t, w)[m]) = After(t, w)[m]
    PROVE  After(t, w)[n] = After(t, w)[m]
<1>1. n - m \in Nat /\ m + (n - m) = n
    OBVIOUS
<1>2. After(t, w)[m] \in States(t)
    BY AfterIs
<1>3. After(t, After(t, w)[m])[n - m] = After(t, w)[m]
    BY <1>1, <1>2, AfterFix
<1>4. After(t, w)[m + (n - m)] = After(t, After(t, w)[m])[n - m]
    BY <1>1, AfterAdd
<1> QED BY <1>1, <1>3, <1>4

\* A walk that has arrived.
LEMMA AfterEnd ==
    ASSUME NEW t, TreeOK(t), NEW w \in States(t), NEW m \in Nat, NEW n \in Nat, m <= n,
           After(t, w)[m].left = <<>>
    PROVE  After(t, w)[n] = After(t, w)[m]
<1>1. \A v \in States(t) : v.left = <<>> => Step(t, v) = v
    <2> TAKE v \in States(t)
    <2>1. PICK a \in Here(t), l \in Seq(Parts) : v = St(a, l)
        BY DEF States
    <2>2. v.left = l
        BY <2>1, StIs
    <2> QED BY <2>1, <2>2, StepAtEnd
<1>2. After(t, w)[m] \in States(t)
    BY AfterIs
<1>3. Step(t, After(t, w)[m]) = After(t, w)[m]
    BY <1>1, <1>2
<1> QED BY <1>3, AfterRest

-----------------------------------------------------------------------------
(* A walk along a path and the same walk with more parts behind.           *)

More(w, q) == St(w.at, Cat(w.left, q))

LEMMA StateIs ==
    ASSUME NEW t, NEW w \in States(t)
    PROVE  w.at \in Here(t) /\ w.left \in Seq(Parts) /\ w = St(w.at, w.left)
BY StIs DEF States

LEMMA MoreTyped ==
    ASSUME NEW t, NEW w \in States(t), NEW q \in Seq(Parts)
    PROVE  /\ More(w, q) \in States(t)
           /\ w.left = <<>> => More(w, q) = St(w.at, q)
<1>1. w.at \in Here(t) /\ w.left \in Seq(Parts)
    BY StateIs
<1>2. Cat(w.left, q) \in Seq(Parts) /\ Cat(<<>>, q) = q
    BY <1>1, CatTyped, CatEmpty
<1> QED BY <1>1, <1>2 DEF More, States

LEMMA StepMore ==
    ASSUME NEW t, TreeOK(t), NEW w \in States(t), w.left # <<>>, NEW q \in Seq(Parts)
    PROVE  Step(t, More(w, q)) = More(Step(t, w), q)
<1>1. PICK a \in Here(t), x \in Parts, l \in Seq(Parts) : w = St(a, Cons(x, l))
    BY StateCases, StIs
<1>2. /\ Cat(Cons(x, l), q) = Cons(x, Cat(l, q)) /\ Cat(l, q) \in Seq(Parts)
      /\ Cons(x, l) \in Seq(Parts)
    BY ConsCat, CatTyped, ConsTyped
<1>3. More(w, q) = St(a, Cons(x, Cat(l, q)))
    BY <1>1, <1>2, StIs DEF More
<1>4. \A b, m : More(St(b, m), q) = St(b, Cat(m, q))
    BY StIs DEF More
<1>5. CASE At(t, a) # Dir
    BY <1>1, <1>3, <1>5, StepBelowFile
<1>6. CASE At(t, a) = Dir /\ x = ".."
    <2>1. Step(t, w) = St(Parent(a), l)
        BY <1>1, <1>6, StepUp
    <2>2. Step(t, More(w, q)) = St(Parent(a), Cat(l, q))
        BY <1>2, <1>3, <1>6, StepUp
    <2> QED BY <2>1, <2>2, <1>4
<1>7. CASE At(t, a) = Dir /\ x # ".."
    <2> DEFINE node == At(t, Append(a, x))
    <2>1. node \in Nodes
        BY AtTyped
    <2>2. x \in Names
        BY <1>7 DEF Parts
    <2>3. /\ node = Missing => Step(t, w) = w
          /\ node \in {Dir, File} => Step(t, w) = St(Append(a, x), l)
          /\ node.kind = "link" =>
                 Step(t, w) = St(IF node.to.abs THEN <<>> ELSE a, Cat(node.to.parts, l))
        BY <1>1, <1>7, <2>1, <2>2, StepName
    <2>4. /\ node = Missing => Step(t, More(w, q)) = More(w, q)
          /\ node \in {Dir, File} => Step(t, More(w, q)) = St(Append(a, x), Cat(l, q))
          /\ node.kind = "link" =>
                 Step(t, More(w, q)) =
                     St(IF node.to.abs THEN <<>> ELSE a, Cat(node.to.parts, Cat(l, q)))
        BY <1>2, <1>3, <1>7, <2>1, <2>2, StepName
    <2>5. node = Missing \/ node \in {Dir, File} \/ (node.kind = "link" /\ node.to \in LinkTargets)
        BY <2>1, KindOf
    <2> HIDE DEF node
    <2>6. CASE node = Missing
        BY <2>3, <2>4, <2>6
    <2>7. CASE node \in {Dir, File}
        BY <2>3, <2>4, <2>7, <1>4
    <2>8. CASE node.kind = "link" /\ node.to \in LinkTargets
        <3>1. node.to.parts \in Seq(Parts)
            BY <2>8 DEF LinkTargets
        <3>2. Cat(Cat(node.to.parts, l), q) = Cat(node.to.parts, Cat(l, q))
            BY <3>1, CatAssoc
        <3> QED BY <2>3, <2>4, <2>8, <3>2, <1>4
    <2> QED BY <2>5, <2>6, <2>7, <2>8
<1> QED BY <1>5, <1>6, <1>7

LEMMA MoreCancel ==
    ASSUME NEW t, NEW v \in States(t), NEW w \in States(t), NEW q \in Seq(Parts), More(v, q) = More(w, q)
    PROVE  v = w
<1>1. v.left \in Seq(Parts) /\ w.left \in Seq(Parts) /\ v = St(v.at, v.left) /\ w = St(w.at, w.left)
    BY StateIs
<1>2. v.at = w.at /\ Cat(v.left, q) = Cat(w.left, q)
    BY StIs DEF More
<1>3. v.left = w.left
    BY <1>1, <1>2, CatCancel
<1> QED BY <1>1, <1>2, <1>3

\* As long as it has not arrived, the parts behind are left alone.
LEMMA AfterMore ==
    ASSUME NEW t, TreeOK(t), NEW w \in States(t), NEW q \in Seq(Parts), NEW n \in Nat
    PROVE  After(t, w)[n].left # <<>> => After(t, More(w, q))[n] = More(After(t, w)[n], q)
<1> DEFINE f == After(t, w)
<1> DEFINE g == After(t, More(w, q))
<1> DEFINE T == {k \in Nat : f[k].left # <<>> => g[k] = More(f[k], q)}
<1>1. More(w, q) \in States(t)
    BY MoreTyped
<1>2. /\ f[0] = w /\ \A k \in Nat : f[k + 1] = Step(t, f[k]) /\ f[k] \in States(t)
      /\ g[0] = More(w, q) /\ \A k \in Nat : g[k + 1] = Step(t, g[k])
    BY <1>1, AfterIs
<1>3. \A k \in Nat : f[k].left = <<>> => f[k + 1].left = <<>>
    <2> TAKE k \in Nat
    <2>1. k + 1 \in Nat /\ k <= k + 1
        OBVIOUS
    <2> QED BY <2>1, AfterEnd
<1>4. 0 \in T
    BY <1>2
<1>5. ASSUME NEW k \in Nat, k \in T PROVE k + 1 \in T
    <2> HIDE DEF f, g
    <2> SUFFICES ASSUME f[k + 1].left # <<>> PROVE g[k + 1] = More(f[k + 1], q)
        OBVIOUS
    <2>1. f[k].left # <<>>
        BY <1>3
    <2>2. g[k] = More(f[k], q)
        BY <1>5, <2>1
    <2>3. Step(t, More(f[k], q)) = More(Step(t, f[k]), q)
        BY <1>2, <2>1, StepMore
    <2> QED BY <1>2, <2>2, <2>3
<1>6. n \in T
    <2> HIDE DEF T
    <2> QED BY <1>4, <1>5, Induct
<1> QED BY <1>6

\* Once it has, they are what is left.
LEMMA AfterThrough ==
    ASSUME NEW t, TreeOK(t), NEW w \in States(t), NEW q \in Seq(Parts), NEW n \in Nat,
           After(t, w)[n].left = <<>>
    PROVE  \E m \in Nat : m <= n /\ After(t, More(w, q))[m] = St(After(t, w)[n].at, q)
<1> DEFINE f == After(t, w)
<1> DEFINE g == After(t, More(w, q))
<1> DEFINE T == {k \in Nat : f[k].left = <<>> => \E m \in Nat : m <= k /\ g[m] = St(f[k].at, q)}
<1>1. More(w, q) \in States(t)
    BY MoreTyped
<1>2. /\ f[0] = w /\ \A k \in Nat : f[k + 1] = Step(t, f[k]) /\ f[k] \in States(t)
      /\ g[0] = More(w, q) /\ \A k \in Nat : g[k + 1] = Step(t, g[k])
    BY <1>1, AfterIs
<1>3. \A k \in Nat : f[k].left = <<>> => f[k + 1] = f[k]
    <2> TAKE k \in Nat
    <2>1. k + 1 \in Nat /\ k <= k + 1
        OBVIOUS
    <2> QED BY <2>1, AfterEnd
<1>4. \A v \in States(t) : v.left = <<>> => More(v, q) = St(v.at, q)
    BY MoreTyped
<1>5. 0 \in T
    <2> HIDE DEF f, g
    <2>1. f[0].left = <<>> => g[0] = St(f[0].at, q)
        BY <1>2, <1>4
    <2>2. 0 <= 0
        OBVIOUS
    <2> QED BY <2>1, <2>2
<1>6. \A k \in Nat : f[k].left # <<>> => g[k] = More(f[k], q)
    BY AfterMore
<1>7. ASSUME NEW k \in Nat, k \in T PROVE k + 1 \in T
    <2> HIDE DEF f, g
    <2> SUFFICES ASSUME f[k + 1].left = <<>>
                 PROVE  \E m \in Nat : m <= k + 1 /\ g[m] = St(f[k + 1].at, q)
        OBVIOUS
    <2>1. CASE f[k].left = <<>>
        <3>1. f[k + 1] = f[k]
            BY <2>1, <1>3
        <3>2. PICK m \in Nat : m <= k /\ g[m] = St(f[k].at, q)
            BY <1>7, <2>1
        <3>3. m <= k + 1
            BY <3>2
        <3> QED BY <3>1, <3>2, <3>3
    <2>2. CASE f[k].left # <<>>
        <3>1. g[k] = More(f[k], q)
            BY <2>2, <1>6
        <3>2. Step(t, More(f[k], q)) = More(Step(t, f[k]), q)
            BY <1>2, <2>2, StepMore
        <3>3. g[k + 1] = More(f[k + 1], q)
            BY <1>2, <3>1, <3>2
        <3>4. k + 1 \in Nat /\ k + 1 <= k + 1
            OBVIOUS
        <3>5. More(f[k + 1], q) = St(f[k + 1].at, q)
            BY <1>2, <1>4, <3>4
        <3> QED BY <3>3, <3>4, <3>5
    <2> QED BY <2>1, <2>2
<1>8. n \in T
    <2> HIDE DEF T
    <2> QED BY <1>5, <1>7, Induct
<1> HIDE DEF f, g
<1>9. \E m \in Nat : m <= n /\ g[m] = St(f[n].at, q)
    <2>1. f[n].left = <<>>
        BY DEF f
    <2> QED BY <1>8, <2>1
<1> QED BY <1>9 DEF f, g

-----------------------------------------------------------------------------
(* Paths with no link on them.                                             *)

NoLinkOn(t, p) == \A q, r \in Seq(Names) : p = Cat(q, r) => At(t, q).kind # "link"

LEMMA NamesAreParts == \A p \in Seq(Names) : p \in Seq(Parts)
<1>1. Names \subseteq Parts
    BY DEF Parts
<1> QED BY <1>1, SeqMonotonic

\* The walk goes down the path as it is written.
LEMMA PlainStep ==
    ASSUME NEW t, TreeOK(t), NEW p, NoLinkOn(t, p),
           NEW a \in Here(t), NEW l \in Seq(Names), Cat(a, l) = p
    PROVE  \E b \in Here(t), m \in Seq(Names) : Step(t, St(a, l)) = St(b, m) /\ Cat(b, m) = p
<1>1. CASE l = <<>>
    BY <1>1, StepAtEnd
<1>2. ASSUME NEW x \in Names, NEW k \in Seq(Names), l = Cons(x, k)
      PROVE  \E b \in Here(t), m \in Seq(Names) : Step(t, St(a, l)) = St(b, m) /\ Cat(b, m) = p
    <2> DEFINE node == At(t, Append(a, x))
    <2>1. node \in Nodes
        BY AtTyped
    <2>2. a \in Seq(Names)
        BY HereIs
    <2>3. Append(a, x) \in Seq(Names) /\ Cat(Append(a, x), k) = p
        BY <1>2, <2>2, AppendCat
    <2>4. node.kind # "link"
        BY <2>3 DEF NoLinkOn
    <2>5. node = Missing \/ node \in {Dir, File}
        BY <2>1, <2>4, KindOf
    <2>6. CASE At(t, a) # Dir
        BY <2>6, StepBelowFile
    <2>7. CASE At(t, a) = Dir
        <3>1. k \in Seq(Parts)
            BY NamesAreParts
        <3>2. /\ node = Missing => Step(t, St(a, l)) = St(a, l)
              /\ node \in {Dir, File} => Step(t, St(a, l)) = St(Append(a, x), k)
            BY <1>2, <2>7, <3>1, StepName
        <3>3. node \in {Dir, File} => Append(a, x) \in Here(t)
            BY HereIs
        <3> QED BY <2>3, <2>5, <3>2, <3>3
    <2> QED BY <2>6, <2>7
<1>3. l # <<>> => \E x \in Names, k \in Seq(Names) : l = Cons(x, k)
    BY ConsOrEmpty
<1> QED BY <1>1, <1>2, <1>3

LEMMA PlainWalk ==
    ASSUME NEW t, TreeOK(t), NEW p, NoLinkOn(t, p),
           NEW a \in Here(t), NEW l \in Seq(Names), Cat(a, l) = p, NEW n \in Nat
    PROVE  \E b \in Here(t), m \in Seq(Names) : After(t, St(a, l))[n] = St(b, m) /\ Cat(b, m) = p
<1> DEFINE f == After(t, St(a, l))
<1> DEFINE T == {k \in Nat : \E b \in Here(t), m \in Seq(Names) : f[k] = St(b, m) /\ Cat(b, m) = p}
<1>1. St(a, l) \in States(t)
    BY NamesAreParts, StateTyped
<1>2. f[0] = St(a, l) /\ \A k \in Nat : f[k + 1] = Step(t, f[k])
    BY <1>1, AfterIs
<1>3. 0 \in T
    BY <1>2
<1>4. ASSUME NEW k \in Nat, k \in T PROVE k + 1 \in T
    <2> HIDE DEF f
    <2>1. PICK b \in Here(t), m \in Seq(Names) : f[k] = St(b, m) /\ Cat(b, m) = p
        BY <1>4
    <2>2. PICK c \in Here(t), j \in Seq(Names) : Step(t, St(b, m)) = St(c, j) /\ Cat(c, j) = p
        BY <2>1, PlainStep
    <2>3. f[k + 1] = Step(t, f[k])
        BY <1>2
    <2>4. \E b1 \in Here(t), m1 \in Seq(Names) : f[k + 1] = St(b1, m1) /\ Cat(b1, m1) = p
        BY <2>1, <2>2, <2>3
    <2> QED BY <2>4
<1>5. n \in T
    <2> HIDE DEF T
    <2> QED BY <1>3, <1>4, Induct
<1> QED BY <1>5

\* What canonicalize gives.
LEMMA WalkTyped ==
    ASSUME NEW t, TreeOK(t), NEW p \in Seq(Parts)
    PROVE  /\ Walk(t, p) = After(t, St(<<>>, p))[MaxSteps] /\ MaxSteps \in Nat
           /\ St(<<>>, p) \in States(t)
           /\ Walk(t, p) \in States(t)
<1>1. <<>> \in Here(t)
    BY HereIs
<1>2. St(<<>>, p) \in States(t)
    BY <1>1, StateTyped
<1>3. MaxSteps \in Nat
    BY GateAssumption
<1>4. Walk(t, p) = After(t, St(<<>>, p))[MaxSteps]
    BY StIs DEF Walk
<1> QED BY <1>2, <1>3, <1>4, AfterIs

LEMMA FailsIsNoPath == Fails \notin Seq(Names)
<1> SUFFICES ASSUME Fails \in Seq(Names) PROVE FALSE
    OBVIOUS
<1>1. Fails[1] = ".." /\ Len(Fails) = 1
    BY DEF Fails
<1>2. Fails[1] \in Names
    <2>1. 1 \in 1..Len(Fails)
        BY <1>1
    <2> HIDE DEF Fails
    <2> QED BY <2>1, ElementOfSeq
<1> QED BY <1>1, <1>2, GateAssumption

LEMMA CanonicalizeIs ==
    ASSUME NEW t, TreeOK(t), NEW p \in Seq(Parts)
    PROVE  /\ Canonicalize(t, p) # Fails <=> Walk(t, p).left = <<>>
           /\ Canonicalize(t, p) # Fails =>
                /\ Canonicalize(t, p) \in Here(t)
                /\ Walk(t, p) = St(Canonicalize(t, p), <<>>)
<1>1. /\ Walk(t, p).at \in Here(t)
      /\ Walk(t, p) = St(Walk(t, p).at, Walk(t, p).left)
    BY WalkTyped, StateIs
<1>2. Walk(t, p).at # Fails
    BY <1>1, HereIs, FailsIsNoPath
<1>3. Walk(t, p).left = <<>> => Canonicalize(t, p) = Walk(t, p).at
    BY DEF Canonicalize
<1>4. Walk(t, p).left # <<>> => Canonicalize(t, p) = Fails
    BY DEF Canonicalize
<1> QED BY <1>1, <1>2, <1>3, <1>4

LEMMA CanonicalizeRoot ==
    ASSUME NEW t, TreeOK(t)
    PROVE  Canonicalize(t, <<>>) # Fails
<1>1. <<>> \in Seq(Parts)
    BY EmptyTyped
<1>2. /\ Walk(t, <<>>) = After(t, St(<<>>, <<>>))[MaxSteps] /\ MaxSteps \in Nat
      /\ St(<<>>, <<>>) \in States(t)
    BY <1>1, WalkTyped
<1>3. Step(t, St(<<>>, <<>>)) = St(<<>>, <<>>)
    BY StepAtEnd
<1>4. Walk(t, <<>>) = St(<<>>, <<>>)
    BY <1>2, <1>3, AfterFix
<1>5. Walk(t, <<>>).left = <<>>
    BY <1>4, StIs
<1> QED BY <1>1, <1>5, CanonicalizeIs

-----------------------------------------------------------------------------
(* The deepest ancestor that is there.                                     *)

LEMMA GreatestExists ==
    ASSUME NEW n \in Nat, NEW S, S \subseteq 0..n, 0 \in S
    PROVE  \E m \in S : \A k \in S : k <= m
<1> DEFINE T == {b \in Nat : \E m \in S : m <= b /\ \A k \in S : k <= b => k <= m}
<1>1. 0 \in T
    <2>1. \A k \in S : k <= 0 => k <= 0
        OBVIOUS
    <2> QED BY <2>1
<1>2. ASSUME NEW b \in Nat, b \in T PROVE b + 1 \in T
    <2>1. PICK m \in S : m <= b /\ \A k \in S : k <= b => k <= m
        BY <1>2
    <2>2. CASE b + 1 \in S
        <3>1. b + 1 <= b + 1 /\ \A k \in S : k <= b + 1 => k <= b + 1
            OBVIOUS
        <3> QED BY <2>2, <3>1
    <2>3. CASE b + 1 \notin S
        <3>1. \A k \in S : k <= b + 1 => k <= b
            BY <2>3
        <3>2. m <= b + 1
            BY <2>1
        <3> QED BY <2>1, <3>1, <3>2
    <2> QED BY <2>2, <2>3
<1>3. n \in T
    <2> HIDE DEF T
    <2> QED BY <1>1, <1>2, Induct
<1>4. \A k \in S : k <= n
    OBVIOUS
<1> QED BY <1>3, <1>4

\* A path cut in two.
FirstOf(p, d) == SubSeq(p, 1, d)
RestOf(p, d) == SubSeq(p, d + 1, Len(p))

LEMMA CutInTwo ==
    ASSUME NEW S, NEW p \in Seq(S), NEW d \in 0..Len(p)
    PROVE  /\ FirstOf(p, d) \in Seq(S) /\ RestOf(p, d) \in Seq(S)
           /\ p = Cat(FirstOf(p, d), RestOf(p, d))
           /\ d = Len(p) => RestOf(p, d) = <<>>
           /\ d # Len(p) => \E x \in S, k \in Seq(S) :
                                RestOf(p, d) = Cons(x, k) /\ FirstOf(p, d + 1) = Append(FirstOf(p, d), x)
<1>1. Len(p) \in Nat /\ \A i \in 1..Len(p) : p[i] \in S
    BY LenProperties, ElementOfSeq
<1>2. \A m, n \in Nat : 1 <= m /\ n <= Len(p) => SubSeq(p, m, n) \in Seq(S)
    <2> TAKE m, n \in Nat
    <2> SUFFICES ASSUME 1 <= m, n <= Len(p) PROVE SubSeq(p, m, n) \in Seq(S)
        OBVIOUS
    <2>1. m \in Int /\ n \in Int /\ \A i \in m..n : p[i] \in S
        BY <1>1
    <2> QED BY <2>1, SubSeqProperties
<1>3. SubSeq(p, 1, d) \in Seq(S) /\ SubSeq(p, d + 1, Len(p)) \in Seq(S)
    <2>1. d \in Nat /\ d + 1 \in Nat /\ 1 <= d + 1 /\ d <= Len(p)
        BY <1>1
    <2> QED BY <1>1, <1>2, <2>1
<1>4. p = Cat(SubSeq(p, 1, d), SubSeq(p, d + 1, Len(p)))
    <2>1. 1 \in 1..(Len(p) + 1) /\ d \in (1 - 1)..Len(p) /\ Len(p) \in d..Len(p)
        BY <1>1
    <2>2. SubSeq(p, 1, d) \o SubSeq(p, d + 1, Len(p)) = SubSeq(p, 1, Len(p))
        BY <2>1, ConcatAdjacentSubSeq
    <2> QED BY <2>2, SubSeqFull DEF Cat
<1>5. ASSUME d = Len(p) PROVE SubSeq(p, d + 1, Len(p)) = <<>>
    <2>1. d + 1 \in Int /\ Len(p) \in Int /\ Len(p) < d + 1
        BY <1>1, <1>5
    <2> QED BY <2>1, SubSeqEmpty
<1>6. ASSUME d # Len(p)
      PROVE  \E x \in S, k \in Seq(S) : /\ SubSeq(p, d + 1, Len(p)) = Cons(x, k)
                                        /\ SubSeq(p, 1, d + 1) = Append(SubSeq(p, 1, d), x)
    <2>1. d + 1 \in 1..Len(p) /\ Len(p) \in (d + 1)..Len(p) /\ (d + 1) + 1 \in Nat /\ 1 <= (d + 1) + 1
        BY <1>1, <1>6
    <2>2. SubSeq(p, d + 1, Len(p)) = <<p[d + 1]>> \o SubSeq(p, (d + 1) + 1, Len(p))
        BY <2>1, SubSeqRecursiveFirst
    <2>3. 1 \in 1..Len(p) /\ d + 1 \in 1..Len(p) /\ (d + 1) - 1 = d
        BY <1>1, <2>1
    <2>4. SubSeq(p, 1, d + 1) = SubSeq(p, 1, (d + 1) - 1) \o <<p[d + 1]>>
        BY <2>3, SubSeqRecursiveSecond
    <2>5. p[d + 1] \in S /\ SubSeq(p, (d + 1) + 1, Len(p)) \in Seq(S)
        BY <1>1, <1>2, <2>1
    <2>6. Append(SubSeq(p, 1, d), p[d + 1]) = SubSeq(p, 1, d) \o <<p[d + 1]>>
        BY <1>3, <2>5, AppendIsConcat
    <2>7. SubSeq(p, 1, d + 1) = Append(SubSeq(p, 1, d), p[d + 1])
        BY <2>3, <2>4, <2>6
    <2> QED BY <2>2, <2>5, <2>7 DEF Cons
<1> QED BY <1>3, <1>4, <1>5, <1>6 DEF FirstOf, RestOf

LEMMA DeepestIs ==
    ASSUME NEW t, TreeOK(t), NEW p \in Seq(Names)
    PROVE  \E q, r \in Seq(Names) :
               /\ p = Cat(q, r) /\ Canonicalize(t, q) # Fails
               /\ CanonicalizeDeepest(t, p) = Cat(Canonicalize(t, q), r)
               /\ r # <<>> => \E x \in Names, k \in Seq(Names) :
                                 r = Cons(x, k) /\ Canonicalize(t, Append(q, x)) = Fails
<1> DEFINE there == {n \in 0..Len(p) : Canonicalize(t, SubSeq(p, 1, n)) # Fails}
<1> DEFINE d == CHOOSE n \in there : \A m \in there : m <= n
<1>1. Len(p) \in Nat
    BY LenProperties
<1>2. 0 \in there
    <2>1. SubSeq(p, 1, 0) = <<>>
        BY SubSeqEmpty
    <2>2. Canonicalize(t, SubSeq(p, 1, 0)) # Fails
        BY <2>1, CanonicalizeRoot
    <2> QED BY <1>1, <2>2
<1>3. d \in there /\ \A m \in there : m <= d
    <2>1. there \subseteq 0..Len(p)
        OBVIOUS
    <2> HIDE DEF there
    <2>2. \E n \in there : \A m \in there : m <= n
        BY <1>1, <1>2, <2>1, GreatestExists
    <2> QED BY <2>2
<1> DEFINE q == FirstOf(p, d)
<1> DEFINE r == RestOf(p, d)
<1>4. CanonicalizeDeepest(t, p) = Cat(Canonicalize(t, q), r)
    BY DEF CanonicalizeDeepest, Cat, FirstOf, RestOf
<1>5. d \in 0..Len(p) /\ Canonicalize(t, q) # Fails
    <2>1. \A n \in there : n \in 0..Len(p) /\ Canonicalize(t, SubSeq(p, 1, n)) # Fails
        OBVIOUS
    <2> HIDE DEF there, d
    <2> QED BY <1>3, <2>1 DEF FirstOf
<1>6. d # Len(p) => Canonicalize(t, FirstOf(p, d + 1)) = Fails
    <2> SUFFICES ASSUME d # Len(p), Canonicalize(t, FirstOf(p, d + 1)) # Fails PROVE FALSE
        OBVIOUS
    <2>1. \A n \in 0..Len(p) : Canonicalize(t, FirstOf(p, n)) # Fails => n \in there
        BY DEF FirstOf
    <2> HIDE DEF there, d
    <2>2. d + 1 \in 0..Len(p)
        BY <1>1, <1>5
    <2>3. d + 1 \in there
        BY <2>1, <2>2
    <2> QED BY <1>3, <1>5, <2>3
<1> HIDE DEF there, d
<1>7. /\ q \in Seq(Names) /\ r \in Seq(Names) /\ p = Cat(q, r)
      /\ d = Len(p) => r = <<>>
      /\ d # Len(p) => \E x \in Names, k \in Seq(Names) :
                           r = Cons(x, k) /\ FirstOf(p, d + 1) = Append(q, x)
    BY <1>5, CutInTwo
<1>8. r # <<>> => \E x \in Names, k \in Seq(Names) :
                     r = Cons(x, k) /\ Canonicalize(t, Append(q, x)) = Fails
    BY <1>6, <1>7
<1> HIDE DEF q, r
<1> QED BY <1>4, <1>5, <1>7, <1>8

\* A path with no link on it is resolved, and lands, as it is written.
LEMMA NoLinkOnFirst ==
    ASSUME NEW t, NEW p, NoLinkOn(t, p), NEW q \in Seq(Names), NEW r \in Seq(Names), p = Cat(q, r)
    PROVE  NoLinkOn(t, q)
<1> SUFFICES ASSUME NEW q1 \in Seq(Names), NEW r1 \in Seq(Names), q = Cat(q1, r1)
             PROVE  At(t, q1).kind # "link"
    BY DEF NoLinkOn
<1>1. p = Cat(q1, Cat(r1, r)) /\ Cat(r1, r) \in Seq(Names)
    BY CatAssoc, CatTyped
<1> QED BY <1>1 DEF NoLinkOn

LEMMA PlainWalkFromRoot ==
    ASSUME NEW t, TreeOK(t), NEW p \in Seq(Names), NoLinkOn(t, p)
    PROVE  \E b \in Here(t), m \in Seq(Names) : Walk(t, p) = St(b, m) /\ Cat(b, m) = p
<1>1. <<>> \in Here(t) /\ Cat(<<>>, p) = p
    BY HereIs, CatEmpty
<1>2. Walk(t, p) = After(t, St(<<>>, p))[MaxSteps] /\ MaxSteps \in Nat
    BY NamesAreParts, WalkTyped
<1> QED BY <1>1, <1>2, PlainWalk

LEMMA PlainResolves ==
    ASSUME NEW t, TreeOK(t), NEW p \in Seq(Names), NoLinkOn(t, p)
    PROVE  CanonicalizeDeepest(t, p) = p /\ Lands(t, p) = p
<1>1. PICK q \in Seq(Names), r \in Seq(Names) :
          /\ p = Cat(q, r) /\ Canonicalize(t, q) # Fails
          /\ CanonicalizeDeepest(t, p) = Cat(Canonicalize(t, q), r)
    BY DeepestIs
<1>2. NoLinkOn(t, q)
    BY <1>1, NoLinkOnFirst
<1>3. PICK b \in Here(t), m \in Seq(Names) : Walk(t, q) = St(b, m) /\ Cat(b, m) = q
    BY <1>2, PlainWalkFromRoot
<1>4. Walk(t, q) = St(Canonicalize(t, q), <<>>)
    BY <1>1, NamesAreParts, CanonicalizeIs
<1>5. Canonicalize(t, q) = b /\ m = <<>>
    <2>1. St(Canonicalize(t, q), <<>>) = St(b, m)
        BY <1>3, <1>4
    <2> QED BY <2>1, StIs
<1>6. b \in Seq(Names)
    BY HereIs
<1>7. Canonicalize(t, q) = q
    BY <1>3, <1>5, <1>6, CatEmpty
<1>8. PICK c \in Here(t), l \in Seq(Names) : Walk(t, p) = St(c, l) /\ Cat(c, l) = p
    BY PlainWalkFromRoot
<1>9. Lands(t, p) = Cat(c, l)
    <2>1. Lands(t, p) = Cat(Walk(t, p).at, Walk(t, p).left)
        BY DEF Lands, Cat
    <2> QED BY <1>8, <2>1, StIs
<1> QED BY <1>1, <1>7, <1>8, <1>9

-----------------------------------------------------------------------------
(* The joined path.                                                        *)

LEMMA RequestIs ==
    ASSUME NEW asked \in Requests
    PROVE  asked.parts \in Seq(Parts) /\ asked.abs \in BOOLEAN
<1> DEFINE parts == UNION {[1..n -> Names \cup {".."}] : n \in 0..MaxParts}
<1>1. \A p \in parts : p \in Seq(Parts)
    <2> TAKE p \in parts
    <2>1. PICK n \in 0..MaxParts : p \in [1..n -> Parts]
        BY DEF Parts
    <2>2. n \in Nat
        BY FilesAssumption
    <2> QED BY <2>1, <2>2, SeqDef
<1>2. \E p \in parts : asked = Abs(p) \/ asked = Rel(p)
    BY DEF Requests
<1> HIDE DEF parts
<1>3. \A p : Abs(p).parts = p /\ Rel(p).parts = p /\ Abs(p).abs = TRUE /\ Rel(p).abs = FALSE
    BY DEF Abs, Rel
<1> QED BY <1>1, <1>2, <1>3

LEMMA PushedTyped ==
    ASSUME NEW p \in Seq(Names), NEW x \in Parts
    PROVE  Pushed(p, x) \in Seq(Names)
<1>1. CASE x = ".."
    <2>1. Pushed(p, x) = Parent(p)
        BY <1>1 DEF Pushed
    <2>2. CASE p = <<>>
        BY <2>1, <2>2, ParentIs
    <2>3. CASE p # <<>>
        <3>1. \E q \in Seq(Names), y \in Names : p = Append(q, y)
            BY <2>3, SequenceEmptyOrAppend
        <3> QED BY <2>1, <3>1, ParentIs
    <2> QED BY <2>2, <2>3
<1>2. CASE x \in Names
    <2>1. x # "." /\ x # ".."
        BY <1>2, GateAssumption
    <2>2. Pushed(p, x) = Append(p, x)
        BY <2>1 DEF Pushed
    <2> QED BY <1>2, <2>2, AppendProperties
<1> QED BY <1>1, <1>2 DEF Parts

LEMMA JoinTyped ==
    ASSUME NEW root \in Seq(Names), NEW asked \in Requests
    PROVE  JoinLikeUpstream(root, asked) \in Seq(Names)
<1> DEFINE L == Len(asked.parts)
<1> DEFINE x == IF asked.abs THEN <<>> ELSE root
<1> DEFINE S == Seq(Names)
<1> DEFINE F == [n \in 1..L |-> [s \in S |-> Pushed(s, asked.parts[n])]]
<1> DEFINE P(g) == g = [n \in 0..L |-> IF n = 0 THEN IF asked.abs THEN <<>> ELSE root
                                       ELSE Pushed(g[n - 1], asked.parts[n])]
<1>1. L \in Nat /\ \A n \in 1..L : asked.parts[n] \in Parts
    BY RequestIs, LenProperties, ElementOfSeq
<1>2. x \in S
    BY EmptyTyped
<1>3. \A n \in 1..L, s \in S : F[n][s] = Pushed(s, asked.parts[n]) /\ Pushed(s, asked.parts[n]) \in S
    <2> HIDE DEF L
    <2> QED BY <1>1, PushedTyped
<1>4. PICK g : g \in Runs(S, x, F, L)
    <2> HIDE DEF F, S, L, x
    <2>1. \A n \in 1..L, s \in S : F[n][s] \in S
        BY <1>3
    <2> QED BY <1>1, <1>2, <2>1, RunExists
<1>5. g \in [0..L -> S] /\ g[0] = x /\ \A n \in 1..L : g[n] = F[n][g[n - 1]]
    <2> HIDE DEF F, S, L, x
    <2> QED BY <1>4 DEF Runs
<1>6. \A n \in 1..L : g[n] = Pushed(g[n - 1], asked.parts[n])
    <2> HIDE DEF F, S, L, x
    <2> TAKE n \in 1..L
    <2>1. n - 1 \in 0..L
        BY <1>1
    <2> QED BY <1>3, <1>5, <2>1
<1>7. P(g)
    <2> HIDE DEF F, S, L
    <2> QED BY <1>1, <1>5, <1>6
<1> DEFINE h == CHOOSE h : P(h)
<1>8. P(h)
    <2> HIDE DEF P
    <2> QED BY <1>7
<1>9. JoinLikeUpstream(root, asked) = h[L]
    BY DEF JoinLikeUpstream
<1>10. h[0] = x /\ \A n \in 1..L : h[n] = Pushed(h[n - 1], asked.parts[n])
    <2> HIDE DEF h, L
    <2> QED BY <1>1, <1>8
<1> DEFINE T == {n \in Nat : n <= L => h[n] \in S}
<1>11. 0 \in T
    BY <1>2, <1>10
<1>12. ASSUME NEW n \in Nat, n \in T PROVE n + 1 \in T
    <2> HIDE DEF h, L
    <2> SUFFICES ASSUME n + 1 <= L PROVE h[n + 1] \in S
        OBVIOUS
    <2>1. h[n] \in S /\ n + 1 \in 1..L /\ (n + 1) - 1 = n
        BY <1>1, <1>12
    <2> QED BY <1>1, <1>10, <2>1, PushedTyped
<1>13. L \in T
    <2> HIDE DEF T, L
    <2> QED BY <1>1, <1>11, <1>12, Induct
<1> QED
    <2> HIDE DEF h, L
    <2> QED BY <1>1, <1>9, <1>13

-----------------------------------------------------------------------------
(* The tree: every step leaves it a tree with the same links.              *)

SameLinks(t, u) ==
    \A p : At(t, p).kind = "link" \/ At(u, p).kind = "link" => At(t, p) = At(u, p)

LEMMA TreesAreOK ==
    ASSUME NEW t \in [Places -> Nodes], WellFormed(t)
    PROVE  TreeOK(t)
<1>1. t[<<>>] = Dir /\ \A p \in Places \ {<<>>} : t[p] # Missing => t[Parent(p)] = Dir
    BY DEF WellFormed
<1>2. ASSUME NEW p \in Seq(Names), NEW x \in Names, At(t, Append(p, x)) # Missing
      PROVE  At(t, p) = Dir
    <2>1. Append(p, x) \in Places /\ t[Append(p, x)] # Missing
        BY <1>2 DEF At
    <2>2. Append(p, x) # <<>> /\ p \in Places /\ Parent(Append(p, x)) = p
        BY <2>1, ParentIs, AppendProperties
    <2>3. t[p] = Dir
        BY <1>1, <2>1, <2>2
    <2> QED BY <2>2, <2>3 DEF At
<1> QED BY <1>1, <1>2 DEF TreeOK

LEMMA InitTree == FilesInit => TreeOK(tree)
<1> SUFFICES ASSUME FilesInit PROVE TreeOK(tree)
    OBVIOUS
<1>1. tree \in [Places -> {Missing, Dir, File} \cup {Link(to) : to \in Targets}] /\ WellFormed(tree)
    BY DEF FilesInit, Trees
<1>2. Targets \subseteq LinkTargets
    BY FilesAssumption DEF LinkTargets, Parts
<1>3. {Missing, Dir, File} \cup {Link(to) : to \in Targets} \subseteq Nodes
    BY <1>2 DEF Nodes
<1>4. tree \in [Places -> Nodes]
    BY <1>1, <1>3
<1> QED BY <1>1, <1>4, TreesAreOK

\* What an operation leaves alone, or puts where nothing or a file was.
LEMMA DoneIs ==
    ASSUME NEW t, TreeOK(t), NEW op, NEW p
    PROVE  /\ Done(t, op, p) \in [Places -> Nodes]
           /\ \A q \in Places : Done(t, op, p)[q] \in {t[q], Missing, Dir, File}
<1>1. t \in [Places -> Nodes] /\ Missing \in Nodes /\ Dir \in Nodes /\ File \in Nodes
    BY DEF TreeOK, Nodes
<1>2. ASSUME NEW node \in {Dir, File}
      PROVE  /\ Made(t, p, node) \in [Places -> Nodes]
             /\ \A q \in Places : Made(t, p, node)[q] \in {t[q], Dir, File}
    BY <1>1 DEF Made
<1>3. /\ Removed(t, p) \in [Places -> Nodes]
      /\ \A q \in Places : Removed(t, p)[q] \in {t[q], Missing}
    BY <1>1 DEF Removed
<1>4. Done(t, op, p) \in {t, Made(t, p, File), Made(t, p, Dir), Removed(t, p)}
    BY DEF Done
<1>5. CASE Done(t, op, p) = t
    BY <1>1, <1>5
<1>6. CASE Done(t, op, p) = Made(t, p, File)
    BY <1>2, <1>6
<1>7. CASE Done(t, op, p) = Made(t, p, Dir)
    BY <1>2, <1>7
<1>8. CASE Done(t, op, p) = Removed(t, p)
    BY <1>3, <1>8
<1> QED BY <1>4, <1>5, <1>6, <1>7, <1>8

LEMMA SameLinksIs ==
    ASSUME NEW t \in [Places -> Nodes], NEW u \in [Places -> Nodes], Links(u) = Links(t),
           \A q \in Places : u[q] \in {t[q], Missing, Dir, File}
    PROVE  SameLinks(t, u)
<1> SUFFICES ASSUME NEW p, At(t, p).kind = "link" \/ At(u, p).kind = "link"
             PROVE  At(t, p) = At(u, p)
    BY DEF SameLinks
<1>1. Missing.kind # "link" /\ Dir.kind # "link" /\ File.kind # "link"
    BY KindOf
<1>2. p \in Places
    BY <1>1 DEF At
<1>3. At(t, p) = t[p] /\ At(u, p) = u[p]
    BY <1>2 DEF At
<1>4. u[p].kind = "link"
    BY <1>2, <1>3 DEF Links
<1> QED BY <1>1, <1>2, <1>3, <1>4

LEMMA PerformTree ==
    ASSUME TreeOK(tree), Perform
    PROVE  TreeOK(tree') /\ SameLinks(tree, tree')
<1> DEFINE done == Done(tree, request.op, Lands(tree, request.path))
<1>1. tree' = IF WellFormed(done) /\ Links(done) = Links(tree) THEN done ELSE tree
    BY DEF Perform
<1>2. /\ done \in [Places -> Nodes]
      /\ \A q \in Places : done[q] \in {tree[q], Missing, Dir, File}
    BY DoneIs
<1>3. tree \in [Places -> Nodes]
    BY DEF TreeOK
<1> HIDE DEF done
<1>4. CASE WellFormed(done) /\ Links(done) = Links(tree)
    BY <1>1, <1>2, <1>3, <1>4, TreesAreOK, SameLinksIs
<1>5. CASE ~(WellFormed(done) /\ Links(done) = Links(tree))
    BY <1>1, <1>5 DEF SameLinks
<1> QED BY <1>4, <1>5

LEMMA AppearsTree ==
    ASSUME TreeOK(tree), NEW p \in Places, Appears(p)
    PROVE  /\ TreeOK(tree') /\ SameLinks(tree, tree')
           /\ \A q : At(tree, q) # Missing => At(tree', q) = At(tree, q)
<1>1. /\ tree[p] = Missing /\ tree[Parent(p)] = Dir /\ tree' = [tree EXCEPT ![p] = Dir]
      /\ tree \in [Places -> Nodes] /\ tree[<<>>] = Dir
    BY DEF Appears, TreeOK
<1>2. Missing # Dir /\ Dir \in Nodes /\ Missing.kind # "link" /\ Dir.kind # "link"
    BY KindOf DEF Nodes
<1>3. tree' \in [Places -> Nodes] /\ p # <<>>
    BY <1>1, <1>2
<1>4. \A q : At(tree', q) = IF q = p THEN Dir ELSE At(tree, q)
    BY <1>1 DEF At
<1>5. At(tree, p) = Missing
    BY <1>1 DEF At
<1>6. tree'[<<>>] = Dir
    BY <1>1, <1>3, RootIsPlace
<1>7. ASSUME NEW q \in Seq(Names), NEW x \in Names, At(tree', Append(q, x)) # Missing
      PROVE  At(tree', q) = Dir
    <2>1. CASE Append(q, x) = p
        <3>1. Parent(p) = q /\ q \in Places
            BY <2>1, ParentIs
        <3>2. At(tree, q) = Dir
            BY <1>1, <3>1 DEF At
        <3> QED BY <1>4, <3>2
    <2>2. CASE Append(q, x) # p
        <3>1. At(tree, Append(q, x)) # Missing
            BY <1>4, <1>7, <2>2
        <3>2. At(tree, q) = Dir
            BY <3>1 DEF TreeOK
        <3> QED BY <1>4, <3>2
    <2> QED BY <2>1, <2>2
<1>8. TreeOK(tree')
    BY <1>3, <1>6, <1>7 DEF TreeOK
<1>9. SameLinks(tree, tree')
    BY <1>2, <1>4, <1>5 DEF SameLinks
<1> QED BY <1>4, <1>5, <1>8, <1>9

-----------------------------------------------------------------------------
(* The gate: of configured paths, each resolved on some tree with the same *)
(* links.                                                                  *)

\* A root that is kept is one of the configured ones, and is there.
LEMMA PresentIs ==
    ASSUME NEW t, NEW roots \in Seq(Seq(Names))
    PROVE  LET there == {r \in Seq(Names) : Canonicalize(t, r) # Fails
                                          /\ \E j \in DOMAIN roots : roots[j] = r}
           IN Present(t, roots) \in Seq(there)
<1> DEFINE there == {r \in Seq(Names) : Canonicalize(t, r) # Fails
                                      /\ \E j \in DOMAIN roots : roots[j] = r}
<1> DEFINE L == Len(roots)
<1> DEFINE S == Seq(there)
<1> DEFINE Kept(s, n) == IF Canonicalize(t, roots[n]) = Fails THEN s ELSE Append(s, roots[n])
<1> DEFINE F == [n \in 1..L |-> [s \in S |-> Kept(s, n)]]
<1> DEFINE P(g) == g = [n \in 0..L |-> IF n = 0 THEN <<>>
                                       ELSE IF Canonicalize(t, roots[n]) = Fails THEN g[n - 1]
                                            ELSE Append(g[n - 1], roots[n])]
<1>1. L \in Nat /\ DOMAIN roots = 1..L /\ \A n \in 1..L : roots[n] \in Seq(Names)
    BY LenProperties, ElementOfSeq
<1>2. <<>> \in S
    BY EmptyTyped
<1>3. ASSUME NEW n \in 1..L, NEW s \in S PROVE Kept(s, n) \in S
    <2>1. CASE Canonicalize(t, roots[n]) = Fails
        BY <2>1
    <2>2. CASE Canonicalize(t, roots[n]) # Fails
        <3>1. roots[n] \in there
            BY <1>1, <2>2
        <3> HIDE DEF there
        <3>2. Append(s, roots[n]) \in S
            BY <3>1, AppendProperties
        <3> QED BY <2>2, <3>2
    <2> QED BY <2>1, <2>2
<1> HIDE DEF there
<1>4. \A n \in 1..L, s \in S : F[n][s] = Kept(s, n) /\ Kept(s, n) \in S
    <2> HIDE DEF L, Kept, S
    <2> QED BY <1>3
<1>5. PICK g : g \in Runs(S, <<>>, F, L)
    <2> HIDE DEF F, S, L, Kept
    <2>1. \A n \in 1..L, s \in S : F[n][s] \in S
        BY <1>4
    <2> QED BY <1>1, <1>2, <2>1, RunExists
<1>6. g \in [0..L -> S] /\ g[0] = <<>> /\ \A n \in 1..L : g[n] = F[n][g[n - 1]]
    <2> HIDE DEF F, S, L
    <2> QED BY <1>5 DEF Runs
<1>7. \A n \in 1..L : g[n] = Kept(g[n - 1], n)
    <2> HIDE DEF F, S, L, Kept
    <2> TAKE n \in 1..L
    <2>1. n - 1 \in 0..L
        BY <1>1
    <2> QED BY <1>4, <1>6, <2>1
<1>8. P(g)
    <2>1. g = [n \in 0..L |-> IF n = 0 THEN <<>> ELSE Kept(g[n - 1], n)]
        <3> HIDE DEF F, S, L, Kept
        <3> QED BY <1>1, <1>6, <1>7
    <2> QED BY <2>1
<1> DEFINE h == CHOOSE h : P(h)
<1>9. P(h)
    <2> HIDE DEF P
    <2> QED BY <1>8
<1>10. Present(t, roots) = h[L]
    BY DEF Present
<1>11. h[0] = <<>> /\ \A n \in 1..L : h[n] = Kept(h[n - 1], n)
    <2>1. h = [n \in 0..L |-> IF n = 0 THEN <<>> ELSE Kept(h[n - 1], n)]
        <3> HIDE DEF h, L
        <3> QED BY <1>9
    <2> HIDE DEF h, L, P, Kept
    <2> QED BY <1>1, <2>1
<1> DEFINE T == {n \in Nat : n <= L => h[n] \in S}
<1>12. 0 \in T
    <2> HIDE DEF h, L, S
    <2> QED BY <1>2, <1>11
<1>13. ASSUME NEW n \in Nat, n \in T PROVE n + 1 \in T
    <2> HIDE DEF h, L, S
    <2> SUFFICES ASSUME n + 1 <= L PROVE h[n + 1] \in S
        OBVIOUS
    <2>1. h[n] \in S /\ n + 1 \in 1..L /\ (n + 1) - 1 = n
        BY <1>1, <1>13
    <2>2. h[n + 1] = Kept(h[n], n + 1)
        BY <1>11, <2>1
    <2> HIDE DEF Kept
    <2> QED BY <1>3, <2>1, <2>2
<1>14. L \in T
    <2> HIDE DEF T, L
    <2> QED BY <1>1, <1>12, <1>13, Induct
<1> QED
    <2>1. h[L] \in S
        <3> HIDE DEF h, L, S
        <3> QED BY <1>1, <1>14
    <2> QED BY <1>10, <2>1 DEF there

LEMMA CanonIs ==
    ASSUME NEW t, NEW S, NEW paths \in Seq(S)
    PROVE  /\ Len(paths) \in Nat /\ DOMAIN paths = 1..Len(paths)
           /\ Canon(t, paths) = [i \in 1..Len(paths) |-> Canon(t, paths)[i]]
           /\ \A i \in 1..Len(paths) :
                /\ paths[i] \in S
                /\ Canonicalize(t, paths[i]) = Fails => Canon(t, paths)[i] = paths[i]
                /\ Canonicalize(t, paths[i]) # Fails => Canon(t, paths)[i] = Canonicalize(t, paths[i])
<1>1. Len(paths) \in Nat /\ DOMAIN paths = 1..Len(paths) /\ \A i \in 1..Len(paths) : paths[i] \in S
    BY LenProperties, ElementOfSeq
<1> QED BY <1>1 DEF Canon

Was(r, real) == \E t : /\ TreeOK(t) /\ SameLinks(t, tree)
                       /\ Canonicalize(t, r) = real /\ real # Fails

LEMMA SameLinksTrans ==
    ASSUME NEW t, NEW u, NEW v, SameLinks(t, u), SameLinks(u, v)
    PROVE  SameLinks(t, v)
BY DEF SameLinks

LEMMA WasStays ==
    ASSUME NEW r, NEW real, Was(r, real), SameLinks(tree, tree')
    PROVE  Was(r, real)'
<1>1. PICK t : TreeOK(t) /\ SameLinks(t, tree) /\ Canonicalize(t, r) = real /\ real # Fails
    BY DEF Was
<1>2. SameLinks(t, tree')
    BY <1>1, SameLinksTrans
<1> QED BY <1>1, <1>2 DEF Was

GateInv ==
    gate # NoGate =>
        /\ Valid(config) /\ gate.roots \in Seq(Seq(Names))
        /\ \A i \in DOMAIN gate.roots :
               \E j \in DOMAIN Roots(config) : Was(Roots(config)[j], gate.roots[i])
        /\ DOMAIN gate.deny = DOMAIN Deny(config)
        /\ \A i \in DOMAIN Deny(config) :
               gate.deny[i] = Deny(config)[i] \/ Was(Deny(config)[i], gate.deny[i])

LEMMA ConfigIs ==
    ASSUME config \in Configs, Valid(config)
    PROVE  Roots(config) \in Seq(Seq(Names)) /\ Deny(config) \in Seq(Seq(Names))
BY ConfigsAssumption

LEMMA BuildGateInv ==
    ASSUME TreeOK(tree), config \in Configs, BuildGate
    PROVE  GateInv'
<1> DEFINE roots == Present(tree, Roots(config))
<1> DEFINE there == {r \in Seq(Names) : Canonicalize(tree, r) # Fails
                                      /\ \E j \in DOMAIN Roots(config) : Roots(config)[j] = r}
<1>1. /\ Valid(config) /\ tree' = tree /\ config' = config
      /\ gate'.roots = Canon(tree, roots) /\ gate'.deny = Canon(tree, Deny(config))
    BY DEF BuildGate, NewGate
<1>2. Roots(config) \in Seq(Seq(Names)) /\ Deny(config) \in Seq(Seq(Names))
    BY <1>1, ConfigIs
<1>3. roots \in Seq(there)
    BY <1>2, PresentIs
<1>4. \A r \in Seq(Names) : Canonicalize(tree, r) # Fails => Was(r, Canonicalize(tree, r))
    BY DEF Was, SameLinks
<1>5. /\ gate'.roots \in Seq(Seq(Names))
      /\ \A i \in DOMAIN gate'.roots :
             \E j \in DOMAIN Roots(config) : Was(Roots(config)[j], gate'.roots[i])
    <2> DEFINE real == Canon(tree, roots)
    <2>1. \A r \in there : /\ r \in Seq(Names) /\ Canonicalize(tree, r) # Fails
                           /\ \E j \in DOMAIN Roots(config) : Roots(config)[j] = r
        OBVIOUS
    <2> HIDE DEF there, roots
    <2>2. /\ Len(roots) \in Nat /\ real = [i \in 1..Len(roots) |-> real[i]]
          /\ \A i \in 1..Len(roots) :
                /\ roots[i] \in there
                /\ Canonicalize(tree, roots[i]) # Fails => real[i] = Canonicalize(tree, roots[i])
        BY <1>3, CanonIs
    <2>3. \A i \in 1..Len(roots) : real[i] = Canonicalize(tree, roots[i]) /\ real[i] \in Seq(Names)
        <3> TAKE i \in 1..Len(roots)
        <3>1. real[i] = Canonicalize(tree, roots[i]) /\ Canonicalize(tree, roots[i]) # Fails
            BY <2>1, <2>2
        <3>2. roots[i] \in Seq(Parts)
            BY <2>1, <2>2, NamesAreParts
        <3>3. Canonicalize(tree, roots[i]) \in Here(tree)
            BY <3>1, <3>2, CanonicalizeIs
        <3> QED BY <3>1, <3>3, HereIs
    <2> HIDE DEF real
    <2>4. real \in [1..Len(roots) -> Seq(Names)]
        BY <2>2, <2>3
    <2>5. real \in Seq(Seq(Names))
        BY <2>2, <2>4, SeqDef
    <2>6. DOMAIN real = 1..Len(roots)
        BY <2>4
    <2>7. \A i \in DOMAIN real : \E j \in DOMAIN Roots(config) : Was(Roots(config)[j], real[i])
        <3> TAKE i \in DOMAIN real
        <3>1. PICK j \in DOMAIN Roots(config) : Roots(config)[j] = roots[i]
            BY <2>1, <2>2, <2>6
        <3>2. Was(roots[i], real[i])
            BY <1>4, <2>1, <2>2, <2>3, <2>6
        <3> QED BY <3>1, <3>2
    <2> QED BY <1>1, <2>5, <2>7 DEF real
<1>6. /\ DOMAIN gate'.deny = DOMAIN Deny(config)
      /\ \A i \in DOMAIN Deny(config) :
             gate'.deny[i] = Deny(config)[i] \/ Was(Deny(config)[i], gate'.deny[i])
    <2> DEFINE D == Deny(config)
    <2> DEFINE real == Canon(tree, D)
    <2>4. D \in Seq(Seq(Names))
        BY <1>2
    <2> HIDE DEF D
    <2>1. /\ DOMAIN D = 1..Len(D) /\ real = [i \in 1..Len(D) |-> real[i]]
          /\ \A i \in 1..Len(D) :
                /\ Canonicalize(tree, D[i]) = Fails => real[i] = D[i]
                /\ Canonicalize(tree, D[i]) # Fails => real[i] = Canonicalize(tree, D[i])
        BY <2>4, CanonIs
    <2>5. \A i \in 1..Len(D) : D[i] \in Seq(Names)
        BY <2>4, ElementOfSeq
    <2> HIDE DEF real
    <2>2. DOMAIN real = DOMAIN D
        BY <2>1
    <2>3. \A i \in DOMAIN D : real[i] = D[i] \/ Was(D[i], real[i])
        BY <1>4, <2>1, <2>5
    <2> QED BY <1>1, <2>2, <2>3 DEF real, D
<1> HIDE DEF roots, there
<1> QED BY <1>1, <1>5, <1>6 DEF GateInv, Was

FilesInv ==
    /\ TreeOK(tree) /\ config \in Configs
    /\ gate = NoGate => request = NoRequest
    /\ GateInv

LEMMA FilesInvInit == FilesInit => FilesInv
BY InitTree DEF FilesInit, FilesInv, GateInv

LEMMA FilesInvStep ==
    ASSUME FilesInv, [FilesNext]_filesVars
    PROVE  FilesInv' /\ SameLinks(tree, tree')
<1> USE DEF FilesInv
<1>1. \A t : SameLinks(t, t)
    BY DEF SameLinks
<1>2. ASSUME UNCHANGED <<config, gate>>, SameLinks(tree, tree') PROVE GateInv'
    <2> SUFFICES ASSUME gate # NoGate PROVE GateInv'
        BY <1>2 DEF GateInv
    <2>1. \A r, real : Was(r, real) => Was(r, real)'
        BY <1>2, WasStays
    <2> QED BY <1>2, <2>1 DEF GateInv
<1>3. CASE BuildGate
    <2>1. GateInv'
        BY <1>3, BuildGateInv
    <2>2. request = NoRequest /\ UNCHANGED <<tree, config, request>>
        BY <1>3 DEF BuildGate
    <2> QED BY <1>1, <2>1, <2>2
<1>4. CASE ProcessStops
    <2>1. gate' = NoGate /\ request' = NoRequest /\ UNCHANGED <<tree, config>>
        BY <1>4 DEF ProcessStops
    <2> QED BY <1>1, <2>1 DEF GateInv
<1>5. ASSUME NEW asked \in Requests, Ask(asked) PROVE FilesInv' /\ SameLinks(tree, tree')
    <2>1. gate # NoGate /\ UNCHANGED <<tree, config, gate>>
        BY <1>5 DEF Ask
    <2>2. SameLinks(tree, tree')
        BY <1>1, <2>1
    <2> QED BY <1>2, <2>1, <2>2
<1>6. CASE Perform
    <2>1. request' = NoRequest /\ UNCHANGED <<config, gate>>
        BY <1>6 DEF Perform
    <2>2. TreeOK(tree') /\ SameLinks(tree, tree')
        BY <1>6, PerformTree
    <2> QED BY <1>2, <2>1, <2>2
<1>7. ASSUME NEW p \in Places, Appears(p) PROVE FilesInv' /\ SameLinks(tree, tree')
    <2>1. UNCHANGED <<config, gate, request>>
        BY <1>7 DEF Appears
    <2>2. TreeOK(tree') /\ SameLinks(tree, tree')
        BY <1>7, AppearsTree
    <2> QED BY <1>2, <2>1, <2>2
<1>8. CASE UNCHANGED filesVars
    <2>1. UNCHANGED <<tree, config, gate, request>>
        BY <1>8 DEF filesVars
    <2>2. SameLinks(tree, tree')
        BY <1>1, <2>1
    <2> QED BY <1>2, <2>1, <2>2
<1> QED BY <1>3, <1>4, <1>5, <1>6, <1>7, <1>8 DEF FilesNext

LEMMA FilesInvariance == FilesSpec => []FilesInv
<1>1. FilesInv /\ [FilesNext]_filesVars => FilesInv'
    BY FilesInvStep
<1> QED BY <1>1, FilesInvInit, PTL DEF FilesSpec

-----------------------------------------------------------------------------
(* Plain paths: no link lies on them.                                      *)

\* Of two ways to cut a path, one goes on from the other.
LEMMA CutsCompare ==
    ASSUME NEW S, NEW a \in Seq(S), NEW b \in Seq(S), NEW c \in Seq(S), NEW d \in Seq(S),
           Cat(a, b) = Cat(c, d), Len(a) <= Len(c)
    PROVE  /\ \E e \in Seq(S) : c = Cat(a, e) /\ b = Cat(e, d)
           /\ FirstOf(c, Len(a)) = a
<1>1. Len(a) \in Nat /\ Len(c) \in Nat /\ Len(b) \in Nat /\ Len(d) \in Nat
    BY LenProperties
<1> DEFINE n == Len(a)
<1> DEFINE e == RestOf(c, n)
<1>2. n \in 0..Len(c)
    BY <1>1
<1>3. FirstOf(c, n) \in Seq(S) /\ e \in Seq(S) /\ c = Cat(FirstOf(c, n), e)
    BY <1>2, CutInTwo
<1>4. \A i \in 1..n : c[i] = a[i]
    <2>1. /\ \A i \in 1..(Len(a) + Len(b)) : Cat(a, b)[i] = IF i <= Len(a) THEN a[i] ELSE b[i - Len(a)]
          /\ \A i \in 1..(Len(c) + Len(d)) : Cat(c, d)[i] = IF i <= Len(c) THEN c[i] ELSE d[i - Len(c)]
        BY ConcatProperties DEF Cat
    <2> TAKE i \in 1..n
    <2>2. i \in 1..(Len(a) + Len(b)) /\ i <= Len(a) /\ i \in 1..(Len(c) + Len(d)) /\ i <= Len(c)
        BY <1>1
    <2>3. Cat(a, b)[i] = a[i] /\ Cat(c, d)[i] = c[i]
        BY <2>1, <2>2
    <2> QED BY <2>3
<1>5. \A i \in 1..n : c[i] \in S
    BY <1>1, <1>2, ElementOfSeq
<1>6. /\ SubSeq(c, 1, n) \in Seq(S) /\ Len(SubSeq(c, 1, n)) = n
      /\ \A i \in 1..n : SubSeq(c, 1, n)[i] = c[i]
    <2>1. /\ Len(SubSeq(c, 1, n)) = IF 1 <= n THEN n - 1 + 1 ELSE 0
          /\ \A i \in 1..(n - 1 + 1) : SubSeq(c, 1, n)[i] = c[1 + i - 1]
          /\ SubSeq(c, 1, n) \in Seq(S)
        BY <1>1, <1>5, SubSeqProperties
    <2> HIDE DEF n
    <2>2. n \in Nat
        BY <1>1 DEF n
    <2>3. \A i \in 1..n : SubSeq(c, 1, n)[i] = c[i]
        <3> TAKE i \in 1..n
        <3>1. i \in 1..(n - 1 + 1) /\ 1 + i - 1 = i
            BY <2>2
        <3> QED BY <2>1, <3>1
    <2> QED BY <2>1, <2>2, <2>3
<1>7. FirstOf(c, n) = a
    <2>1. \A i \in 1..Len(SubSeq(c, 1, n)) : SubSeq(c, 1, n)[i] = a[i]
        BY <1>4, <1>6
    <2>2. SubSeq(c, 1, n) = a
        BY <1>6, <2>1, SeqEqual
    <2> QED BY <2>2 DEF FirstOf
<1> HIDE DEF e, n
<1>8. c = Cat(a, e)
    BY <1>3, <1>7
<1>9. Cat(a, b) = Cat(a, Cat(e, d)) /\ Cat(e, d) \in Seq(S)
    BY <1>3, <1>8, CatAssoc, CatTyped
<1>10. b = Cat(e, d)
    BY <1>9, ConcatSimplifications DEF Cat
<1> QED BY <1>3, <1>7, <1>8, <1>10 DEF n

LEMMA RootTyped ==
    ASSUME FilesInv, gate # NoGate
    PROVE  Root(gate) \in Seq(Names)
<1>1. gate.roots \in Seq(Seq(Names))
    BY DEF FilesInv, GateInv
<1>2. CASE gate.roots = <<>>
    BY <1>2, EmptyTyped DEF Root
<1>3. CASE gate.roots # <<>>
    <2>1. Head(gate.roots) \in Seq(Names)
        BY <1>1, <1>3, HeadTailProperties
    <2> QED BY <1>3, <2>1 DEF Root
<1> QED BY <1>2, <1>3

\* On a path without a link there is none in whatever way it is cut.
LEMMA PlainIs ==
    ASSUME NEW t, NEW p \in Seq(Names), \A n \in 0..Len(p) : At(t, FirstOf(p, n)).kind # "link"
    PROVE  NoLinkOn(t, p)
<1> SUFFICES ASSUME NEW q \in Seq(Names), NEW r \in Seq(Names), p = Cat(q, r)
             PROVE  At(t, q).kind # "link"
    BY DEF NoLinkOn
<1>1. Cat(p, <<>>) = p /\ <<>> \in Seq(Names)
    BY CatEmpty, EmptyTyped
<1>2. Len(q) \in Nat /\ Len(r) \in Nat /\ Len(p) = Len(q) + Len(r)
    BY ConcatProperties, LenProperties DEF Cat
<1>3. FirstOf(p, Len(q)) = q
    BY <1>1, <1>2, CutsCompare
<1>4. Len(q) \in 0..Len(p)
    BY <1>2
<1> QED BY <1>3, <1>4

\* The gate does not stand in the way of plain paths (gate.rs:84-88): whatever the tree, the roots and
\* the deny list, a path without a link on it, below a root and not denied, passes, and the gate and the
\* kernel take it for the place its text says.
THEOREM PlainPaths == FilesSpec => []PlainPathsPass
<1>1. FilesInv => PlainPathsPass
    <2> SUFFICES ASSUME FilesInv, gate # NoGate, NEW asked \in Requests,
                        LET p == JoinLikeUpstream(Root(gate), asked)
                        IN /\ \A n \in 0..Len(p) : At(tree, SubSeq(p, 1, n)).kind # "link"
                           /\ \E i \in DOMAIN gate.roots : IsUnder(p, gate.roots[i])
                           /\ \A i \in DOMAIN gate.deny : ~IsUnder(p, gate.deny[i])
                 PROVE  LET p == JoinLikeUpstream(Root(gate), asked)
                        IN Check(tree, gate, asked) /\ Resolved(tree, gate, asked) = p /\ Lands(tree, p) = p
        BY DEF PlainPathsPass
    <2> DEFINE p == JoinLikeUpstream(Root(gate), asked)
    <2>1. p \in Seq(Names)
        BY RootTyped, JoinTyped
    <2>2. \A n \in 0..Len(p) : At(tree, FirstOf(p, n)).kind # "link"
        BY DEF FirstOf
    <2>3. /\ \E i \in DOMAIN gate.roots : IsUnder(p, gate.roots[i])
          /\ \A i \in DOMAIN gate.deny : ~IsUnder(p, gate.deny[i])
        OBVIOUS
    <2> HIDE DEF p
    <2>4. NoLinkOn(tree, p)
        BY <2>1, <2>2, PlainIs
    <2>5. CanonicalizeDeepest(tree, p) = p /\ Lands(tree, p) = p
        BY <2>1, <2>4, PlainResolves DEF FilesInv
    <2>6. Resolved(tree, gate, asked) = p
        BY <2>5 DEF Resolved, p
    <2>7. Check(tree, gate, asked)
        BY <2>3, <2>6 DEF Check
    <2> QED BY <2>5, <2>6, <2>7 DEF p
<1> QED BY <1>1, FilesInvariance, PTL

-----------------------------------------------------------------------------
(* Links: what lies on a path, and what lies below a place.                *)

\* Below what is no directory there is nothing.
LEMMA MissingBelow ==
    ASSUME NEW t, TreeOK(t), NEW p \in Seq(Names), At(t, p) # Dir, NEW e \in Seq(Names), e # <<>>
    PROVE  At(t, Cat(p, e)) = Missing
<1> DEFINE T == {n \in Nat : \A f \in Seq(Names) : f # <<>> /\ Len(f) = n => At(t, Cat(p, f)) = Missing}
<1>1. 0 \in T
    <2>1. \A f \in Seq(Names) : f # <<>> => Len(f) # 0
        BY EmptySeq
    <2> QED BY <2>1
<1>2. ASSUME NEW n \in Nat, n \in T PROVE n + 1 \in T
    <2> SUFFICES ASSUME NEW f \in Seq(Names), f # <<>>, Len(f) = n + 1
                 PROVE  At(t, Cat(p, f)) = Missing
        OBVIOUS
    <2>1. PICK g \in Seq(Names), x \in Names : f = Append(g, x)
        BY SequenceEmptyOrAppend
    <2>2. Len(g) = n
        <3>1. Len(f) = Len(g) + 1 /\ Len(g) \in Nat
            BY <2>1, AppendProperties, LenProperties
        <3> QED BY <3>1
    <2>3. Cat(p, f) = Append(Cat(p, g), x) /\ Cat(p, g) \in Seq(Names)
        <3>1. /\ f = Cat(g, Cons(x, <<>>)) /\ Cat(p, g) \in Seq(Names)
              /\ <<>> \in Seq(Names)
            BY <2>1, AppendCat, CatTyped, EmptyTyped
        <3>2. Cons(x, <<>>) \in Seq(Names)
            BY <3>1, ConsTyped
        <3>3. Cat(p, f) = Cat(Cat(p, g), Cons(x, <<>>))
            BY <3>1, <3>2, CatAssoc
        <3>4. Append(Cat(p, g), x) = Cat(Cat(p, g), Cons(x, <<>>))
            BY <3>1, AppendCat
        <3> QED BY <3>1, <3>3, <3>4
    <2>4. At(t, Cat(p, g)) # Dir
        <3>1. CASE g = <<>>
            BY <3>1, CatEmpty
        <3>2. CASE g # <<>>
            <4>1. At(t, Cat(p, g)) = Missing
                BY <1>2, <2>2, <3>2
            <4> QED BY <4>1, KindOf
        <3> QED BY <3>1, <3>2
    <2> QED BY <2>3, <2>4 DEF TreeOK
<1>3. Len(e) \in Nat
    BY LenProperties
<1>4. Len(e) \in T
    <2> HIDE DEF T
    <2> QED BY <1>1, <1>2, <1>3, Induct
<1> QED BY <1>4

\* No link lies above what is there, nor below what is not.
LEMMA NoLinkAbove ==
    ASSUME NEW t, TreeOK(t), NEW c \in Here(t)
    PROVE  NoLinkOn(t, c)
<1> SUFFICES ASSUME NEW q \in Seq(Names), NEW r \in Seq(Names), c = Cat(q, r)
             PROVE  At(t, q).kind # "link"
    BY DEF NoLinkOn
<1>1. At(t, c) \in {Dir, File}
    BY HereIs
<1>2. CASE r = <<>>
    <2>1. q = c
        BY <1>2, CatEmpty
    <2> QED BY <1>1, <2>1, KindOf
<1>3. CASE r # <<>>
    <2>1. At(t, q) = Dir
        <3> SUFFICES ASSUME At(t, q) # Dir PROVE FALSE
            OBVIOUS
        <3>1. At(t, c) = Missing
            BY <1>3, MissingBelow
        <3> QED BY <1>1, <3>1, KindOf
    <2> QED BY <2>1, KindOf
<1> QED BY <1>2, <1>3

LEMMA NoLinkBelow ==
    ASSUME NEW t, TreeOK(t), NEW c \in Here(t), NEW x \in Names, NEW k \in Seq(Names),
           At(t, Append(c, x)) = Missing
    PROVE  NoLinkOn(t, Cat(c, Cons(x, k)))
<1> SUFFICES ASSUME NEW q \in Seq(Names), NEW r \in Seq(Names), Cat(c, Cons(x, k)) = Cat(q, r)
             PROVE  At(t, q).kind # "link"
    BY DEF NoLinkOn
<1>1. c \in Seq(Names) /\ Cons(x, k) \in Seq(Names)
    BY HereIs, ConsTyped
<1>2. Len(q) \in Nat /\ Len(c) \in Nat
    BY <1>1, LenProperties
<1>3. CASE Len(q) <= Len(c)
    <2>1. PICK e \in Seq(Names) : c = Cat(q, e)
        BY <1>1, <1>3, CutsCompare
    <2>2. NoLinkOn(t, c)
        BY NoLinkAbove
    <2> QED BY <2>1, <2>2 DEF NoLinkOn
<1>4. CASE Len(c) <= Len(q)
    <2>1. PICK e \in Seq(Names) : q = Cat(c, e) /\ Cons(x, k) = Cat(e, r)
        BY <1>1, <1>4, CutsCompare
    <2>2. CASE e = <<>>
        <3>1. q = c
            BY <1>1, <2>1, <2>2, CatEmpty
        <3>2. At(t, c) \in {Dir, File}
            BY HereIs
        <3> QED BY <3>1, <3>2, KindOf
    <2>3. CASE e # <<>>
        <3>1. PICK y \in Names, f \in Seq(Names) : e = Cons(y, f)
            BY <2>3, ConsOrEmpty
        <3>2. Cons(x, k) = Cons(y, Cat(f, r)) /\ Cat(f, r) \in Seq(Names)
            BY <2>1, <3>1, ConsCat, CatTyped
        <3>3. x = y
            <4>1. Head(Cons(x, k)) = x /\ Head(Cons(y, Cat(f, r))) = y
                BY <3>2, ConsTyped
            <4> QED BY <3>2, <4>1
        <3>4. q = Cat(Append(c, x), f) /\ Append(c, x) \in Seq(Names)
            BY <1>1, <2>1, <3>1, <3>3, AppendCat
        <3>5. At(t, q) = Missing
            <4>1. CASE f = <<>>
                BY <3>4, <4>1, CatEmpty
            <4>2. CASE f # <<>>
                BY <3>4, <4>2, MissingBelow, KindOf
            <4> QED BY <4>1, <4>2
        <3> QED BY <3>5, KindOf
    <2> QED BY <2>2, <2>3
<1> QED BY <1>2, <1>3, <1>4

-----------------------------------------------------------------------------
(* Where a resolution that comes to an end gets to.                        *)

AllLead(t) == \A p \in Places : ~Dangles(t, p)

\* What is there is found.
LEMMA HereIsReached ==
    ASSUME NEW t, TreeOK(t), NEW a \in Here(t)
    PROVE  \E m \in Nat : After(t, St(<<>>, a))[m] = St(a, <<>>)
<1> DEFINE T == {n \in Nat : \A b \in Here(t) :
                    Len(b) = n => \E m \in Nat : After(t, St(<<>>, b))[m] = St(b, <<>>)}
<1>1. \A b \in Here(t) : b \in Seq(Names) /\ b \in Seq(Parts) /\ At(t, b) \in {Dir, File}
    BY HereIs, NamesAreParts
<1>2. 0 \in T
    <2> SUFFICES ASSUME NEW b \in Here(t), Len(b) = 0
                 PROVE  \E m \in Nat : After(t, St(<<>>, b))[m] = St(b, <<>>)
        OBVIOUS
    <2>1. b = <<>>
        BY <1>1, EmptySeq
    <2>2. St(<<>>, <<>>) \in States(t)
        BY HereIs, StateTyped, EmptyTyped
    <2>3. After(t, St(<<>>, b))[0] = St(b, <<>>)
        BY <2>1, <2>2, AfterIs
    <2> QED BY <2>3
<1>3. ASSUME NEW n \in Nat, n \in T PROVE n + 1 \in T
    <2> SUFFICES ASSUME NEW b \in Here(t), Len(b) = n + 1
                 PROVE  \E m \in Nat : After(t, St(<<>>, b))[m] = St(b, <<>>)
        OBVIOUS
    <2>1. b # <<>>
        BY <1>1, EmptySeq
    <2>2. PICK c \in Seq(Names), x \in Names : b = Append(c, x)
        BY <1>1, <2>1, SequenceEmptyOrAppend
    <2>3. Len(c) = n
        <3>1. Len(b) = Len(c) + 1 /\ Len(c) \in Nat
            BY <2>2, AppendProperties, LenProperties
        <3> QED BY <3>1
    <2>4. At(t, b) # Missing /\ At(t, c) = Dir
        <3>1. At(t, b) # Missing
            BY <1>1, KindOf
        <3> QED BY <2>2, <3>1 DEF TreeOK
    <2>5. c \in Here(t)
        BY <2>4, HereIs
    <2>6. PICK m \in Nat : After(t, St(<<>>, c))[m] = St(c, <<>>)
        BY <1>3, <2>3, <2>5
    <2> DEFINE q == Cons(x, <<>>)
    <2>7. q \in Seq(Parts) /\ Append(c, x) = Cat(c, q) /\ c \in Seq(Parts)
        <3>1. <<>> \in Seq(Parts) /\ x \in Parts /\ c \in Seq(Parts)
            BY EmptyTyped, NamesAreParts DEF Parts
        <3>2. <<>> \in Seq(Names)
            BY EmptyTyped
        <3> QED BY <3>1, <3>2, ConsTyped, AppendCat
    <2> HIDE DEF q
    <2>8. St(<<>>, c) \in States(t) /\ More(St(<<>>, c), q) = St(<<>>, b)
        <3>1. St(<<>>, c) \in States(t)
            BY <2>7, HereIs, StateTyped
        <3> QED BY <2>2, <2>7, <3>1, StIs DEF More
    <2>9. PICK k \in Nat : After(t, St(<<>>, b))[k] = St(c, q)
        <3>1. After(t, St(<<>>, c))[m].left = <<>> /\ After(t, St(<<>>, c))[m].at = c
            BY <2>6, StIs
        <3> QED BY <2>7, <2>8, <3>1, AfterThrough
    <2>10. Step(t, St(c, q)) = St(b, <<>>)
        <3>1. <<>> \in Seq(Parts) /\ At(t, Append(c, x)) \in {Dir, File}
            BY <1>1, <2>2, EmptyTyped
        <3>2. \A l \in Seq(Parts) : Step(t, St(c, Cons(x, l))) = St(Append(c, x), l)
            BY <2>4, <3>1, StepName
        <3> QED BY <2>2, <3>1, <3>2 DEF q
    <2>11. St(<<>>, b) \in States(t)
        BY <1>1, HereIs, StateTyped
    <2>12. After(t, St(<<>>, b))[k + 1] = St(b, <<>>) /\ k + 1 \in Nat
        <3>1. After(t, St(<<>>, b))[k + 1] = Step(t, After(t, St(<<>>, b))[k])
            BY <2>11, AfterIs
        <3> QED BY <2>9, <2>10, <3>1
    <2> QED BY <2>12
<1>4. Len(a) \in Nat
    BY <1>1, LenProperties
<1>5. Len(a) \in T
    <2> HIDE DEF T
    <2> QED BY <1>2, <1>3, <1>4, Induct
<1> QED BY <1>5

\* From the place of a link that leads somewhere, the walk gets there.
LEMMA LinkLeads ==
    ASSUME NEW t, TreeOK(t), AllLead(t), NEW a \in Here(t), NEW x \in Names,
           At(t, Append(a, x)).kind = "link"
    PROVE  \E n \in Nat : After(t, St(a, Cons(x, <<>>)))[n].left = <<>>
<1> DEFINE p == Append(a, x)
<1> DEFINE q == Cons(x, <<>>)
<1>1. a \in Seq(Names) /\ a \in Seq(Parts) /\ <<>> \in Seq(Names) /\ <<>> \in Seq(Parts) /\ x \in Parts
    BY HereIs, NamesAreParts, EmptyTyped DEF Parts
<1>2. q \in Seq(Parts) /\ p = Cat(a, q) /\ p \in Seq(Names) /\ p \in Seq(Parts)
    BY <1>1, ConsTyped, AppendCat, NamesAreParts
<1>3. p \in Places
    <2>1. At(t, p) # Missing
        BY KindOf
    <2> QED BY <2>1, AtTyped
<1> HIDE DEF p, q
<1>4. Canonicalize(t, p) # Fails
    BY <1>3 DEF AllLead, Dangles, p
<1>5. After(t, St(<<>>, p))[MaxSteps].left = <<>> /\ MaxSteps \in Nat /\ St(<<>>, p) \in States(t)
    BY <1>2, <1>4, CanonicalizeIs, WalkTyped
<1>6. PICK m \in Nat : After(t, St(<<>>, a))[m] = St(a, <<>>)
    BY HereIsReached
<1>7. St(<<>>, a) \in States(t) /\ More(St(<<>>, a), q) = St(<<>>, p)
    <2>1. St(<<>>, a) \in States(t)
        BY <1>1, HereIs, StateTyped
    <2> QED BY <1>2, <2>1, StIs DEF More
<1>8. PICK k \in Nat : After(t, St(<<>>, p))[k] = St(a, q)
    <2>1. After(t, St(<<>>, a))[m].left = <<>> /\ After(t, St(<<>>, a))[m].at = a
        BY <1>6, StIs
    <2> QED BY <1>2, <1>7, <2>1, AfterThrough
<1>9. After(t, St(<<>>, p))[k + MaxSteps] = After(t, St(a, q))[MaxSteps]
    <2>1. After(t, St(<<>>, p))[k + MaxSteps] = After(t, After(t, St(<<>>, p))[k])[MaxSteps]
        BY <1>5, AfterAdd
    <2> QED BY <1>8, <2>1
<1>10. After(t, St(<<>>, p))[k + MaxSteps].left = <<>>
    <2>1. k + MaxSteps \in Nat /\ MaxSteps <= k + MaxSteps
        BY <1>5
    <2>2. After(t, St(<<>>, p))[k + MaxSteps] = After(t, St(<<>>, p))[MaxSteps]
        BY <1>5, <2>1, AfterEnd
    <2> QED BY <1>5, <2>2
<1> QED BY <1>5, <1>9, <1>10 DEF q

\* If a path comes to an end, a first part of it that gets anywhere gets there within the bound.
LEMMA FirstPartRests ==
    ASSUME NEW t, TreeOK(t), NEW p \in Seq(Parts), NEW q \in Seq(Parts), Rests(t, Cat(p, q)),
           NEW n \in Nat, After(t, St(<<>>, p))[n].left = <<>>
    PROVE  Canonicalize(t, p) # Fails
<1> DEFINE f == After(t, St(<<>>, p))
<1> DEFINE g == After(t, St(<<>>, Cat(p, q)))
<1> DEFINE y == f[MaxSteps]
<1>1. /\ MaxSteps \in Nat /\ St(<<>>, p) \in States(t)
      /\ Walk(t, p) = y /\ y \in States(t)
    BY WalkTyped
<1>2. Cat(p, q) \in Seq(Parts)
    BY CatTyped
<1>3. Walk(t, Cat(p, q)) = g[MaxSteps]
    BY <1>2, WalkTyped
<1>4. More(St(<<>>, p), q) = St(<<>>, Cat(p, q))
    BY StIs DEF More
<1>5. y.left = <<>>
    <2> SUFFICES ASSUME y.left # <<>> PROVE FALSE
        OBVIOUS
    <2>1. g[MaxSteps] = More(y, q)
        BY <1>1, <1>4, AfterMore
    <2>2. Step(t, More(y, q)) = More(y, q)
        BY <1>3, <2>1 DEF Rests
    <2> HIDE DEF y
    <2>3. More(Step(t, y), q) = More(y, q)
        BY <1>1, <2>2, StepMore
    <2>4. Step(t, y) = y
        BY <1>1, <2>3, StepTyped, MoreCancel
    <2>5. CASE MaxSteps <= n
        <3>1. f[n] = y
            BY <1>1, <2>4, <2>5, AfterRest DEF y
        <3> QED BY <3>1
    <2>6. CASE n <= MaxSteps
        <3>1. y = f[n]
            BY <1>1, <2>6, AfterEnd DEF y
        <3> QED BY <3>1
    <2> QED BY <1>1, <2>5, <2>6
<1> QED BY <1>1, <1>5, CanonicalizeIs

\* The deepest ancestor that is there is where the kernel's walk ends, and no link lies on what comes of it.
LEMMA Settles ==
    ASSUME NEW t, TreeOK(t), AllLead(t), NEW p \in Seq(Names), Rests(t, p)
    PROVE  \E c \in Here(t), r \in Seq(Names) :
               /\ Walk(t, p) = St(c, r)
               /\ CanonicalizeDeepest(t, p) = Cat(c, r)
               /\ NoLinkOn(t, Cat(c, r))
<1>1. PICK q \in Seq(Names), r \in Seq(Names) :
          /\ p = Cat(q, r) /\ Canonicalize(t, q) # Fails
          /\ CanonicalizeDeepest(t, p) = Cat(Canonicalize(t, q), r)
          /\ r # <<>> => \E x \in Names, k \in Seq(Names) :
                            r = Cons(x, k) /\ Canonicalize(t, Append(q, x)) = Fails
    BY DeepestIs
<1> DEFINE c == Canonicalize(t, q)
<1>2. p \in Seq(Parts) /\ q \in Seq(Parts) /\ r \in Seq(Parts)
    BY NamesAreParts
<1>3. /\ MaxSteps \in Nat
      /\ St(<<>>, p) \in States(t) /\ Walk(t, p) = After(t, St(<<>>, p))[MaxSteps]
      /\ St(<<>>, q) \in States(t) /\ Walk(t, q) = After(t, St(<<>>, q))[MaxSteps]
    BY <1>2, WalkTyped
<1>4. c \in Here(t) /\ c \in Seq(Names) /\ After(t, St(<<>>, q))[MaxSteps] = St(c, <<>>)
    BY <1>1, <1>2, <1>3, CanonicalizeIs, HereIs
<1> HIDE DEF c
<1>5. After(t, St(<<>>, q))[MaxSteps].left = <<>> /\ After(t, St(<<>>, q))[MaxSteps].at = c
    BY <1>4, StIs
<1>6. \A l : More(St(<<>>, q), l) = St(<<>>, Cat(q, l))
    BY StIs DEF More
<1>7. PICK m \in Nat : m <= MaxSteps /\ After(t, St(<<>>, p))[m] = St(c, r)
    <2>1. \E m \in Nat : m <= MaxSteps /\ After(t, More(St(<<>>, q), r))[m] = St(c, r)
        BY <1>2, <1>3, <1>5, AfterThrough
    <2> QED BY <1>1, <1>6, <2>1
<1>8. ASSUME Step(t, St(c, r)) = St(c, r) PROVE Walk(t, p) = St(c, r)
    <2>1. After(t, St(<<>>, p))[MaxSteps] = After(t, St(<<>>, p))[m]
        BY <1>3, <1>7, <1>8, AfterRest
    <2> QED BY <1>3, <1>7, <2>1
<1>9. ASSUME Step(t, St(c, r)) = St(c, r), NoLinkOn(t, Cat(c, r))
      PROVE  \E b \in Here(t), l \in Seq(Names) :
                 /\ Walk(t, p) = St(b, l) /\ CanonicalizeDeepest(t, p) = Cat(b, l)
                 /\ NoLinkOn(t, Cat(b, l))
    BY <1>1, <1>4, <1>8, <1>9 DEF c
<1>10. CASE r = <<>>
    <2>1. Step(t, St(c, r)) = St(c, r)
        BY <1>10, StepAtEnd
    <2>2. Cat(c, r) = c /\ NoLinkOn(t, c)
        BY <1>4, <1>10, CatEmpty, NoLinkAbove
    <2> QED BY <1>9, <2>1, <2>2
<1>11. CASE r # <<>>
    <2>1. PICK x \in Names, k \in Seq(Names) : r = Cons(x, k) /\ Canonicalize(t, Append(q, x)) = Fails
        BY <1>1, <1>11
    <2> DEFINE one == Cons(x, <<>>)
    <2> DEFINE qx == Append(q, x)
    <2>2. /\ one \in Seq(Parts) /\ qx = Cat(q, one) /\ qx \in Seq(Parts)
          /\ p = Cat(qx, k) /\ k \in Seq(Parts)
        <3>1. <<>> \in Seq(Parts) /\ <<>> \in Seq(Names) /\ x \in Parts /\ k \in Seq(Parts)
            BY EmptyTyped, NamesAreParts DEF Parts
        <3>2. one \in Seq(Parts)
            BY <3>1, ConsTyped
        <3>3. qx \in Seq(Names) /\ qx = Cat(q, one) /\ Cat(qx, k) = Cat(q, Cons(x, k))
            BY AppendCat
        <3>4. qx \in Seq(Parts)
            BY <3>3, NamesAreParts
        <3> QED BY <1>1, <2>1, <3>1, <3>2, <3>3, <3>4
    <2> HIDE DEF qx, one
    <2>3. \A n \in Nat : After(t, St(c, one))[n].left # <<>>
        <3> SUFFICES ASSUME NEW n \in Nat, After(t, St(c, one))[n].left = <<>> PROVE FALSE
            OBVIOUS
        <3>1. PICK j \in Nat : After(t, St(<<>>, qx))[j] = St(c, one)
            <4>1. \E j \in Nat : j <= MaxSteps /\ After(t, More(St(<<>>, q), one))[j] = St(c, one)
                BY <1>3, <1>5, <2>2, AfterThrough
            <4> QED BY <1>6, <2>2, <4>1
        <3>2. St(<<>>, qx) \in States(t)
            BY <2>2, WalkTyped
        <3>3. After(t, St(<<>>, qx))[j + n] = After(t, After(t, St(<<>>, qx))[j])[n]
            BY <3>2, AfterAdd
        <3>4. After(t, St(<<>>, qx))[j + n].left = <<>> /\ j + n \in Nat
            BY <3>1, <3>3
        <3>5. Rests(t, Cat(qx, k))
            BY <2>2
        <3>6. Canonicalize(t, qx) # Fails
            BY <2>2, <3>4, <3>5, FirstPartRests
        <3> QED BY <2>1, <3>6 DEF qx
    <2>4. At(t, c) # Dir \/ At(t, Append(c, x)) = Missing
        <3> SUFFICES ASSUME At(t, c) = Dir, At(t, Append(c, x)) # Missing PROVE FALSE
            OBVIOUS
        <3>1. CASE At(t, Append(c, x)).kind = "link"
            <4>1. \E n \in Nat : After(t, St(c, one))[n].left = <<>>
                BY <1>4, <3>1, LinkLeads DEF one
            <4> QED BY <2>3, <4>1
        <3>2. CASE At(t, Append(c, x)) \in {Dir, File}
            <4>1. <<>> \in Seq(Parts)
                BY EmptyTyped
            <4>2. \A l \in Seq(Parts) : Step(t, St(c, Cons(x, l))) = St(Append(c, x), l)
                BY <3>2, StepName
            <4>3. Step(t, St(c, one)) = St(Append(c, x), <<>>)
                BY <4>1, <4>2 DEF one
            <4>4. St(c, one) \in States(t)
                BY <1>4, <2>2, StateTyped
            <4>5. After(t, St(c, one))[0] = St(c, one) /\ After(t, St(c, one))[0 + 1] = Step(t, After(t, St(c, one))[0])
                BY <4>4, AfterIs
            <4>6. After(t, St(c, one))[0 + 1].left = <<>>
                BY <4>3, <4>5, StIs
            <4> QED BY <2>3, <4>6
        <3>3. At(t, Append(c, x)) \in Nodes
            BY AtTyped
        <3> QED BY <3>1, <3>2, <3>3, KindOf
    <2>5. At(t, Append(c, x)) = Missing
        BY <1>4, <2>4 DEF TreeOK
    <2>6. Step(t, St(c, r)) = St(c, r)
        <3>1. CASE At(t, c) # Dir
            BY <3>1, StepBelowFile
        <3>2. CASE At(t, c) = Dir
            BY <2>1, <2>2, <2>5, <3>2, StepName
        <3> QED BY <3>1, <3>2
    <2>7. NoLinkOn(t, Cat(c, r))
        BY <1>4, <2>1, <2>5, NoLinkBelow
    <2> QED BY <1>9, <2>6, <2>7
<1> QED BY <1>10, <1>11

-----------------------------------------------------------------------------
(* The same path on two trees.                                             *)

\* As long as a step on t is the step of the walk on u or none, t's walk is u's until it stays.
Follows(t, u, s) ==
    \A k \in Nat : After(u, s)[k] \in States(t) =>
        Step(t, After(u, s)[k]) \in {After(u, s)[k], Step(u, After(u, s)[k])}

LEMMA WalksAgree ==
    ASSUME NEW t, TreeOK(t), NEW u, TreeOK(u), NEW s \in States(t), s \in States(u),
           Follows(t, u, s), NEW n \in Nat
    PROVE  \E j \in Nat : /\ j <= n /\ After(t, s)[n] = After(u, s)[j]
                          /\ j = n \/ Step(t, After(t, s)[n]) = After(t, s)[n]
<1> DEFINE f == After(t, s)
<1> DEFINE g == After(u, s)
<1> DEFINE T == {i \in Nat : \E j \in Nat : /\ j <= i /\ f[i] = g[j]
                                            /\ j = i \/ Step(t, f[i]) = f[i]}
<1>1. f[0] = s /\ \A i \in Nat : f[i + 1] = Step(t, f[i]) /\ f[i] \in States(t)
    BY AfterIs
<1>2. g[0] = s /\ \A i \in Nat : g[i + 1] = Step(u, g[i])
    BY AfterIs
<1>3. \A i \in Nat : g[i] \in States(t) => Step(t, g[i]) \in {g[i], Step(u, g[i])}
    BY DEF Follows
<1> HIDE DEF f, g
<1>4. 0 \in T
    <2>1. 0 <= 0 /\ f[0] = g[0]
        BY <1>1, <1>2
    <2> QED BY <2>1
<1>5. ASSUME NEW i \in Nat, i \in T PROVE i + 1 \in T
    <2>1. PICK j \in Nat : j <= i /\ f[i] = g[j] /\ (j = i \/ Step(t, f[i]) = f[i])
        BY <1>5
    <2>2. CASE Step(t, f[i]) = f[i]
        <3>1. f[i + 1] = f[i]
            BY <1>1, <2>2
        <3>2. j <= i + 1 /\ f[i + 1] = g[j] /\ Step(t, f[i + 1]) = f[i + 1]
            BY <2>1, <2>2, <3>1
        <3> QED BY <3>2
    <2>3. CASE Step(t, f[i]) # f[i]
        <3>1. j = i /\ f[i] = g[i]
            BY <2>1, <2>3
        <3>2. Step(t, g[i]) = Step(u, g[i])
            BY <1>1, <1>3, <2>3, <3>1
        <3>3. f[i + 1] = g[i + 1]
            BY <1>1, <1>2, <3>1, <3>2
        <3>4. i + 1 \in Nat /\ i + 1 <= i + 1
            OBVIOUS
        <3> QED BY <3>3, <3>4
    <2> QED BY <2>2, <2>3
<1>6. n \in T
    <2> HIDE DEF T
    <2> QED BY <1>4, <1>5, Induct
<1>7. \E j \in Nat : j <= n /\ f[n] = g[j] /\ (j = n \/ Step(t, f[n]) = f[n])
    BY <1>6
<1> QED BY <1>7 DEF f, g

\* A step on two trees with the same links: it is the same where both have a place for it.
LEMMA StepsAgree ==
    ASSUME NEW t, TreeOK(t), NEW u, TreeOK(u), SameLinks(t, u),
           NEW a \in Here(t), NEW x \in Parts, NEW l \in Seq(Parts),
           Step(t, St(a, Cons(x, l))) # St(a, Cons(x, l)), At(u, a) = Dir,
           x # ".." => At(u, Append(a, x)) # Missing
    PROVE  Step(t, St(a, Cons(x, l))) = Step(u, St(a, Cons(x, l)))
<1> DEFINE s == St(a, Cons(x, l))
<1>1. At(t, a) = Dir
    BY StepBelowFile
<1>2. CASE x = ".."
    <2>1. Step(t, s) = St(Parent(a), l) /\ Step(u, s) = St(Parent(a), l)
        BY <1>1, <1>2, StepUp
    <2> QED BY <2>1
<1>3. CASE x # ".."
    <2> DEFINE n == At(t, Append(a, x))
    <2> DEFINE m == At(u, Append(a, x))
    <2>1. x \in Names /\ n \in Nodes /\ m \in Nodes
        BY <1>3, AtTyped DEF Parts
    <2>2. /\ n = Missing => Step(t, s) = s
          /\ n \in {Dir, File} => Step(t, s) = St(Append(a, x), l)
          /\ n.kind = "link" => Step(t, s) = St(IF n.to.abs THEN <<>> ELSE a, Cat(n.to.parts, l))
        BY <1>1, <2>1, StepName
    <2>3. /\ m \in {Dir, File} => Step(u, s) = St(Append(a, x), l)
          /\ m.kind = "link" => Step(u, s) = St(IF m.to.abs THEN <<>> ELSE a, Cat(m.to.parts, l))
        BY <2>1, StepName
    <2>4. n.kind = "link" \/ m.kind = "link" => n = m
        BY DEF SameLinks
    <2>5. m # Missing /\ n # Missing
        BY <1>3, <2>2
    <2> HIDE DEF n, m, s
    <2>6. (n \in {Dir, File} \/ n.kind = "link") /\ (m \in {Dir, File} \/ m.kind = "link")
        BY <2>1, <2>5, KindOf
    <2>7. ASSUME n.kind = "link" PROVE Step(t, s) = Step(u, s)
        <3>1. n = m
            BY <2>4, <2>7
        <3> QED BY <2>2, <2>3, <2>7, <3>1
    <2>8. ASSUME n.kind # "link" PROVE Step(t, s) = Step(u, s)
        <3>1. n \in {Dir, File} /\ m \in {Dir, File}
            BY <2>4, <2>6, <2>8
        <3> QED BY <2>2, <2>3, <3>1
    <2>9. Step(t, s) = Step(u, s)
        BY <2>7, <2>8
    <2> QED BY <2>9 DEF s
<1> QED BY <1>2, <1>3

\* A link that leads somewhere does so when more is there.
LEMMA LeadsStays ==
    ASSUME NEW t, TreeOK(t), NEW u, TreeOK(u), SameLinks(t, u), AllLead(t),
           \A q : At(t, q) # Missing => At(u, q) = At(t, q)
    PROVE  AllLead(u)
<1> SUFFICES ASSUME NEW p \in Places, At(u, p).kind = "link" PROVE Canonicalize(u, p) # Fails
    BY DEF AllLead, Dangles
<1>1. At(t, p).kind = "link"
    BY DEF SameLinks
<1>2. Canonicalize(t, p) # Fails
    BY <1>1 DEF AllLead, Dangles
<1>3. p \in Seq(Parts)
    BY PlaceIs, NamesAreParts
<1> DEFINE s == St(<<>>, p)
<1>4. /\ MaxSteps \in Nat /\ s \in States(t) /\ s \in States(u)
      /\ Walk(t, p) = After(t, s)[MaxSteps] /\ Walk(u, p) = After(u, s)[MaxSteps]
    BY <1>3, WalkTyped
<1>5. \A w \in States(t) : Step(t, w) \in {w, Step(u, w)}
    <2> TAKE w \in States(t)
    <2>1. PICK a \in Here(t) : \/ w = St(a, <<>>)
                               \/ \E x \in Parts, l \in Seq(Parts) : w = St(a, Cons(x, l))
        BY StateCases
    <2>2. CASE w = St(a, <<>>)
        BY <2>2, StepAtEnd
    <2>3. ASSUME NEW x \in Parts, NEW l \in Seq(Parts), w = St(a, Cons(x, l)), Step(t, w) # w
          PROVE  Step(t, w) = Step(u, w)
        <3>1. At(t, a) = Dir
            BY <2>3, StepBelowFile
        <3>2. At(u, a) = Dir
            BY <3>1, KindOf
        <3>3. x # ".." => At(u, Append(a, x)) # Missing
            <4> SUFFICES ASSUME x # ".." PROVE At(t, Append(a, x)) # Missing
                OBVIOUS
            <4>1. x \in Names
                BY DEF Parts
            <4> QED BY <2>3, <3>1, <4>1, StepName
        <3> QED BY <2>3, <3>2, <3>3, StepsAgree
    <2> QED BY <2>1, <2>2, <2>3
<1> HIDE DEF s
<1>6. PICK j \in Nat : j <= MaxSteps /\ After(t, s)[MaxSteps] = After(u, s)[j]
    <2>1. Follows(t, u, s)
        BY <1>5 DEF Follows
    <2> QED BY <1>4, <2>1, WalksAgree
<1>7. After(u, s)[j].left = <<>>
    BY <1>2, <1>3, <1>4, <1>6, CanonicalizeIs
<1>8. After(u, s)[MaxSteps].left = <<>>
    BY <1>4, <1>6, <1>7, AfterEnd
<1> QED BY <1>3, <1>4, <1>8, CanonicalizeIs

\* What a path resolved to once, it still stands for while no link leads nowhere.
LEMMA WasIsReal ==
    ASSUME NEW t, TreeOK(t), AllLead(t), NEW u, TreeOK(u), SameLinks(u, t),
           NEW p \in Seq(Names), Canonicalize(u, p) # Fails
    PROVE  CanonicalizeDeepest(t, p) = Canonicalize(u, p)
<1> DEFINE s == St(<<>>, p)
<1> DEFINE R == Canonicalize(u, p)
<1> DEFINE U == After(u, s)
<1> DEFINE V == After(t, s)
<1>1. p \in Seq(Parts) /\ SameLinks(t, u)
    BY NamesAreParts DEF SameLinks
<1>2. /\ MaxSteps \in Nat /\ s \in States(t) /\ s \in States(u)
      /\ Walk(u, p) = U[MaxSteps] /\ Walk(t, p) = V[MaxSteps]
    BY <1>1, WalkTyped
<1>3. R \in Here(u) /\ R \in Seq(Names) /\ U[MaxSteps] = St(R, <<>>)
    BY <1>1, <1>2, CanonicalizeIs, HereIs
<1> HIDE DEF R, s
<1>4. \A k \in Nat : U[k] \in States(u)
    <2>1. U \in [Nat -> States(u)]
        BY <1>2, AfterIs
    <2> QED BY <2>1
<1>5. ASSUME NEW k \in Nat, Step(u, U[k]) = U[k] PROVE U[k].left = <<>>
    <2>1. CASE k <= MaxSteps
        <3>1. U[MaxSteps] = U[k]
            BY <1>2, <1>5, <2>1, AfterRest
        <3> QED BY <1>3, <3>1, StIs
    <2>2. CASE MaxSteps <= k
        <3>1. U[MaxSteps].left = <<>>
            BY <1>3, StIs
        <3>2. U[k] = U[MaxSteps]
            BY <1>2, <2>2, <3>1, AfterEnd
        <3> QED BY <3>1, <3>2
    <2> QED BY <1>2, <2>1, <2>2
<1>6. \A k \in Nat : U[k] \in States(t) => Step(t, U[k]) \in {U[k], Step(u, U[k])}
    <2> SUFFICES ASSUME NEW k \in Nat, U[k] \in States(t), Step(t, U[k]) # U[k]
                 PROVE  Step(t, U[k]) = Step(u, U[k])
        OBVIOUS
    <2> DEFINE w == U[k]
    <2>1. w \in States(t) /\ Step(t, w) # w /\ (Step(u, w) = w => w.left = <<>>)
        BY <1>5
    <2> HIDE DEF w, U
    <2>2. PICK a \in Here(t) : \/ w = St(a, <<>>)
                               \/ \E x \in Parts, l \in Seq(Parts) : w = St(a, Cons(x, l))
        BY <2>1, StateCases
    <2>3. w # St(a, <<>>)
        BY <2>1, StepAtEnd
    <2>4. PICK x \in Parts, l \in Seq(Parts) : w = St(a, Cons(x, l))
        BY <2>2, <2>3
    <2>5. Step(u, w) # w
        <3>1. w.left = Cons(x, l)
            BY <2>4, StIs
        <3>2. w.left # <<>>
            BY <3>1, ConsTyped
        <3> QED BY <2>1, <3>2
    <2>6. At(u, a) = Dir
        BY <2>4, <2>5, StepBelowFile
    <2>7. x # ".." => At(u, Append(a, x)) # Missing
        <3> SUFFICES ASSUME x # ".." PROVE At(u, Append(a, x)) # Missing
            OBVIOUS
        <3>1. x \in Names
            BY DEF Parts
        <3> QED BY <2>4, <2>5, <2>6, <3>1, StepName
    <2>8. Step(t, w) = Step(u, w)
        BY <1>1, <2>1, <2>4, <2>6, <2>7, StepsAgree
    <2> QED BY <2>8 DEF w
<1>7. PICK j \in Nat : /\ j <= MaxSteps /\ V[MaxSteps] = U[j]
                       /\ j = MaxSteps \/ Step(t, V[MaxSteps]) = V[MaxSteps]
    <2>1. Follows(t, u, s)
        BY <1>6 DEF Follows
    <2> QED BY <1>2, <2>1, WalksAgree
<1>8. Rests(t, p)
    <2>1. CASE j = MaxSteps
        <3>1. V[MaxSteps] = St(R, <<>>)
            BY <1>3, <1>7, <2>1
        <3>2. Step(t, V[MaxSteps]) = V[MaxSteps]
            BY <3>1, StepAtEnd
        <3> QED BY <1>2, <3>2 DEF Rests
    <2>2. CASE Step(t, V[MaxSteps]) = V[MaxSteps]
        BY <1>2, <2>2 DEF Rests
    <2> QED BY <1>7, <2>1, <2>2
<1>9. PICK c \in Here(t), q \in Seq(Names) : /\ Walk(t, p) = St(c, q)
                                             /\ CanonicalizeDeepest(t, p) = Cat(c, q)
                                             /\ NoLinkOn(t, Cat(c, q))
    BY <1>8, Settles
<1>10. NoLinkOn(u, Cat(c, q))
    BY <1>1, <1>9 DEF NoLinkOn, SameLinks
<1>11. U[j] = St(c, q) /\ c \in Here(u)
    <2>1. U[j] = St(c, q)
        BY <1>2, <1>7, <1>9
    <2>2. St(c, q) \in States(u)
        BY <1>4, <2>1
    <2>3. \A w \in States(u) : w.at \in Here(u)
        BY StIs DEF States
    <2>4. c \in Here(u)
        BY <2>2, <2>3, StIs
    <2> QED BY <2>1, <2>4
<1>12. PICK d \in Nat : After(u, St(c, q))[d] = St(R, <<>>)
    <2>1. MaxSteps - j \in Nat /\ j + (MaxSteps - j) = MaxSteps
        BY <1>2, <1>7
    <2>2. U[j + (MaxSteps - j)] = After(u, U[j])[MaxSteps - j]
        BY <1>2, <2>1, AfterAdd
    <2> QED BY <1>3, <1>11, <2>1, <2>2
<1>13. PICK b \in Here(u), m \in Seq(Names) :
           After(u, St(c, q))[d] = St(b, m) /\ Cat(b, m) = Cat(c, q)
    BY <1>10, <1>11, PlainWalk
<1>14. R = Cat(c, q)
    <2>1. b = R /\ m = <<>>
        BY <1>12, <1>13, StIs
    <2> QED BY <1>3, <1>13, <2>1, CatEmpty
<1> QED BY <1>9, <1>14 DEF R

-----------------------------------------------------------------------------
(* Requests that passed.                                                   *)

\* What the gate found when it checked the request still holds: its path is where the kernel
\* ends, below a root and not below a denied path, and no link can lead away from it.
RequestInv ==
    request # NoRequest /\ request.settled =>
        /\ AllLead(tree)
        /\ request.path \in Seq(Names) /\ NoLinkOn(tree, request.path)
        /\ \E i \in DOMAIN gate.roots : IsUnder(request.path, gate.roots[i])
        /\ \A i \in DOMAIN gate.deny : ~IsUnder(request.path, gate.deny[i])

LEMMA AskSettled ==
    ASSUME FilesInv, NEW asked \in Requests, Ask(asked)
    PROVE  RequestInv'
<1> DEFINE p == JoinLikeUpstream(Root(gate), asked)
<1> DEFINE path == Resolved(tree, gate, asked)
<1> DEFINE settled == NothingDangles /\ Rests(tree, p)
<1>1. /\ gate # NoGate /\ Check(tree, gate, asked) /\ tree' = tree /\ gate' = gate
      /\ \E op : request' = [op |-> op, path |-> path, settled |-> settled]
    BY DEF Ask
<1>2. request'.path = path /\ request'.settled = settled
    <2> HIDE DEF p, path, settled
    <2> QED BY <1>1
<1>3. p \in Seq(Names)
    BY <1>1, RootTyped, JoinTyped
<1>4. path = CanonicalizeDeepest(tree, p)
    BY DEF Resolved
<1>5. /\ \E i \in DOMAIN gate.roots : IsUnder(path, gate.roots[i])
      /\ \A i \in DOMAIN gate.deny : ~IsUnder(path, gate.deny[i])
    BY <1>1 DEF Check
<1> HIDE DEF p, path
<1>6. ASSUME NothingDangles, Rests(tree, p)
      PROVE  AllLead(tree) /\ path \in Seq(Names) /\ NoLinkOn(tree, path)
    <2>1. AllLead(tree)
        BY <1>6 DEF AllLead, NothingDangles
    <2>2. TreeOK(tree)
        BY DEF FilesInv
    <2>3. PICK c \in Here(tree), r \in Seq(Names) :
              CanonicalizeDeepest(tree, p) = Cat(c, r) /\ NoLinkOn(tree, Cat(c, r))
        BY <1>3, <1>6, <2>1, <2>2, Settles
    <2>4. Cat(c, r) \in Seq(Names)
        <3>1. c \in Seq(Names)
            BY <2>2, HereIs
        <3> QED BY <3>1, CatTyped
    <2> QED BY <1>4, <2>1, <2>3, <2>4
<1>7. request'.settled => AllLead(tree) /\ path \in Seq(Names) /\ NoLinkOn(tree, path)
    <2>1. settled => AllLead(tree) /\ path \in Seq(Names) /\ NoLinkOn(tree, path)
        BY <1>6
    <2> HIDE DEF settled
    <2> QED BY <1>2, <2>1
<1> HIDE DEF settled
<1> QED BY <1>1, <1>2, <1>5, <1>7 DEF RequestInv

LEMMA RequestInvStep ==
    ASSUME FilesInv, RequestInv, [FilesNext]_filesVars
    PROVE  RequestInv'
<1>1. ASSUME request' = NoRequest PROVE RequestInv'
    BY <1>1 DEF RequestInv
<1>2. CASE BuildGate
    <2>1. request = NoRequest /\ request' = request
        BY <1>2 DEF BuildGate, FilesInv
    <2> QED BY <1>1, <2>1
<1>3. CASE ProcessStops
    BY <1>1, <1>3 DEF ProcessStops
<1>4. ASSUME NEW asked \in Requests, Ask(asked) PROVE RequestInv'
    BY <1>4, AskSettled
<1>5. CASE Perform
    BY <1>1, <1>5 DEF Perform
<1>6. ASSUME NEW p \in Places, Appears(p) PROVE RequestInv'
    <2>1. UNCHANGED <<gate, request>>
        BY <1>6 DEF Appears
    <2>2. TreeOK(tree)
        BY DEF FilesInv
    <2>3. /\ TreeOK(tree') /\ SameLinks(tree, tree')
          /\ \A q : At(tree, q) # Missing => At(tree', q) = At(tree, q)
        BY <1>6, <2>2, AppearsTree
    <2>4. AllLead(tree) => AllLead(tree')
        BY <2>2, <2>3, LeadsStays
    <2>5. \A r : NoLinkOn(tree, r) => NoLinkOn(tree', r)
        BY <2>3 DEF NoLinkOn, SameLinks
    <2> QED BY <2>1, <2>4, <2>5 DEF RequestInv
<1>7. CASE UNCHANGED filesVars
    <2>1. UNCHANGED <<tree, gate, request>>
        BY <1>7 DEF filesVars
    <2> QED BY <2>1 DEF RequestInv
<1> QED BY <1>2, <1>3, <1>4, <1>5, <1>6, <1>7 DEF FilesNext

LEMMA RequestInvariance == FilesSpec => [](FilesInv /\ RequestInv)
<1>1. FilesInit => FilesInv /\ RequestInv
    BY FilesInvInit DEF FilesInit, RequestInv
<1>2. FilesInv /\ RequestInv /\ [FilesNext]_filesVars => (FilesInv /\ RequestInv)'
    BY FilesInvStep, RequestInvStep
<1> QED BY <1>1, <1>2, PTL DEF FilesSpec

\* A configured path the gate resolved when it was built.
LEMMA ResolvedOnce ==
    ASSUME TreeOK(tree), AllLead(tree), NEW p \in Seq(Names), NEW real, Was(p, real)
    PROVE  CanonicalizeDeepest(tree, p) = real
<1>1. PICK u : TreeOK(u) /\ SameLinks(u, tree) /\ Canonicalize(u, p) = real /\ real # Fails
    BY DEF Was
<1> QED BY <1>1, WasIsReal

\* A request that passed is served below a configured root and not below a denied path
\* (gate.rs:63-64, config.rs:255), for any links, any configured paths written with names and any
\* requested path, whatever is mounted or made between the gate's building, the check and the operation.
THEOREM ServedFromRoots == FilesSpec => []ServedFromRootsOnly
<1>1. FilesInv /\ RequestInv => ServedFromRootsOnly
    <2> DEFINE path == request.path
    <2> SUFFICES ASSUME FilesInv, RequestInv, request # NoRequest, request.settled, RawIsReal
                 PROVE  /\ \E i \in DOMAIN Roots(config) :
                               IsUnder(Lands(tree, path), CanonicalizeDeepest(tree, Roots(config)[i]))
                        /\ \A i \in DOMAIN Deny(config) :
                               ~IsUnder(Lands(tree, path), CanonicalizeDeepest(tree, Deny(config)[i]))
        BY DEF ServedFromRootsOnly
    <2>1. TreeOK(tree) /\ config \in Configs /\ gate # NoGate /\ GateInv
        BY DEF FilesInv
    <2>2. /\ AllLead(tree) /\ path \in Seq(Names) /\ NoLinkOn(tree, path)
          /\ \E i \in DOMAIN gate.roots : IsUnder(path, gate.roots[i])
          /\ \A i \in DOMAIN gate.deny : ~IsUnder(path, gate.deny[i])
        BY DEF RequestInv
    <2>3. Lands(tree, path) = path
        BY <2>1, <2>2, PlainResolves
    <2>4. /\ \A j \in DOMAIN Roots(config) : Roots(config)[j] \in Seq(Names)
          /\ \A j \in DOMAIN Deny(config) : Deny(config)[j] \in Seq(Names)
        <3>1. Valid(config)
            BY <2>1 DEF GateInv
        <3>2. Roots(config) \in Seq(Seq(Names)) /\ Deny(config) \in Seq(Seq(Names))
            BY <2>1, <3>1, ConfigIs
        <3> QED BY <3>2, LenProperties, ElementOfSeq
    <2>5. \E i \in DOMAIN Roots(config) : IsUnder(path, CanonicalizeDeepest(tree, Roots(config)[i]))
        <3>1. PICK i \in DOMAIN gate.roots : IsUnder(path, gate.roots[i])
            BY <2>2
        <3>2. PICK j \in DOMAIN Roots(config) : Was(Roots(config)[j], gate.roots[i])
            BY <2>1 DEF GateInv
        <3>3. CanonicalizeDeepest(tree, Roots(config)[j]) = gate.roots[i]
            BY <2>1, <2>2, <2>4, <3>2, ResolvedOnce
        <3> QED BY <3>1, <3>3
    <2>6. ASSUME NEW i \in DOMAIN Deny(config)
          PROVE  ~IsUnder(path, CanonicalizeDeepest(tree, Deny(config)[i]))
        <3>1. i \in DOMAIN gate.deny
            BY <2>1 DEF GateInv
        <3>2. CASE gate.deny[i] = Deny(config)[i]
            BY <2>2, <3>1, <3>2 DEF RawIsReal
        <3>3. CASE Was(Deny(config)[i], gate.deny[i])
            <4>1. CanonicalizeDeepest(tree, Deny(config)[i]) = gate.deny[i]
                BY <2>1, <2>2, <2>4, <3>3, ResolvedOnce
            <4> QED BY <2>2, <3>1, <4>1
        <3> QED BY <2>1, <3>2, <3>3 DEF GateInv
    <2> QED BY <2>3, <2>5, <2>6
<1> QED BY <1>1, RequestInvariance, PTL
=============================================================================
