--------------------------------- MODULE Gate ---------------------------------
(***************************************************************************)
(* The path gate as functions of a file tree: how a requested path is      *)
(* joined, resolved and compared, and what the kernel makes of a path.     *)
(* A tree maps places to what is there; a place is the sequence of its     *)
(* names, <<>> the root directory.                                         *)
(***************************************************************************)
EXTENDS Naturals, Sequences, SequencesExt

CONSTANTS
    Names,      \* of files and directories
    MaxDepth,   \* bound: names of a place in a tree
    MaxSteps    \* bound: parts and links one resolution walks (the kernel's PATH_MAX and 40 links)

ASSUME GateAssumption == MaxDepth \in Nat /\ MaxSteps \in Nat /\ "." \notin Names /\ ".." \notin Names

Places == UNION {[1..n -> Names] : n \in 0..MaxDepth}

\* What can be at a place.
Missing == [kind |-> "none"]
Dir == [kind |-> "dir"]
File == [kind |-> "file"]
Link(to) == [kind |-> "link", to |-> to]

\* A path as it is written: from the root or not, names, "." and "..".
Abs(parts) == [abs |-> TRUE, parts |-> parts]
Rel(parts) == [abs |-> FALSE, parts |-> parts]

At(t, p) == IF p \in DOMAIN t THEN t[p] ELSE Missing
Exists(t, p) == At(t, p).kind # "none"
Parent(p) == IF p = <<>> THEN p ELSE Front(p)

-----------------------------------------------------------------------------
(* The kernel: a walk along the parts that follows links, to the place it  *)
(* gets to and the parts it could not walk.                                *)

\* One part, or one link: it stays where it is at the end, below what is no directory, and
\* at a name that is not there.
Step(t, w) ==
    LET next == Append(w.at, Head(w.left))
        node == At(t, next)
    IN CASE w.left = <<>> \/ At(t, w.at) # Dir -> w
         [] w.left # <<>> /\ At(t, w.at) = Dir ->
                CASE Head(w.left) = ".." -> [at |-> Parent(w.at), left |-> Tail(w.left)]
                  [] Head(w.left) # ".." /\ node = Missing -> w
                  [] Head(w.left) # ".." /\ node.kind \in {"dir", "file"} ->
                         [at |-> next, left |-> Tail(w.left)]
                  [] Head(w.left) # ".." /\ node.kind = "link" ->
                         [at |-> IF node.to.abs THEN <<>> ELSE w.at,
                          left |-> node.to.parts \o Tail(w.left)]

Start(p) == [at |-> <<>>, left |-> p]
After(t, w) == LET after[n \in Nat] == IF n = 0 THEN w ELSE Step(t, after[n - 1]) IN after
Walk(t, p) == After(t, Start(p))[MaxSteps]

\* It comes to an end: it is not cut off by the bound, as a cycle of links is.
Rests(t, p) == Step(t, Walk(t, p)) = Walk(t, p)

\* Path::canonicalize, of an absolute path; Fails, which is no place, is its error.
Fails == <<"..">>
Canonicalize(t, p) == LET w == Walk(t, p) IN IF w.left = <<>> THEN w.at ELSE Fails

\* Where a path that is opened or created ends: what is missing is made where the walk ended.
Lands(t, p) == LET w == Walk(t, p) IN w.at \o w.left

\* A link that leads nowhere.
Dangles(t, p) == At(t, p).kind = "link" /\ Canonicalize(t, p) = Fails

-----------------------------------------------------------------------------
(* PathGate.                                                               *)

IsUnder(p, base) == IsPrefix(base, p)

\* The same rules as upstream's: ".." goes up in the text of the path.
Pushed(out, part) == CASE part = "." -> out
                       [] part = ".." -> Parent(out)
                       [] part \notin {".", ".."} -> Append(out, part)
JoinLikeUpstream(root, request) ==
    LET out[n \in 0..Len(request.parts)] ==
            IF n = 0 THEN IF request.abs THEN <<>> ELSE root
            ELSE Pushed(out[n - 1], request.parts[n])
    IN out[Len(request.parts)]

\* variant: a path that does not exist is taken as it is written
CanonicalizeOrRaw(t, p) == LET real == Canonicalize(t, p) IN IF real = Fails THEN p ELSE real
\* variant: a path has to exist
CanonicalizeOnly(t, p) == Canonicalize(t, p)
\* The deepest ancestor that exists is resolved, the rest appended as it is written.
CanonicalizeDeepest(t, p) ==
    LET there == {n \in 0..Len(p) : Canonicalize(t, SubSeq(p, 1, n)) # Fails}
        deepest == CHOOSE n \in there : \A m \in there : m <= n
    IN Canonicalize(t, SubSeq(p, 1, deepest)) \o SubSeq(p, deepest + 1, Len(p))

\* PathGate::new: resolved once, and kept as written if there is nothing to resolve.
Canon(t, paths) ==
    [i \in 1..Len(paths) |->
        LET real == Canonicalize(t, paths[i]) IN IF real = Fails THEN paths[i] ELSE real]
NewGate(t, roots, deny) == [roots |-> Canon(t, roots), deny |-> Canon(t, deny)]

Root(g) == IF g.roots = <<>> THEN <<>> ELSE Head(g.roots)

\* The place a request stands for; and check, deny before roots.
Resolved(t, g, request) == CanonicalizeDeepest(t, JoinLikeUpstream(Root(g), request))
Check(t, g, request) ==
    LET real == Resolved(t, g, request)
    IN /\ \A i \in DOMAIN g.deny : ~IsUnder(real, g.deny[i])
       /\ \E i \in DOMAIN g.roots : IsUnder(real, g.roots[i])
=============================================================================
