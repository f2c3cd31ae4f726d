--------------------------------- MODULE Files ---------------------------------
(***************************************************************************)
(* The configured roots and deny list, the gate `run()` builds of them     *)
(* when it starts, and the requests that pass it: each is checked on one   *)
(* tree and performed, by path, on the tree there is by then.              *)
(***************************************************************************)
EXTENDS Gate, FiniteSets

CONSTANTS
    MaxParts,   \* bound: parts of a requested path
    MaxLinks,   \* bound: links in the tree
    Targets,    \* what links point to
    Configs,    \* what config.toml may say, or Defaults
    Home,       \* the place of $HOME
    ConfigDir   \* config_dir(), below it

ASSUME FilesAssumption ==
    /\ MaxParts \in Nat /\ MaxLinks \in Nat
    /\ Targets \subseteq [abs : BOOLEAN, parts : Seq(Names \cup {".."})]
    /\ {Home, ConfigDir} \subseteq Places

VARIABLES
    tree,
    config,     \* files.roots and files.deny as config.toml has them, or Defaults
    gate,       \* the gate of the process, or NoGate
    request     \* checked and not yet performed, or NoRequest; `settled`: checked while
                \* no link led nowhere, and resolved to an end

filesVars == <<tree, config, gate, request>>

NoGate == [roots |-> <<>>, deny |-> <<>>]
NoRequest == [op |-> "none", path |-> <<>>, settled |-> TRUE]
Defaults == [roots |-> <<>>, deny |-> <<>>, file |-> FALSE]

-----------------------------------------------------------------------------
(* Configuration.  "~" leads a path below $HOME.                           *)

ExpandTilde(raw) ==
    IF ~raw.abs /\ raw.parts # <<>> /\ Head(raw.parts) = "~"
    THEN Abs(Home \o Tail(raw.parts)) ELSE raw

Expanded(raws) == [i \in DOMAIN raws |-> ExpandTilde(raws[i]).parts]
AllAbsolute(raws) == \A i \in DOMAIN raws : ExpandTilde(raws[i]).abs

\* parse, and load without a file; a config that is not Valid ends the process.
Valid(c) == c.file => AllAbsolute(c.roots) /\ AllAbsolute(c.deny) /\ c.roots # <<>>
Roots(c) == IF c.file THEN Expanded(c.roots) ELSE <<Home>>
Deny(c) == Append(IF c.file THEN Expanded(c.deny) ELSE <<>>, ConfigDir)

\* Bound: the configured paths are written with names, without "..".
ASSUME ConfigsAssumption ==
    \A c \in Configs : Valid(c) => {Roots(c), Deny(c)} \subseteq Seq(Seq(Names))

\* resolve_roots: a root that is missing is dropped.
Present(t, roots) ==
    LET kept[n \in 0..Len(roots)] ==
            IF n = 0 THEN <<>>
            ELSE IF Canonicalize(t, roots[n]) = Fails THEN kept[n - 1]
                 ELSE Append(kept[n - 1], roots[n])
    IN kept[Len(roots)]

-----------------------------------------------------------------------------

Links(t) == {p \in Places : t[p].kind = "link"}

WellFormed(t) ==
    /\ t[<<>>] = Dir
    /\ \A p \in Places \ {<<>>} : t[p] # Missing => t[Parent(p)] = Dir
    /\ Cardinality(Links(t)) <= MaxLinks

Trees == {t \in [Places -> {Missing, Dir, File} \cup {Link(to) : to \in Targets}] : WellFormed(t)}

Requests ==
    LET parts == UNION {[1..n -> Names \cup {".."}] : n \in 0..MaxParts}
    IN {Abs(p) : p \in parts} \cup {Rel(p) : p \in parts}

FilesInit == tree \in Trees /\ config \in Configs /\ gate = NoGate /\ request = NoRequest

\* file_io's methods, and the cwd of exec, by what they do to the tree.
Ops == {"look", "write", "mkdir", "remove"}

NothingDangles == \A p \in Places : ~Dangles(tree, p)

\* run() builds the gates, if any root is there.
BuildGate ==
    /\ gate = NoGate /\ Valid(config) /\ Present(tree, Roots(config)) # <<>>
    /\ gate' = NewGate(tree, Present(tree, Roots(config)), Deny(config))
    /\ UNCHANGED <<tree, config, request>>

ProcessStops ==
    /\ gate # NoGate /\ gate' = NoGate /\ request' = NoRequest
    /\ UNCHANGED <<tree, config>>

\* GatedFileIo::ok, and exec's: a refused request leaves no trace.
Ask(asked) ==
    /\ gate # NoGate /\ request = NoRequest
    /\ Check(tree, gate, asked)
    /\ LET path == Resolved(tree, gate, asked)
           settled == NothingDangles /\ Rests(tree, JoinLikeUpstream(Root(gate), asked))
       IN \E op \in Ops : request' = [op |-> op, path |-> path, settled |-> settled]
    /\ UNCHANGED <<tree, config, gate>>

\* LocalFileIo, given an absolute path, uses it as it is: create_dir_all and the like.
Made(t, p, node) ==
    [q \in Places |-> IF q = p THEN node
                      ELSE IF IsUnder(p, q) /\ ~Exists(t, q) THEN Dir ELSE t[q]]
Removed(t, p) == [q \in Places |-> IF IsUnder(q, p) THEN Missing ELSE t[q]]

Done(t, op, p) ==
    CASE op = "write" /\ At(t, p) \in {Missing, File} -> Made(t, p, File)
      [] op = "mkdir" /\ ~Exists(t, p) -> Made(t, p, Dir)
      [] op = "remove" /\ Exists(t, p) /\ p # <<>> -> Removed(t, p)
      [] OTHER -> t

\* Bounds: nothing is made below MaxDepth, and no link is removed (the gate resolves the
\* configured paths once).
Perform ==
    /\ request # NoRequest
    /\ LET done == Done(tree, request.op, Lands(tree, request.path))
       IN tree' = IF WellFormed(done) /\ Links(done) = Links(tree) THEN done ELSE tree
    /\ request' = NoRequest
    /\ UNCHANGED <<config, gate>>

\* A mount, or a directory somebody makes, at any time.
Appears(p) ==
    /\ tree[p] = Missing /\ tree[Parent(p)] = Dir
    /\ tree' = [tree EXCEPT ![p] = Dir]
    /\ UNCHANGED <<config, gate, request>>

FilesNext ==
    \/ BuildGate \/ ProcessStops \/ Perform
    \/ \E asked \in Requests : Ask(asked)
    \/ \E p \in Places : Appears(p)

FilesSpec == FilesInit /\ [][FilesNext]_filesVars

-----------------------------------------------------------------------------
(* What it promises.                                                       *)

\* A path the gate had to keep as written, because nothing was there, is no way round a link.
RawIsReal ==
    \A i \in DOMAIN gate.deny :
        LET d == Deny(config)[i] IN gate.deny[i] = d => CanonicalizeDeepest(tree, d) = d

\* A request that passed ends up below a configured root and not below a denied path,
\* wherever the links lead and whatever was mounted, made or removed since the gate was built and
\* since the check (gate.rs:63-64, "if the path the gate checked differs from the path the
\* layer below opens, the check means nothing"; config.rs:255, "only narrows access").
\* Left out: links that dangled at the check, a request whose resolution was cut off by the bound, and
\* deny entries that were missing and lie behind a link.
ServedFromRootsOnly ==
    request # NoRequest /\ request.settled /\ RawIsReal =>
        LET place == Lands(tree, request.path)
            Real(p) == CanonicalizeDeepest(tree, p)
        IN /\ \E i \in DOMAIN Roots(config) : IsUnder(place, Real(Roots(config)[i]))
           /\ \A i \in DOMAIN Deny(config) : ~IsUnder(place, Real(Deny(config)[i]))

\* A path with no link on it, wherever links are: below a root that is there and not denied it
\* passes, existing or not, and lands where its text says (gate.rs:84-88).
PlainPathsPass ==
    gate # NoGate /\ request = NoRequest =>
        \A asked \in Requests :
            LET p == JoinLikeUpstream(Root(gate), asked)
            IN (/\ \A n \in 0..Len(p) : At(tree, SubSeq(p, 1, n)).kind # "link"
                /\ \E i \in DOMAIN gate.roots : IsUnder(p, gate.roots[i])
                /\ \A i \in DOMAIN gate.deny : ~IsUnder(p, gate.deny[i]))
                   => Check(tree, gate, asked) /\ Resolved(tree, gate, asked) = p /\ Lands(tree, p) = p
=============================================================================
