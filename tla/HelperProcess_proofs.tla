------------------------- MODULE HelperProcess_proofs -------------------------
(***************************************************************************)
(* The helper process and its pipes.  What it announces works, and the     *)
(* user is asked once: for every display server and every change of it.    *)
(* Frames arrive whole: for any limits and any number of frames.           *)
(***************************************************************************)
EXTENDS DesktopChild, Frames, Integers, SequenceTheorems, TLAPS

-----------------------------------------------------------------------------
(* The helper.                                                             *)

\* Only a helper that lives does something, and in which order.
Busy ==
    /\ child # "alive" => task = "none" /\ told = {} /\ backend = NoBackend
    /\ task = "none" <=> at = "none"
    /\ task = "probe" => told = {}
    /\ task = "input" => "input" \in told

\* On the server it was spawned on: what it keeps works, and what it told is what it keeps.
Proven == backend # NoBackend => server.displays = "some" /\ backend \in server.captures
Kept == at = "save" \/ "input" \in told => cache = "live"
ToldInv == "screen" \in told => backend # NoBackend
Unchanged == ~changed => child # "panicked" /\ cache # "dead" /\ Proven /\ Kept

\* The dialog is open only without a token; an approval is in the token, or about to be.
TokenInv == (asked => at = "open" /\ ~token) /\ (approved => token \/ at = "save")

ChildInv == ChildTypeOK /\ Busy /\ ToldInv /\ Unchanged /\ TokenInv

LEMMA ChildStart == ChildInit => ChildInv
BY DEF ChildInit, ChildInv, ChildTypeOK, Busy, ToldInv, Unchanged, Proven, Kept, TokenInv, NoBackend

-----------------------------------------------------------------------------
(* The steps.                                                              *)

\* The backend that is proven captures.
LEMMA CaptureProves ==
    ASSUME NEW s \in Servers
    PROVE  /\ CaptureWorks(s) \in Backends \cup {NoBackend}
           /\ CaptureWorks(s) # NoBackend => CaptureWorks(s) \in s.captures
<1>1. s.detect \in Backends
    BY DEF Servers
<1>2. \E b \in Backends : b # s.detect
    BY DEF Backends
<1>3. (CHOOSE b \in Backends : b # s.detect) \in Backends
    BY <1>2
<1> QED
    BY <1>1, <1>3 DEF CaptureWorks, BackendCandidates

LEMMA ServerStaysServer ==
    ASSUME server \in Servers, NEW field \in DOMAIN server, NEW s \in Servers
    PROVE  [server EXCEPT ![field] = s[field]] \in Servers
BY DEF Servers

LEMMA SpawnInv == ASSUME ChildInv, SpawnChild PROVE ChildInv'
BY DEF ChildInv, ChildTypeOK, Busy, ToldInv, Unchanged, Proven, Kept, TokenInv, SpawnChild, NoBackend

LEMMA EndsInv ==
    ASSUME ChildInv, NEW how \in {"none", "panicked"}, Ends(how),
           how = "panicked" => changed
    PROVE  ChildInv'
BY DEF ChildInv, ChildTypeOK, Busy, ToldInv, Unchanged, Proven, Kept, TokenInv, Ends, NoBackend

LEMMA ChangesInv == ASSUME ChildInv, ServerChanges PROVE ChildInv'
<1>1. server' \in Servers
    <2>1. server \in Servers
        BY DEF ChildInv, ChildTypeOK
    <2>2. PICK field \in DOMAIN server : \E s \in Servers : server' = [server EXCEPT ![field] = s[field]]
        BY DEF ServerChanges
    <2> QED
        BY <2>1, <2>2, ServerStaysServer
<1>2. cache' \in {"none", "live", "dead", "poisoned"} /\ changed' = TRUE
    BY DEF ServerChanges, ChildInv, ChildTypeOK
<1>3. UNCHANGED <<child, backend, task, at, told, token, asked, approved>>
    BY DEF ServerChanges
<1>4. ChildTypeOK'
    BY <1>1, <1>2, <1>3 DEF ChildInv, ChildTypeOK
<1>5. (Busy /\ ToldInv /\ TokenInv)'
    BY <1>3 DEF ChildInv, Busy, ToldInv, TokenInv
<1>6. Unchanged'
    BY <1>2 DEF Unchanged
<1> QED
    BY <1>4, <1>5, <1>6 DEF ChildInv

LEMMA ProbeInv == ASSUME ChildInv, ProbeScreen PROVE ChildInv'
<1> USE DEF ProbeScreen, ChildInv
<1>1. CASE server.displays = "some"
    <2>1. /\ backend' \in Backends \cup {NoBackend}
          /\ backend' # NoBackend => backend' \in server.captures
        BY <1>1, CaptureProves DEF ChildTypeOK
    <2>2. at' = "open" /\ UNCHANGED <<server, child, cache, task, told, changed, token, asked, approved>>
        BY <1>1
    <2>3. ChildTypeOK'
        BY <2>1, <2>2 DEF ChildTypeOK
    <2>4. (Busy /\ ToldInv /\ TokenInv)'
        BY <2>2 DEF Busy, ToldInv, TokenInv
    <2>5. Unchanged'
        BY <1>1, <2>1, <2>2 DEF Unchanged, Proven, Kept
    <2> QED
        BY <2>3, <2>4, <2>5
<1>2. CASE server.displays # "some"
    <2>1. /\ UNCHANGED <<server, child, backend, cache, changed, token, asked, approved>>
          /\ task' = "none" /\ at' = "none" /\ told' \subseteq {"screen"}
          /\ "screen" \in told' => backend # NoBackend
        BY <1>2 DEF Answered
    <2>2. child = "alive" /\ ~asked
        BY DEF Busy, ChildTypeOK, TokenInv
    <2> QED
        BY <2>1, <2>2 DEF ChildTypeOK, Busy, ToldInv, TokenInv, Unchanged, Proven, Kept
<1> QED
    BY <1>1, <1>2

\* An answer, given that the input it speaks of is there.
LEMMA AnswerInv ==
    ASSUME ChildInv, at \in {"open", "save"}, NEW ok \in BOOLEAN, Answered(ok), asked' = FALSE,
           UNCHANGED <<server, child, backend, changed>>,
           cache' \in {"none", "live", "dead", "poisoned"},
           ok \/ task = "input" => (changed \/ cache' = "live"), ~changed => cache' # "dead",
           token' \in BOOLEAN, approved' \in BOOLEAN, approved' => token'
    PROVE  ChildInv'
<1> USE DEF ChildInv, Answered
<1>1. task # "none" /\ child = "alive"
    BY DEF Busy, ChildTypeOK
<1>2. /\ task' = "none" /\ at' = "none"
      /\ "screen" \in told' => backend # NoBackend
      /\ "input" \in told' => ok \/ task = "input"
      /\ told' \subseteq {"screen", "input"}
    BY <1>1 DEF ChildTypeOK, Busy, ToldInv
<1>3. (ChildTypeOK /\ Busy /\ ToldInv /\ TokenInv)'
    BY <1>1, <1>2 DEF ChildTypeOK, Busy, ToldInv, TokenInv
<1>4. Unchanged'
    BY <1>1, <1>2 DEF Unchanged, Proven, Kept
<1> QED
    BY <1>3, <1>4

\* The steps of cached_input that end in an answer.
LEMMA CachedInv == ASSUME ChildInv, CachedInput PROVE ChildInv'
<1> USE DEF CachedInput
<1>1. changed \/ cache = "live"
    BY DEF ChildInv, Unchanged
<1>2. (token \in BOOLEAN /\ approved \in BOOLEAN) /\ (approved => token)
    BY DEF ChildInv, ChildTypeOK, TokenInv
<1> QED
    BY <1>1, <1>2, AnswerInv DEF ChildInv, ChildTypeOK, Unchanged

LEMMA FailsInv == ASSUME ChildInv, InputFails PROVE ChildInv'
<1> USE DEF InputFails
<1>1. task = "input" => changed
    BY DEF ChildInv, Busy, Unchanged, Kept
<1>2. (token \in BOOLEAN /\ approved \in BOOLEAN) /\ (approved => token)
    BY DEF ChildInv, ChildTypeOK, TokenInv
<1> QED
    BY <1>1, <1>2, AnswerInv DEF ChildInv, ChildTypeOK, Unchanged

LEMMA PanicsInv == ASSUME ChildInv, InputPanics PROVE ChildInv'
<1> USE DEF InputPanics
<1>1. CASE task = "probe"
    <2>1. (token \in BOOLEAN /\ approved \in BOOLEAN) /\ (approved => token)
        BY DEF ChildInv, ChildTypeOK, TokenInv
    <2> QED
        BY <1>1, <2>1, AnswerInv DEF ChildInv, ChildTypeOK, Unchanged
<1>2. CASE task # "probe"
    <2>1. task = "input"
        BY <1>2 DEF ChildInv, ChildTypeOK, Busy
    <2>2. changed
        BY <2>1 DEF ChildInv, Busy, Unchanged, Kept
    <2> QED
        BY <1>2, <2>2, EndsInv
<1> QED
    BY <1>1, <1>2

LEMMA SaveInv == ASSUME ChildInv, SaveToken PROVE ChildInv'
<1> USE DEF SaveToken
<1>1. changed \/ cache = "live"
    BY DEF ChildInv, Unchanged, Kept
<1>2. asked = FALSE /\ token' \in BOOLEAN /\ approved' \in BOOLEAN /\ (approved' => token')
    BY DEF ChildInv, ChildTypeOK, TokenInv
<1> QED
    BY <1>1, <1>2, AnswerInv DEF ChildInv, ChildTypeOK, Unchanged

LEMMA OpensInv == ASSUME ChildInv, InputOpens PROVE ChildInv'
<1> USE DEF InputOpens
<1>1. CASE Answered(TRUE)
    <2>1. (token \in BOOLEAN /\ approved \in BOOLEAN) /\ (approved => token)
        BY DEF ChildInv, ChildTypeOK, TokenInv
    <2> QED
        BY <1>1, <2>1, AnswerInv DEF ChildInv, ChildTypeOK, Unchanged
<1>2. CASE at' = "save" /\ UNCHANGED <<task, told>>
    BY <1>2 DEF ChildInv, ChildTypeOK, Busy, ToldInv, Unchanged, Proven, Kept, TokenInv
<1> QED
    BY <1>1, <1>2

LEMMA ChildStep == ChildInv /\ [ChildNext]_childVars => ChildInv'
<1> SUFFICES ASSUME ChildInv, [ChildNext]_childVars PROVE ChildInv'
    OBVIOUS
<1>1. CASE ChildGone
    BY <1>1, EndsInv DEF ChildGone
<1>2. CASE Screenshot
    <2>1. changed
        BY <1>2 DEF Screenshot, ChildInv, ToldInv, Unchanged, Proven
    <2> QED
        BY <1>2, <2>1, EndsInv DEF Screenshot
<1>3. CASE SpawnChild \/ ServerChanges \/ ProbeScreen
    BY <1>3, SpawnInv, ChangesInv, ProbeInv
<1>4. CASE CachedInput \/ InputPanics \/ InputFails \/ InputOpens \/ SaveToken
    BY <1>4, CachedInv, PanicsInv, FailsInv, OpensInv, SaveInv
<1>5. CASE InputCall
    <2> USE <1>5 DEF InputCall, ChildInv
    <2>1. child = "alive" /\ at = "none" /\ ~asked /\ (approved => token)
        BY DEF Busy, ChildTypeOK, TokenInv
    <2>2. (ChildTypeOK /\ Busy /\ ToldInv /\ TokenInv)'
        BY <2>1 DEF ChildTypeOK, Busy, ToldInv, TokenInv
    <2>3. Unchanged'
        BY DEF Unchanged, Proven, Kept
    <2> QED
        BY <2>2, <2>3
<1>6. CASE AskUser
    BY <1>6 DEF AskUser, ChildInv, ChildTypeOK, Busy, ToldInv, Unchanged, Proven, Kept, TokenInv
<1>7. CASE UserApproves
    BY <1>7 DEF UserApproves,
                ChildInv, ChildTypeOK, Busy, ToldInv, Unchanged, Proven, Kept, TokenInv
<1>8. CASE UNCHANGED childVars
    BY <1>8 DEF childVars, ChildInv, ChildTypeOK, Busy, ToldInv, Unchanged, Proven, Kept, TokenInv
<1> QED
    BY <1>1, <1>2, <1>3, <1>4, <1>5, <1>6, <1>7, <1>8 DEF ChildNext

LEMMA ChildInvariance == ChildSpec => []ChildInv
    BY ChildStart, ChildStep, PTL DEF ChildSpec

-----------------------------------------------------------------------------
(* What follows from it.                                                   *)

\* While the display server stays what it was, nothing panics out of the helper and what the
\* probe announced works (main.rs).
THEOREM AnnouncedOnlyIfItWorks == ChildSpec => []AnnouncedWorks
<1>1. ChildInv => AnnouncedWorks
    BY DEF ChildInv, ToldInv, Unchanged, Proven, Kept, AnnouncedWorks, CaptureSucceeds, Screen
<1> QED
    BY <1>1, ChildInvariance, PTL

\* Once the approval is on disk the portal's dialog does not open again (main.rs).
THEOREM DialogOnce == ChildSpec => []AskedOnce
<1>1. ChildInv => AskedOnce
    BY DEF ChildInv, TokenInv, AskedOnce
<1> QED
    BY <1>1, ChildInvariance, PTL

-----------------------------------------------------------------------------
(* The frames.                                                             *)

CellSet == [len : Nat] \cup [of : Nat]
FrameSet == [json : Seq(CellSet), blob : Seq(CellSet)]

\* The cells of a frame: two lengths of four and what they announce.
Size(f) == 8 + f.json + f.blob

-----------------------------------------------------------------------------
(* Texts of cells: one after the other, and cut out of one another.        *)

Text(s, n) == s \in Seq(CellSet) /\ Len(s) = n

Concat(s, t) == s \o t

\* u is s and t, one after the other.
Joined(s, m, t, n, u) ==
    /\ \A i \in 1..m : u[i] = s[i]
    /\ \A i \in 1..n : u[m + i] = t[i]

LEMMA ConcatIs ==
    ASSUME NEW s, NEW t, NEW m \in Nat, NEW n \in Nat, Text(s, m), Text(t, n)
    PROVE  Text(Concat(s, t), m + n) /\ Joined(s, m, t, n, Concat(s, t))
<1>1. /\ Concat(s, t) \in Seq(CellSet) /\ Len(Concat(s, t)) = m + n
      /\ \A i \in 1..(m + n) : Concat(s, t)[i] = IF i <= m THEN s[i] ELSE t[i - m]
    BY ConcatProperties DEF Text, Concat
<1>2. ASSUME NEW i \in 1..n PROVE Concat(s, t)[m + i] = t[i]
    <2>1. m + i \in 1..(m + n) /\ ~(m + i <= m) /\ (m + i) - m = i
        OBVIOUS
    <2> QED
        BY <1>1, <2>1
<1>3. ASSUME NEW i \in 1..m PROVE Concat(s, t)[i] = s[i]
    BY <1>1
<1> QED
    BY <1>1, <1>2, <1>3 DEF Text, Joined

LEMMA CutIs ==
    ASSUME NEW s, NEW n \in Nat, Text(s, n), NEW a \in Nat, NEW b \in Nat, a + b <= n
    PROVE  /\ Text(SubSeq(s, a + 1, a + b), b)
           /\ \A i \in 1..b : SubSeq(s, a + 1, a + b)[i] = s[a + i]
<1>1. \A i \in (a + 1)..(a + b) : s[i] \in CellSet
    BY DEF Text
<1>2. /\ SubSeq(s, a + 1, a + b) \in Seq(CellSet)
      /\ Len(SubSeq(s, a + 1, a + b)) = IF a + 1 <= a + b THEN (a + b) - (a + 1) + 1 ELSE 0
      /\ \A i \in 1..((a + b) - (a + 1) + 1) : SubSeq(s, a + 1, a + b)[i] = s[(a + 1) + i - 1]
    <2>1. a + 1 \in Int /\ a + b \in Int
        OBVIOUS
    <2> QED
        BY <1>1, <2>1, SubSeqProperties
<1>3. (a + b) - (a + 1) + 1 = b /\ \A i \in 1..b : (a + 1) + i - 1 = a + i
    OBVIOUS
<1> QED
    BY <1>2, <1>3 DEF Text

\* Texts with the same cells are the same.
LEMMA SameText ==
    ASSUME NEW s, NEW t, NEW n \in Nat, Text(s, n), Text(t, n), \A i \in 1..n : s[i] = t[i]
    PROVE  s = t
  BY SeqEqual DEF Text

-----------------------------------------------------------------------------
(* What write_frame puts into the pipe.                                    *)

LEMMA CellsIs ==
    ASSUME NEW n \in Nat, NEW c \in CellSet
    PROVE  Text(Cells(n, c), n) /\ \A i \in 1..n : Cells(n, c)[i] = c
<1>1. Cells(n, c) \in [1..n -> CellSet]
    BY DEF Cells
<1>2. Cells(n, c) \in Seq(CellSet)
    BY <1>1, SeqDef
<1>3. DOMAIN Cells(n, c) = 1..n
    BY DEF Cells
<1>4. Len(Cells(n, c)) = n
    BY <1>2, <1>3, LenProperties
<1> QED
    BY <1>2, <1>4 DEF Cells, Text

LEMMA BodyTyped ==
    ASSUME NEW f \in Bodies
    PROVE  f.json \in Nat /\ f.json >= 1 /\ f.blob \in Nat /\ Size(f) \in Nat /\ Size(f) >= 9
  BY FramesAssumption DEF Bodies, Size

LEMMA PartsAre ==
    ASSUME NEW n \in Nat, NEW id \in Nat
    PROVE  /\ Text(LengthCells(n), 4) /\ \A i \in 1..4 : LengthCells(n)[i] = [len |-> n]
           /\ Text(BodyCells(n, id), n) /\ \A i \in 1..n : BodyCells(n, id)[i] = [of |-> id]
<1>1. [len |-> n] \in CellSet /\ [of |-> id] \in CellSet
    BY DEF CellSet
<1> QED
    BY <1>1, CellsIs DEF LengthCells, BodyCells

LEMMA BodyIs ==
    ASSUME NEW n \in Nat, NEW id \in Nat
    PROVE  Text(BodyCells(n, id), n) /\ \A i \in 1..n : BodyCells(n, id)[i] = [of |-> id]
  BY PartsAre

\* Where the lengths and the bodies are.
LEMMA EncodedIs ==
    ASSUME NEW id \in Nat, NEW f \in Bodies
    PROVE  /\ Text(Encoded(id, f), Size(f))
           /\ Encoded(id, f)[1] = [len |-> f.json]
           /\ \A k \in 1..f.json : Encoded(id, f)[4 + k] = [of |-> id]
           /\ Encoded(id, f)[4 + f.json + 1] = [len |-> f.blob]
           /\ \A k \in 1..f.blob : Encoded(id, f)[8 + f.json + k] = [of |-> id]
<1> DEFINE j == f.json
           n == f.blob
           a == LengthCells(j)
           b == BodyCells(j, id)
           c == LengthCells(n)
           d == BodyCells(n, id)
           ab == Concat(a, b)
           abc == Concat(ab, c)
           e == Concat(abc, d)
<1>0. j \in Nat /\ j >= 1 /\ n \in Nat /\ 4 + j \in Nat /\ 4 + j + 4 \in Nat
    BY BodyTyped
<1>1. Encoded(id, f) = e /\ Size(f) = 8 + j + n
    BY DEF Encoded, Concat, Size
<1>2. /\ Text(a, 4) /\ \A i \in 1..4 : a[i] = [len |-> j]
      /\ Text(b, j) /\ \A i \in 1..j : b[i] = [of |-> id]
      /\ Text(c, 4) /\ \A i \in 1..4 : c[i] = [len |-> n]
      /\ Text(d, n) /\ \A i \in 1..n : d[i] = [of |-> id]
    BY <1>0, PartsAre
<1> HIDE DEF j, n, a, b, c, d
<1>3. Text(ab, 4 + j) /\ Joined(a, 4, b, j, ab)
    BY <1>0, <1>2, ConcatIs
<1> HIDE DEF ab
<1>4. Text(abc, 4 + j + 4) /\ Joined(ab, 4 + j, c, 4, abc)
    BY <1>0, <1>2, <1>3, ConcatIs
<1> HIDE DEF abc
<1>5. Text(e, 4 + j + 4 + n) /\ Joined(abc, 4 + j + 4, d, n, e)
    BY <1>0, <1>2, <1>4, ConcatIs
<1> HIDE DEF e
<1>6. /\ \A i \in 1..4 : e[i] = [len |-> j]
      /\ \A i \in 1..j : e[4 + i] = [of |-> id]
      /\ \A i \in 1..4 : e[4 + j + i] = [len |-> n]
      /\ \A i \in 1..n : e[4 + j + 4 + i] = [of |-> id]
    <2>1. \A i \in 1..4 : i \in 1..(4 + j) /\ i \in 1..(4 + j + 4) /\ 4 + j + i \in 1..(4 + j + 4)
        BY <1>0
    <2>2. \A i \in 1..j : 4 + i \in 1..(4 + j) /\ 4 + i \in 1..(4 + j + 4)
        BY <1>0
    <2> QED
        BY <2>1, <2>2, <1>2, <1>3, <1>4, <1>5 DEF Joined
<1>7. 4 + j + 4 + n = 8 + j + n /\ \A k \in 1..n : 4 + j + 4 + k = 8 + j + k
    BY <1>0
<1> QED
    BY <1>1, <1>5, <1>6, <1>7 DEF j, n

-----------------------------------------------------------------------------
(* The pipe: from frame g + 1, the next to be read, to frame l, the last   *)
(* written whole, each frame stands where the one before ends; behind them *)
(* stands the beginning of a frame whose writer died, or nothing.          *)

\* The first k cells of c are those of w behind p.
OnWire(w, p, c, k) == \A i \in 1..k : w[p + i] = c[i]

Layout(w, dead, g, l, start, body) ==
    /\ start \in [Nat -> Nat] /\ body \in [Nat -> Bodies]
    /\ \A i \in (g + 1)..(l + 1) : WithinLimits(body[i])
    /\ \A i, j \in (g + 1)..(l + 1) : i <= j => start[i] <= start[j]
    /\ \A i \in (g + 1)..l :
          /\ start[i + 1] = start[i] + Size(body[i])
          /\ OnWire(w, start[i] - start[g + 1], Encoded(i, body[i]), Size(body[i]))
    /\ \E n \in 0..(Size(body[l + 1]) - 1) :
          /\ Text(w, start[l + 1] - start[g + 1] + n)
          /\ OnWire(w, start[l + 1] - start[g + 1], Encoded(l + 1, body[l + 1]), n)
          /\ ~dead => n = 0

\* What stays on the wire when more is written behind it.
LEMMA OnWireKept ==
    ASSUME NEW w, NEW m \in Nat, NEW t, NEW n \in Nat, NEW u, Joined(w, m, t, n, u),
           NEW p \in Int, p >= 0, NEW k \in Nat, p + k <= m, NEW c, OnWire(w, p, c, k)
    PROVE  OnWire(u, p, c, k)
<1> SUFFICES ASSUME NEW i \in 1..k PROVE u[p + i] = c[i]
    BY DEF OnWire
<1>1. p + i \in 1..m
    OBVIOUS
<1> QED
    BY <1>1 DEF OnWire, Joined

LEMMA LayoutWritten ==
    ASSUME NEW w, NEW g \in Nat, NEW l \in Nat, g <= l, NEW start, NEW body,
           Layout(w, FALSE, g, l, start, body), NEW f \in Bodies, WithinLimits(f)
    PROVE  Layout(Concat(w, Encoded(l + 1, f)), FALSE, g, l + 1,
                  [start EXCEPT ![l + 2] = start[l + 1] + Size(f)],
                  [body EXCEPT ![l + 1] = f, ![l + 2] = f])
<1> DEFINE m == start[l + 1] - start[g + 1]
           c == Encoded(l + 1, f)
           u == Concat(w, c)
           start2 == [start EXCEPT ![l + 2] = start[l + 1] + Size(f)]
           body2 == [body EXCEPT ![l + 1] = f, ![l + 2] = f]
<1>0. start \in [Nat -> Nat] /\ body \in [Nat -> Bodies] /\ l + 1 \in Nat /\ l + 2 \in Nat
    BY DEF Layout
<1>1. Size(f) \in Nat /\ Size(f) >= 9 /\ Text(c, Size(f))
    BY <1>0, BodyTyped, EncodedIs
<1>2. m \in Nat
    <2>1. g + 1 \in (g + 1)..(l + 1) /\ l + 1 \in (g + 1)..(l + 1) /\ g + 1 <= l + 1
        OBVIOUS
    <2> QED
        BY <1>0, <2>1 DEF Layout
<1>3. Text(w, m)
    <2>1. PICK n \in 0..(Size(body[l + 1]) - 1) : Text(w, m + n) /\ n = 0
        BY DEF Layout
    <2> QED
        BY <2>1, <1>2
<1>4. Text(u, m + Size(f)) /\ Joined(w, m, c, Size(f), u)
    BY <1>1, <1>2, <1>3, ConcatIs
<1>5. /\ start2 \in [Nat -> Nat] /\ body2 \in [Nat -> Bodies]
      /\ \A i \in 1..(l + 1) : start2[i] = start[i]
      /\ \A i \in 1..l : body2[i] = body[i]
      /\ start2[l + 2] = start[l + 1] + Size(f) /\ body2[l + 1] = f /\ body2[l + 2] = f
    <2>1. start[l + 1] + Size(f) \in Nat
        BY <1>0, <1>1
    <2>2. start2 \in [Nat -> Nat] /\ body2 \in [Nat -> Bodies]
        BY <1>0, <2>1
    <2>3. \A i \in 1..(l + 1) : i \in Nat /\ i # l + 2
        OBVIOUS
    <2>4. \A i \in 1..l : i \in Nat /\ i # l + 1 /\ i # l + 2
        OBVIOUS
    <2>5. l + 1 # l + 2
        OBVIOUS
    <2>6. \A i \in 1..(l + 1) : start2[i] = start[i]
        BY <1>0, <2>3
    <2>7. \A i \in 1..l : body2[i] = body[i]
        BY <1>0, <2>4
    <2>8. start2[l + 2] = start[l + 1] + Size(f)
        BY <1>0
    <2>9. body2[l + 1] = f /\ body2[l + 2] = f
        BY <1>0, <2>5
    <2> QED
        BY <2>2, <2>6, <2>7, <2>8, <2>9
<1> HIDE DEF c, u, start2, body2
<1>6. \A i \in (g + 1)..(l + 2) : WithinLimits(body2[i])
    <2> SUFFICES ASSUME NEW i \in (g + 1)..(l + 2) PROVE WithinLimits(body2[i])
        OBVIOUS
    <2>1. CASE i <= l
        <3>1. i \in (g + 1)..(l + 1) /\ i \in 1..l
            BY <2>1
        <3> QED
            BY <3>1, <1>5 DEF Layout
    <2>2. CASE i = l + 1 \/ i = l + 2
        BY <2>2, <1>5
    <2> QED
        BY <2>1, <2>2
<1>7. \A i, j \in (g + 1)..(l + 2) : i <= j => start2[i] <= start2[j]
    <2> SUFFICES ASSUME NEW i \in (g + 1)..(l + 2), NEW j \in (g + 1)..(l + 2), i <= j
                 PROVE  start2[i] <= start2[j]
        OBVIOUS
    <2>1. CASE j <= l + 1
        <3>1. i \in (g + 1)..(l + 1) /\ j \in (g + 1)..(l + 1) /\ i \in 1..(l + 1) /\ j \in 1..(l + 1)
            BY <2>1
        <3> QED
            BY <3>1, <1>5 DEF Layout
    <2>2. CASE j = l + 2 /\ i <= l + 1
        <3>1. i \in (g + 1)..(l + 1) /\ i \in 1..(l + 1) /\ l + 1 \in (g + 1)..(l + 1)
            BY <2>2
        <3>2. start[i] <= start[l + 1]
            BY <3>1 DEF Layout
        <3> QED
            BY <3>1, <3>2, <2>2, <1>0, <1>1, <1>5
    <2>3. CASE i = l + 2 /\ j = l + 2
        BY <2>3, <1>5, <1>0
    <2> QED
        BY <2>1, <2>2, <2>3
<1>8. ASSUME NEW i \in (g + 1)..(l + 1)
      PROVE  /\ start2[i + 1] = start2[i] + Size(body2[i])
             /\ OnWire(u, start2[i] - start2[g + 1], Encoded(i, body2[i]), Size(body2[i]))
    <2>1. g + 1 \in 1..(l + 1) /\ i \in 1..(l + 1)
        OBVIOUS
    <2>2. start2[i] - start2[g + 1] = start[i] - start[g + 1]
        BY <2>1, <1>5
    <2>3. CASE i <= l
        <3>1. i \in (g + 1)..l /\ i \in 1..l /\ i + 1 \in 1..(l + 1)
            BY <2>3
        <3>2. body2[i] = body[i] /\ start2[i + 1] = start[i + 1] /\ start2[i] = start[i]
            BY <2>1, <3>1, <1>5
        <3>3. /\ start[i + 1] = start[i] + Size(body[i])
              /\ OnWire(w, start[i] - start[g + 1], Encoded(i, body[i]), Size(body[i]))
            BY <3>1 DEF Layout
        <3>4. start[i] >= start[g + 1] /\ start[i + 1] <= start[l + 1]
            <4>1. /\ g + 1 \in (g + 1)..(l + 1) /\ i + 1 \in (g + 1)..(l + 1)
                  /\ l + 1 \in (g + 1)..(l + 1)
                BY <3>1
            <4> QED
                BY <4>1 DEF Layout
        <3>5. Size(body[i]) \in Nat /\ start[i] \in Nat /\ start[g + 1] \in Nat /\ start[l + 1] \in Nat
            BY <1>0, <3>1, BodyTyped
        <3>6. /\ start[i] - start[g + 1] \in Int /\ start[i] - start[g + 1] >= 0
              /\ (start[i] - start[g + 1]) + Size(body[i]) <= m
            BY <3>3, <3>4, <3>5
        <3>7. OnWire(u, start[i] - start[g + 1], Encoded(i, body[i]), Size(body[i]))
            BY <3>3, <3>5, <3>6, <1>1, <1>2, <1>4, OnWireKept
        <3> QED
            BY <3>2, <3>3, <3>7, <2>2
    <2>4. CASE i = l + 1
        <3>1. start2[i + 1] = start2[i] + Size(body2[i]) /\ body2[i] = f
            BY <2>1, <2>4, <1>5
        <3>2. OnWire(u, m, c, Size(f))
            BY <1>4 DEF OnWire, Joined
        <3> QED
            BY <3>1, <3>2, <2>2, <2>4 DEF c
    <2> QED
        BY <2>3, <2>4
<1>9. \E n \in 0..(Size(body2[l + 2]) - 1) :
          /\ Text(u, start2[l + 2] - start2[g + 1] + n)
          /\ OnWire(u, start2[l + 2] - start2[g + 1], Encoded(l + 2, body2[l + 2]), n)
          /\ n = 0
    <2>1. 0 \in 0..(Size(body2[l + 2]) - 1)
        BY <1>1, <1>5
    <2>2. start2[l + 2] - start2[g + 1] + 0 = m + Size(f)
        <3>1. g + 1 \in 1..(l + 1)
            OBVIOUS
        <3> QED
            BY <3>1, <1>0, <1>1, <1>5
    <2>3. Text(u, start2[l + 2] - start2[g + 1] + 0)
        BY <2>2, <1>4
    <2>4. OnWire(u, start2[l + 2] - start2[g + 1], Encoded(l + 2, body2[l + 2]), 0)
        BY DEF OnWire
    <2> QED
        BY <2>1, <2>3, <2>4
<1>10. (l + 1) + 1 = l + 2
    OBVIOUS
<1>11. Layout(u, FALSE, g, l + 1, start2, body2)
    BY <1>5, <1>6, <1>7, <1>8, <1>9, <1>10 DEF Layout
<1> QED
    BY <1>11 DEF u, c, start2, body2

LEMMA LayoutDies ==
    ASSUME NEW w, NEW g \in Nat, NEW l \in Nat, g <= l, NEW start, NEW body,
           Layout(w, FALSE, g, l, start, body), NEW f \in Bodies, WithinLimits(f),
           NEW n \in 0..(Size(f) - 1)
    PROVE  Layout(Concat(w, SubSeq(Encoded(l + 1, f), 1, n)), TRUE, g, l,
                  start, [body EXCEPT ![l + 1] = f])
<1> DEFINE m == start[l + 1] - start[g + 1]
           c == Encoded(l + 1, f)
           t == SubSeq(c, 1, n)
           u == Concat(w, t)
           body2 == [body EXCEPT ![l + 1] = f]
<1>0. start \in [Nat -> Nat] /\ body \in [Nat -> Bodies] /\ l + 1 \in Nat /\ g + 1 \in Nat
    BY DEF Layout
<1>1. Size(f) \in Nat /\ Size(f) >= 9 /\ n \in Nat /\ Text(c, Size(f))
    <2>1. Size(f) \in Nat /\ Size(f) >= 9 /\ Text(c, Size(f))
        BY <1>0, BodyTyped, EncodedIs
    <2> QED
        BY <2>1
<1>2. Text(t, n) /\ \A i \in 1..n : t[i] = c[i]
    <2>1. /\ Text(SubSeq(c, 0 + 1, 0 + n), n)
          /\ \A i \in 1..n : SubSeq(c, 0 + 1, 0 + n)[i] = c[0 + i]
        <3>1. 0 \in Nat /\ 0 + n <= Size(f)
            BY <1>1
        <3> QED
            BY <3>1, <1>1, CutIs
    <2>2. 0 + 1 = 1 /\ 0 + n = n /\ \A i \in 1..n : 0 + i = i
        BY <1>1
    <2> QED
        BY <2>1, <2>2
<1>3. m \in Nat
    <2>1. g + 1 \in (g + 1)..(l + 1) /\ l + 1 \in (g + 1)..(l + 1) /\ g + 1 <= l + 1
        OBVIOUS
    <2> QED
        BY <1>0, <2>1 DEF Layout
<1>4. Text(w, m)
    <2>1. PICK k \in 0..(Size(body[l + 1]) - 1) : Text(w, m + k) /\ k = 0
        BY DEF Layout
    <2> QED
        BY <2>1, <1>3
<1>5. Text(u, m + n) /\ Joined(w, m, t, n, u)
    BY <1>1, <1>2, <1>3, <1>4, ConcatIs
<1>6. /\ body2 \in [Nat -> Bodies] /\ body2[l + 1] = f
      /\ \A i \in (g + 1)..l : i \in Nat /\ body2[i] = body[i]
    <2>1. \A i \in (g + 1)..l : i \in Nat /\ i # l + 1
        OBVIOUS
    <2>2. body2 \in [Nat -> Bodies] /\ body2[l + 1] = f
        BY <1>0
    <2> QED
        BY <1>0, <2>1, <2>2
<1> HIDE DEF u, t, body2
<1>7. \A i \in (g + 1)..(l + 1) : WithinLimits(body2[i])
    BY <1>6 DEF Layout
<1>8. ASSUME NEW i \in (g + 1)..l
      PROVE  /\ start[i + 1] = start[i] + Size(body2[i])
             /\ OnWire(u, start[i] - start[g + 1], Encoded(i, body2[i]), Size(body2[i]))
    <2>1. /\ start[i + 1] = start[i] + Size(body[i]) /\ body2[i] = body[i]
          /\ OnWire(w, start[i] - start[g + 1], Encoded(i, body[i]), Size(body[i]))
        BY <1>6 DEF Layout
    <2>2. start[i] >= start[g + 1] /\ start[i + 1] <= start[l + 1]
        <3>1. /\ g + 1 \in (g + 1)..(l + 1) /\ i + 1 \in (g + 1)..(l + 1)
              /\ l + 1 \in (g + 1)..(l + 1) /\ i \in (g + 1)..(l + 1)
            OBVIOUS
        <3> QED
            BY <3>1 DEF Layout
    <2>3. Size(body[i]) \in Nat /\ start[i] \in Nat /\ start[g + 1] \in Nat /\ start[l + 1] \in Nat
        BY <1>0, <1>6, BodyTyped
    <2>4. /\ start[i] - start[g + 1] \in Int /\ start[i] - start[g + 1] >= 0
          /\ (start[i] - start[g + 1]) + Size(body[i]) <= m
        BY <2>1, <2>2, <2>3
    <2> QED
        BY <2>1, <2>3, <2>4, <1>1, <1>3, <1>5, OnWireKept
<1>9. OnWire(u, m, c, n)
    BY <1>2, <1>5 DEF OnWire, Joined
<1>10. Layout(u, TRUE, g, l, start, body2)
    <2>1. \A i, j \in (g + 1)..(l + 1) : i <= j => start[i] <= start[j]
        BY DEF Layout
    <2> QED
        BY <2>1, <1>0, <1>5, <1>6, <1>7, <1>8, <1>9 DEF Layout
<1> QED
    BY <1>10 DEF u, t, body2

\* The frame in front is taken off the wire.
LEMMA LayoutRead ==
    ASSUME NEW w, NEW dead \in BOOLEAN, NEW g \in Nat, NEW l \in Nat, g < l, NEW start, NEW body,
           Layout(w, dead, g, l, start, body)
    PROVE  Layout(SubSeq(w, Size(body[g + 1]) + 1, Len(w)), dead, g + 1, l, start, body)
<1> DEFINE s == Size(body[g + 1])
           u == SubSeq(w, s + 1, Len(w))
<1>0. /\ start \in [Nat -> Nat] /\ body \in [Nat -> Bodies]
      /\ g + 1 \in Nat /\ g + 2 \in Nat /\ l + 1 \in Nat
      /\ g + 1 \in (g + 1)..l /\ g + 2 \in (g + 1)..(l + 1) /\ l + 1 \in (g + 1)..(l + 1)
    BY DEF Layout
<1>1. s \in Nat /\ start[g + 2] = start[g + 1] + s
    <2>1. (g + 1) + 1 = g + 2
        OBVIOUS
    <2> QED
        BY <1>0, <2>1, BodyTyped DEF Layout
<1>2. PICK n \in 0..(Size(body[l + 1]) - 1) :
          /\ Text(w, start[l + 1] - start[g + 1] + n)
          /\ OnWire(w, start[l + 1] - start[g + 1], Encoded(l + 1, body[l + 1]), n)
          /\ ~dead => n = 0
    BY DEF Layout
<1> DEFINE m == start[l + 1] - start[g + 2] + n
<1>3. n \in Nat /\ start[l + 1] - start[g + 2] >= 0 /\ m \in Nat
    <2>1. start[g + 2] <= start[l + 1]
        BY <1>0 DEF Layout
    <2>2. Size(body[l + 1]) \in Nat /\ n \in Nat
        BY <1>0, BodyTyped
    <2> QED
        BY <1>0, <2>1, <2>2
<1>4. Len(w) = s + m /\ Text(w, s + m)
    <2>1. start[l + 1] - start[g + 1] + n = s + m
        BY <1>0, <1>1, <1>3
    <2>2. Text(w, s + m)
        BY <1>2, <2>1
    <2> QED
        BY <2>2 DEF Text
<1> HIDE DEF m, s
<1>5. Text(u, m) /\ \A i \in 1..m : u[i] = w[s + i]
    <2>1. s + m \in Nat /\ s + m <= s + m
        BY <1>1, <1>3
    <2>2. /\ Text(SubSeq(w, s + 1, s + m), m)
          /\ \A i \in 1..m : SubSeq(w, s + 1, s + m)[i] = w[s + i]
        BY <2>1, <1>1, <1>3, <1>4, CutIs
    <2> QED
        BY <2>2, <1>4
<1> HIDE DEF u
\* What stood behind the frame stands s cells further in front.
<1>6. ASSUME NEW p \in Int, p >= s, NEW k \in Nat, p + k <= s + m, NEW c, OnWire(w, p, c, k)
      PROVE  OnWire(u, p - s, c, k)
    <2> SUFFICES ASSUME NEW i \in 1..k PROVE u[(p - s) + i] = c[i]
        BY DEF OnWire
    <2>1. (p - s) + i \in 1..m /\ s + ((p - s) + i) = p + i
        BY <1>1, <1>3, <1>6
    <2> QED
        BY <2>1, <1>5, <1>6 DEF OnWire
<1>7. ASSUME NEW i \in (g + 2)..l
      PROVE  /\ start[i + 1] = start[i] + Size(body[i])
             /\ OnWire(u, start[i] - start[g + 2], Encoded(i, body[i]), Size(body[i]))
    <2>0. /\ i \in (g + 1)..l /\ i \in Nat /\ i \in (g + 1)..(l + 1) /\ i + 1 \in (g + 1)..(l + 1)
          /\ g + 2 <= i /\ i + 1 <= l + 1
        OBVIOUS
    <2>1. /\ start[i + 1] = start[i] + Size(body[i])
          /\ OnWire(w, start[i] - start[g + 1], Encoded(i, body[i]), Size(body[i]))
        BY <2>0 DEF Layout
    <2>2. start[g + 2] <= start[i] /\ start[i + 1] <= start[l + 1]
        BY <2>0, <1>0 DEF Layout
    <2>3. /\ Size(body[i]) \in Nat /\ start[i] \in Nat /\ start[g + 1] \in Nat
          /\ start[g + 2] \in Nat /\ start[l + 1] \in Nat
        BY <1>0, <2>0, BodyTyped
    <2>4. /\ start[i] - start[g + 1] \in Int /\ start[i] - start[g + 1] >= s
          /\ (start[i] - start[g + 1]) + Size(body[i]) <= s + m
          /\ (start[i] - start[g + 1]) - s = start[i] - start[g + 2]
        BY <2>1, <2>2, <2>3, <1>1, <1>3 DEF m
    <2>5. OnWire(u, (start[i] - start[g + 1]) - s, Encoded(i, body[i]), Size(body[i]))
        BY <2>1, <2>3, <2>4, <1>6
    <2> QED
        BY <2>1, <2>4, <2>5
<1>8. OnWire(u, start[l + 1] - start[g + 2], Encoded(l + 1, body[l + 1]), n)
    <2>1. /\ start[l + 1] - start[g + 1] \in Int /\ start[l + 1] - start[g + 1] >= s
          /\ (start[l + 1] - start[g + 1]) + n <= s + m
          /\ (start[l + 1] - start[g + 1]) - s = start[l + 1] - start[g + 2]
        BY <1>0, <1>1, <1>3 DEF m
    <2>2. OnWire(u, (start[l + 1] - start[g + 1]) - s, Encoded(l + 1, body[l + 1]), n)
        BY <2>1, <1>2, <1>3, <1>6
    <2> QED
        BY <2>1, <2>2
<1>9. (g + 1) + 1 = g + 2 /\ \A i \in (g + 2)..(l + 1) : i \in (g + 1)..(l + 1)
    OBVIOUS
<1>10. /\ \A i \in (g + 2)..(l + 1) : WithinLimits(body[i])
       /\ \A i, j \in (g + 2)..(l + 1) : i <= j => start[i] <= start[j]
    BY <1>9 DEF Layout
<1>11. Layout(u, dead, g + 1, l, start, body)
    BY <1>0, <1>2, <1>5, <1>7, <1>8, <1>9, <1>10 DEF Layout, m
<1> QED
    BY <1>11 DEF u, s

-----------------------------------------------------------------------------
(* read_frame, when the pipe begins with a frame or a part of one: both    *)
(* lengths pass, and it returns that very frame, or waits for the rest.    *)

LEMMA LengthsPass ==
    ASSUME NEW f \in Bodies, WithinLimits(f), NEW id \in Nat, NEW n \in Nat, n <= Size(f),
           NEW all \in Nat, Text(wire, all), n <= all, n = Size(f) \/ n = all,
           OnWire(wire, 0, Encoded(id, f), n)
    PROVE  /\ ~JsonLenIsBad /\ ~BlobLenIsBad
           /\ ReadsBlob <=> n = Size(f)
           /\ n = Size(f) => JsonLen = f.json /\ BlobLen = f.blob
<1>0. /\ f.json \in Nat /\ f.json >= 1 /\ f.blob \in Nat /\ Size(f) = 8 + f.json + f.blob
      /\ f.json <= JsonMax /\ f.blob <= BlobMax
    BY BodyTyped DEF WithinLimits, Size
<1>1. Len(wire) = all
    BY DEF Text
<1>2. ASSUME n >= 1 PROVE JsonLen = f.json
    <2>1. wire[0 + 1] = Encoded(id, f)[1]
        BY <1>2 DEF OnWire
    <2>2. Encoded(id, f)[1] = [len |-> f.json]
        BY EncodedIs
    <2>3. 0 + 1 = 1
        OBVIOUS
    <2>4. wire[1] = [len |-> f.json]
        BY <2>1, <2>2, <2>3
    <2> QED
        BY <2>4 DEF JsonLen
<1>3. ASSUME n >= 4 + f.json + 1 PROVE BlobLen = f.blob
    <2>1. JsonLen = f.json
        BY <1>0, <1>2, <1>3
    <2>2. 4 + f.json + 1 \in 1..n /\ 0 + (4 + f.json + 1) = 4 + f.json + 1
        BY <1>0, <1>3
    <2>3. wire[4 + f.json + 1] = [len |-> f.blob]
        BY <2>2, EncodedIs DEF OnWire
    <2> QED
        BY <2>1, <2>3 DEF BlobLen, BlobAt
<1>4. ASSUME HasCells(0, 4) PROVE JsonLen = f.json
    <2>1. n >= 1
        BY <1>0, <1>1, <1>4 DEF HasCells
    <2> QED
        BY <2>1, <1>2
<1>5. ASSUME ReadsJson, HasCells(BlobAt, 4) PROVE BlobLen = f.blob
    <2>1. JsonLen = f.json
        BY <1>4, <1>5 DEF ReadsJson
    <2>2. n >= 4 + f.json + 1
        BY <2>1, <1>0, <1>1, <1>5 DEF HasCells, BlobAt
    <2> QED
        BY <2>2, <1>3
<1>6. ~JsonLenIsBad
    <2>1. ~(f.json > JsonMax)
        BY <1>0, FramesAssumption
    <2> QED
        BY <2>1, <1>4 DEF JsonLenIsBad, TooLong
<1>7. ~BlobLenIsBad
    <2>1. ~(f.blob > BlobMax)
        BY <1>0, FramesAssumption
    <2> QED
        BY <2>1, <1>5 DEF BlobLenIsBad, TooLong
<1>8. ASSUME ReadsBlob PROVE n = Size(f)
    <2>1. JsonLen = f.json /\ BlobLen = f.blob
        BY <1>4, <1>5, <1>8 DEF ReadsBlob, ReadsJson
    <2> QED
        BY <2>1, <1>0, <1>1, <1>8 DEF ReadsBlob, HasCells, BlobAt
<1>9. ASSUME n = Size(f) PROVE ReadsBlob /\ JsonLen = f.json /\ BlobLen = f.blob
    <2>1. n >= 1 /\ n >= 4 + f.json + 1 /\ all >= 8 + f.json + f.blob
        BY <1>0, <1>9
    <2>2. JsonLen = f.json /\ BlobLen = f.blob
        BY <2>1, <1>2, <1>3
    <2>3. ~(f.json > JsonMax) /\ ~(f.blob > BlobMax)
        BY <1>0, FramesAssumption
    <2>4. ReadsJson
        BY <2>1, <2>2, <2>3, <1>0, <1>1 DEF ReadsJson, HasCells, TooLong
    <2>5. HasCells(BlobAt, 4) /\ HasCells(BlobAt + 4, BlobLen)
        BY <2>1, <2>2, <1>0, <1>1 DEF HasCells, BlobAt
    <2> QED
        BY <2>2, <2>3, <2>4, <2>5 DEF ReadsBlob, TooLong
<1> QED
    BY <1>6, <1>7, <1>8, <1>9

LEMMA FrameTyped ==
    ASSUME NEW f \in Bodies, NEW id \in Nat
    PROVE  Frame(id, f) \in FrameSet
  BY BodyTyped, PartsAre DEF Frame, FrameSet, Text

LEMMA FrameIsCutOut ==
    ASSUME NEW f \in Bodies, NEW id \in Nat, NEW all \in Nat, Text(wire, all), Size(f) <= all,
           OnWire(wire, 0, Encoded(id, f), Size(f))
    PROVE  /\ SubSeq(wire, 5, 4 + f.json) = BodyCells(f.json, id)
           /\ SubSeq(wire, 4 + f.json + 5, 4 + f.json + 4 + f.blob) = BodyCells(f.blob, id)
<1> DEFINE j == f.json
           n == f.blob
<1>0. j \in Nat /\ n \in Nat /\ 8 + j \in Nat /\ Size(f) = 8 + j + n
    BY BodyTyped DEF Size
<1>1. /\ \A k \in 1..j : Encoded(id, f)[4 + k] = [of |-> id]
      /\ \A k \in 1..n : Encoded(id, f)[8 + j + k] = [of |-> id]
    BY EncodedIs
<1>2. /\ Text(BodyCells(j, id), j) /\ \A k \in 1..j : BodyCells(j, id)[k] = [of |-> id]
      /\ Text(BodyCells(n, id), n) /\ \A k \in 1..n : BodyCells(n, id)[k] = [of |-> id]
    <2> HIDE DEF j, n
    <2>1. j \in Nat /\ n \in Nat
        BY <1>0
    <2>2. Text(BodyCells(j, id), j) /\ \A k \in 1..j : BodyCells(j, id)[k] = [of |-> id]
        BY <2>1, BodyIs
    <2>3. Text(BodyCells(n, id), n) /\ \A k \in 1..n : BodyCells(n, id)[k] = [of |-> id]
        BY <2>1, BodyIs
    <2> QED
        BY <2>2, <2>3
<1> HIDE DEF j, n
<1>3. /\ \A k \in 1..j : wire[4 + k] = [of |-> id]
      /\ \A k \in 1..n : wire[8 + j + k] = [of |-> id]
    <2>1. ASSUME NEW k \in 1..j PROVE wire[4 + k] = [of |-> id]
        <3>1. 4 + k \in 1..Size(f) /\ 0 + (4 + k) = 4 + k
            BY <1>0
        <3> QED
            BY <3>1, <1>1 DEF OnWire
    <2>2. ASSUME NEW k \in 1..n PROVE wire[8 + j + k] = [of |-> id]
        <3>1. 8 + j + k \in 1..Size(f) /\ 0 + (8 + j + k) = 8 + j + k
            BY <1>0
        <3> QED
            BY <3>1, <1>1 DEF OnWire
    <2> QED
        BY <2>1, <2>2
<1>4. /\ Text(SubSeq(wire, 4 + 1, 4 + j), j)
      /\ \A k \in 1..j : SubSeq(wire, 4 + 1, 4 + j)[k] = wire[4 + k]
    <2> DEFINE a == 4
    <2>1. a \in Nat /\ j \in Nat /\ a + j <= all
        BY <1>0
    <2> HIDE DEF a
    <2>2. /\ Text(SubSeq(wire, a + 1, a + j), j)
          /\ \A k \in 1..j : SubSeq(wire, a + 1, a + j)[k] = wire[a + k]
        BY <2>1, CutIs
    <2> QED
        BY <2>2 DEF a
<1>5. /\ Text(SubSeq(wire, 8 + j + 1, 8 + j + n), n)
      /\ \A k \in 1..n : SubSeq(wire, 8 + j + 1, 8 + j + n)[k] = wire[8 + j + k]
    <2> DEFINE a == 8 + j
    <2>1. a \in Nat /\ n \in Nat /\ a + n <= all
        BY <1>0
    <2> HIDE DEF a
    <2>2. /\ Text(SubSeq(wire, a + 1, a + n), n)
          /\ \A k \in 1..n : SubSeq(wire, a + 1, a + n)[k] = wire[a + k]
        BY <2>1, CutIs
    <2> QED
        BY <2>2 DEF a
<1>6. SubSeq(wire, 4 + 1, 4 + j) = BodyCells(j, id)
    <2>1. \A k \in 1..j : SubSeq(wire, 4 + 1, 4 + j)[k] = BodyCells(j, id)[k]
        BY <1>2, <1>3, <1>4
    <2> QED
        BY <2>1, <1>0, <1>2, <1>4, SameText
<1>7. SubSeq(wire, 8 + j + 1, 8 + j + n) = BodyCells(n, id)
    <2>1. \A k \in 1..n : SubSeq(wire, 8 + j + 1, 8 + j + n)[k] = BodyCells(n, id)[k]
        BY <1>2, <1>3, <1>5
    <2> QED
        BY <2>1, <1>0, <1>2, <1>5, SameText
<1>8. 4 + 1 = 5 /\ 8 + j + 1 = 4 + j + 5 /\ 8 + j + n = 4 + j + 4 + n
    BY <1>0
<1> QED
    BY <1>6, <1>7, <1>8 DEF j, n

-----------------------------------------------------------------------------
(* The inductive invariant: what was read is what was written first, and   *)
(* the rest is on the wire.                                                *)

FramesTyped == whole \in Seq(FrameSet) /\ got \in Seq(FrameSet) /\ closed \in BOOLEAN

Delivered == Len(got) <= Len(whole) /\ \A i \in 1..Len(got) : got[i] = whole[i]

OnTheWire ==
    \E start \in [Nat -> Nat], body \in [Nat -> Bodies] :
        /\ Layout(wire, closed, Len(got), Len(whole), start, body)
        /\ \A i \in (Len(got) + 1)..Len(whole) : whole[i] = Frame(i, body[i])

EndsWithWriter == reader # "reads" => closed /\ Len(got) = Len(whole) /\ reader = "eof"

FramesInv == FramesTyped /\ Delivered /\ OnTheWire /\ EndsWithWriter

LEMMA AppendIs ==
    ASSUME NEW S, NEW s \in Seq(S), NEW x \in S
    PROVE  /\ Append(s, x) \in Seq(S) /\ Len(Append(s, x)) = Len(s) + 1 /\ Len(s) \in Nat
           /\ \A i \in 1..Len(s) : Append(s, x)[i] = s[i]
           /\ Append(s, x)[Len(s) + 1] = x
  BY AppendProperties, LenProperties

LEMMA LensAreNat ==
    ASSUME FramesTyped
    PROVE  Len(whole) \in Nat /\ Len(got) \in Nat
  BY LenProperties DEF FramesTyped

\* What the next read meets: a whole frame exactly when one is left.
LEMMA InFront ==
    ASSUME NEW w, NEW dead \in BOOLEAN, NEW g \in Nat, NEW l \in Nat, g <= l, NEW start, NEW body,
           Layout(w, dead, g, l, start, body)
    PROVE  /\ body[g + 1] \in Bodies /\ WithinLimits(body[g + 1])
           /\ \E n, all \in Nat :
                 /\ Text(w, all) /\ n <= all /\ n <= Size(body[g + 1])
                 /\ OnWire(w, 0, Encoded(g + 1, body[g + 1]), n)
                 /\ n = Size(body[g + 1]) \/ n = all
                 /\ n = Size(body[g + 1]) <=> g < l
<1>0. /\ start \in [Nat -> Nat] /\ body \in [Nat -> Bodies]
      /\ g + 1 \in Nat /\ l + 1 \in Nat
      /\ g + 1 \in (g + 1)..(l + 1) /\ l + 1 \in (g + 1)..(l + 1)
    BY DEF Layout
<1>1. body[g + 1] \in Bodies /\ WithinLimits(body[g + 1])
    BY <1>0 DEF Layout
<1>2. PICK k \in 0..(Size(body[l + 1]) - 1) :
          /\ Text(w, start[l + 1] - start[g + 1] + k)
          /\ OnWire(w, start[l + 1] - start[g + 1], Encoded(l + 1, body[l + 1]), k)
    BY DEF Layout
<1>3. start[g + 1] \in Nat /\ start[l + 1] \in Nat
    BY <1>0
<1>4. /\ Size(body[g + 1]) \in Nat /\ Size(body[l + 1]) \in Nat
      /\ k \in Nat /\ k < Size(body[l + 1])
    <2>1. Size(body[g + 1]) \in Nat /\ Size(body[l + 1]) \in Nat
        BY <1>0, BodyTyped
    <2> QED
        BY <2>1
<1> DEFINE s == Size(body[g + 1])
           c == Encoded(g + 1, body[g + 1])
<1> HIDE DEF s, c
<1>5. CASE g < l
    <2> DEFINE all == start[l + 1] - start[g + 1] + k
    <2>1. g + 1 \in (g + 1)..l /\ (g + 1) + 1 \in (g + 1)..(l + 1) /\ (g + 1) + 1 <= l + 1
        BY <1>5
    <2>2. start[(g + 1) + 1] = start[g + 1] + s /\ OnWire(w, start[g + 1] - start[g + 1], c, s)
        BY <2>1 DEF Layout, s, c
    <2>3. start[(g + 1) + 1] <= start[l + 1]
        BY <2>1, <1>0 DEF Layout
    <2>4. s \in Nat
        BY <1>4 DEF s
    <2>5. all \in Nat /\ s <= all /\ start[g + 1] - start[g + 1] = 0
        BY <2>2, <2>3, <2>4, <1>3, <1>4
    <2>6. Text(w, all) /\ OnWire(w, 0, c, s)
        BY <2>2, <2>5, <1>2
    <2> HIDE DEF all
    <2>7. /\ Text(w, all) /\ s <= all /\ s <= s /\ OnWire(w, 0, c, s)
          /\ s = s \/ s = all
          /\ s = s <=> g < l
        BY <2>4, <2>5, <2>6, <1>5
    <2> QED
        BY <2>4, <2>5, <2>7, <1>1 DEF s, c
<1>6. CASE g = l
    <2>1. start[l + 1] - start[g + 1] = 0 /\ 0 + k = k
        BY <1>3, <1>4, <1>6
    <2>2. Text(w, k) /\ OnWire(w, 0, c, k)
        BY <2>1, <1>2, <1>6 DEF c
    <2>3. s \in Nat /\ k < s
        BY <1>4, <1>6 DEF s
    <2>4. /\ Text(w, k) /\ k <= k /\ k <= s /\ OnWire(w, 0, c, k)
          /\ k = s \/ k = k
          /\ k = s <=> g < l
        BY <2>2, <2>3, <1>4, <1>6
    <2> QED
        BY <2>4, <1>1, <1>4 DEF s, c
<1> QED
    BY <1>5, <1>6

-----------------------------------------------------------------------------
(* One lemma per action.                                                   *)

LEMMA FramesStart == FramesInit => FramesInv
<1> SUFFICES ASSUME FramesInit PROVE FramesInv
    OBVIOUS
<1> DEFINE f == [json |-> 1, blob |-> 0]
           start == [i \in Nat |-> 0]
           body == [i \in Nat |-> f]
<1>1. f \in Bodies /\ WithinLimits(f)
    BY FramesAssumption DEF Bodies, WithinLimits
<1>2. start \in [Nat -> Nat] /\ \A i \in Nat : start[i] = 0
    OBVIOUS
<1>3. body \in [Nat -> Bodies] /\ \A i \in Nat : body[i] = f
    BY <1>1
<1>4. wire = <<>> /\ closed = FALSE /\ whole = <<>> /\ got = <<>> /\ reader = "reads"
    BY DEF FramesInit
<1>5. Len(whole) = 0 /\ Len(got) = 0 /\ Text(wire, 0)
    BY <1>4 DEF Text
<1> HIDE DEF f, start, body
<1>6. Layout(wire, FALSE, 0, 0, start, body)
    <2>1. body[0 + 1] = f /\ start[0 + 1] = 0 /\ Size(f) \in Nat /\ Size(f) >= 9
        BY <1>1, <1>2, <1>3, BodyTyped
    <2>2. \A i \in (0 + 1)..(0 + 1) : WithinLimits(body[i])
        BY <2>1, <1>1
    <2>3. \A i, j \in (0 + 1)..(0 + 1) : i <= j => start[i] <= start[j]
        BY <1>2
    <2>4. 0 \in 0..(Size(body[0 + 1]) - 1)
        BY <2>1
    <2>5. start[0 + 1] - start[0 + 1] + 0 = 0
        BY <2>1
    <2>6. Text(wire, start[0 + 1] - start[0 + 1] + 0)
        BY <2>5, <1>5
    <2>7. OnWire(wire, start[0 + 1] - start[0 + 1], Encoded(0 + 1, body[0 + 1]), 0)
        BY DEF OnWire
    <2>8. (0 + 1)..0 = {}
        OBVIOUS
    <2> QED
        BY <2>2, <2>3, <2>4, <2>6, <2>7, <2>8, <1>2, <1>3 DEF Layout
<1>7. OnTheWire
    <2>1. \A i \in (Len(got) + 1)..Len(whole) : whole[i] = Frame(i, body[i])
        BY <1>5
    <2>2. Layout(wire, closed, Len(got), Len(whole), start, body)
        BY <1>4, <1>5, <1>6
    <2>3. start \in [Nat -> Nat] /\ body \in [Nat -> Bodies]
        BY <1>2, <1>3
    <2> QED
        BY <2>1, <2>2, <2>3 DEF OnTheWire
<1>8. FramesTyped
    BY <1>4, EmptySeq DEF FramesTyped
<1>9. Delivered
    BY <1>5 DEF Delivered
<1> QED
    BY <1>4, <1>7, <1>8, <1>9 DEF FramesInv, EndsWithWriter

LEMMA WriteFrameKeeps ==
    ASSUME FramesInv, NEW f \in Bodies, WriteFrame(f)
    PROVE  FramesInv'
<1> DEFINE g == Len(got)
           l == Len(whole)
<1>0. g \in Nat /\ l \in Nat /\ l + 1 \in Nat /\ g <= l
    BY LensAreNat DEF FramesInv, Delivered
<1>1. PICK start \in [Nat -> Nat], body \in [Nat -> Bodies] :
          /\ Layout(wire, closed, g, l, start, body)
          /\ \A i \in (g + 1)..l : whole[i] = Frame(i, body[i])
    BY DEF FramesInv, OnTheWire
<1>2. closed = FALSE /\ got' = got /\ reader' = reader /\ reader = "reads"
    BY DEF WriteFrame, FramesInv, FramesTyped, EndsWithWriter
<1>3. CASE WithinLimits(f)
    <2>1. /\ wire' = Concat(wire, Encoded(l + 1, f)) /\ closed' = FALSE
          /\ whole' = Append(whole, Frame(l + 1, f))
        BY <1>2, <1>3 DEF WriteFrame, Concat
    <2>2. Frame(l + 1, f) \in FrameSet
        BY <1>0, FrameTyped
    <2>3. /\ whole' \in Seq(FrameSet) /\ Len(whole') = l + 1
          /\ \A i \in 1..l : whole'[i] = whole[i]
          /\ whole'[l + 1] = Frame(l + 1, f)
        BY <2>1, <2>2, AppendIs DEF FramesInv, FramesTyped
    <2> DEFINE start2 == [start EXCEPT ![l + 2] = start[l + 1] + Size(f)]
               body2 == [body EXCEPT ![l + 1] = f, ![l + 2] = f]
    <2> HIDE DEF g, l
    <2>4. Layout(wire', FALSE, g, l + 1, start2, body2)
        BY <2>1, <1>0, <1>1, <1>2, <1>3, LayoutWritten
    <2>5. start2 \in [Nat -> Nat] /\ body2 \in [Nat -> Bodies]
        BY <2>4 DEF Layout
    <2>6. \A i \in (g + 1)..(l + 1) : whole'[i] = Frame(i, body2[i])
        <3> SUFFICES ASSUME NEW i \in (g + 1)..(l + 1) PROVE whole'[i] = Frame(i, body2[i])
            OBVIOUS
        <3>1. CASE i <= l
            <4>1. i \in (g + 1)..l /\ i \in 1..l /\ i \in Nat /\ i # l + 1 /\ i # l + 2
                BY <3>1, <1>0
            <4>2. body2[i] = body[i]
                BY <4>1
            <4> QED
                BY <4>1, <4>2, <1>1, <2>3
        <3>2. CASE i = l + 1
            <4>1. l + 1 # l + 2
                BY <1>0
            <4>2. body2[l + 1] = f
                BY <4>1, <1>0
            <4> QED
                BY <4>2, <3>2, <2>3
        <3> QED
            BY <3>1, <3>2, <1>0
    <2> HIDE DEF start2, body2
    <2>7. OnTheWire'
        BY <2>1, <2>3, <2>4, <2>5, <2>6, <1>2 DEF OnTheWire, g
    <2>8. Delivered'
        <3>1. g <= l + 1 /\ \A i \in 1..g : i \in 1..l
            BY <1>0
        <3> QED
            BY <3>1, <2>3, <1>2 DEF FramesInv, Delivered, g
    <2> QED
        BY <2>1, <2>3, <2>7, <2>8, <1>2 DEF FramesInv, FramesTyped, EndsWithWriter
<1>4. CASE ~WithinLimits(f)
    <2>1. wire' = wire /\ whole' = whole /\ closed' = TRUE
        BY <1>4 DEF WriteFrame
    <2>2. Layout(wire, TRUE, g, l, start, body)
        BY <1>1, <1>2 DEF Layout
    <2>3. OnTheWire'
        BY <2>1, <2>2, <1>1, <1>2 DEF OnTheWire
    <2> QED
        BY <2>1, <2>3, <1>2 DEF FramesInv, FramesTyped, Delivered, EndsWithWriter
<1> QED
    BY <1>3, <1>4

LEMMA WriterDiesKeeps ==
    ASSUME FramesInv, NEW f \in Bodies, WriterDies(f)
    PROVE  FramesInv'
<1> DEFINE g == Len(got)
           l == Len(whole)
<1>0. g \in Nat /\ l \in Nat /\ l + 1 \in Nat /\ g <= l
    BY LensAreNat DEF FramesInv, Delivered
<1>1. PICK start \in [Nat -> Nat], body \in [Nat -> Bodies] :
          /\ Layout(wire, closed, g, l, start, body)
          /\ \A i \in (g + 1)..l : whole[i] = Frame(i, body[i])
    BY DEF FramesInv, OnTheWire
<1>2. /\ closed = FALSE /\ closed' = TRUE /\ whole' = whole /\ got' = got
      /\ reader' = reader /\ reader = "reads" /\ WithinLimits(f)
    BY DEF WriterDies, FramesInv, FramesTyped, EndsWithWriter
<1>3. PICK n \in 0..(Len(Encoded(l + 1, f)) - 1) :
          wire' = Concat(wire, SubSeq(Encoded(l + 1, f), 1, n))
    BY DEF WriterDies, Concat
<1>4. Len(Encoded(l + 1, f)) = Size(f)
    BY <1>0, EncodedIs DEF Text
<1>5. n \in 0..(Size(f) - 1)
    BY <1>3, <1>4
<1> DEFINE body2 == [body EXCEPT ![l + 1] = f]
<1> HIDE DEF g, l
<1>6. Layout(wire', TRUE, g, l, start, body2)
    BY <1>0, <1>1, <1>2, <1>3, <1>5, LayoutDies
<1>7. body2 \in [Nat -> Bodies]
    BY <1>6 DEF Layout
<1>8. \A i \in (g + 1)..l : whole[i] = Frame(i, body2[i])
    <2> SUFFICES ASSUME NEW i \in (g + 1)..l PROVE whole[i] = Frame(i, body2[i])
        OBVIOUS
    <2>1. i \in Nat /\ i # l + 1
        BY <1>0
    <2>2. body2[i] = body[i]
        BY <2>1
    <2> QED
        BY <2>2, <1>1
<1> HIDE DEF body2
<1>9. OnTheWire'
    BY <1>2, <1>6, <1>7, <1>8 DEF OnTheWire, g, l
<1> QED
    BY <1>2, <1>9 DEF FramesInv, FramesTyped, Delivered, EndsWithWriter

LEMMA ReadFrameKeeps ==
    ASSUME FramesInv, ReadFrame
    PROVE  FramesInv'
<1> DEFINE g == Len(got)
           l == Len(whole)
<1>0. g \in Nat /\ l \in Nat /\ g + 1 \in Nat /\ g <= l /\ closed \in BOOLEAN
    BY LensAreNat DEF FramesInv, FramesTyped, Delivered
<1>1. PICK start \in [Nat -> Nat], body \in [Nat -> Bodies] :
          /\ Layout(wire, closed, g, l, start, body)
          /\ \A i \in (g + 1)..l : whole[i] = Frame(i, body[i])
    BY DEF FramesInv, OnTheWire
<1> DEFINE f == body[g + 1]
<1> HIDE DEF g, l, f
<1>2. /\ f \in Bodies /\ WithinLimits(f)
      /\ \E n, all \in Nat :
            /\ Text(wire, all) /\ n <= all /\ n <= Size(f) /\ OnWire(wire, 0, Encoded(g + 1, f), n)
            /\ n = Size(f) \/ n = all
            /\ n = Size(f) <=> g < l
    BY <1>0, <1>1, InFront DEF f
<1>3. PICK n \in Nat, all \in Nat :
          /\ Text(wire, all) /\ n <= all /\ n <= Size(f) /\ OnWire(wire, 0, Encoded(g + 1, f), n)
          /\ n = Size(f) \/ n = all
          /\ n = Size(f) <=> g < l
    BY <1>2
<1>4. ReadsBlob /\ reader = "reads" /\ reader' = reader /\ closed' = closed /\ whole' = whole
    BY DEF ReadFrame
<1>5. n = Size(f) /\ JsonLen = f.json /\ BlobLen = f.blob
    BY <1>0, <1>2, <1>3, <1>4, LengthsPass
<1>6. g < l
    BY <1>3, <1>5
<1>7. f.json \in Nat /\ f.blob \in Nat /\ Size(f) = 8 + f.json + f.blob
    BY <1>2, BodyTyped DEF Size
<1>8. /\ BlobAt = 4 + f.json /\ BlobAt + 5 = 4 + f.json + 5
      /\ FrameCells = 4 + f.json + 4 + f.blob /\ FrameCells = Size(f)
    BY <1>5, <1>7 DEF BlobAt, FrameCells
<1>9. got' = Append(got, Frame(g + 1, f))
    <2>1. Size(f) <= all /\ OnWire(wire, 0, Encoded(g + 1, f), Size(f))
        BY <1>3, <1>5
    <2>2. /\ SubSeq(wire, 5, 4 + f.json) = BodyCells(f.json, g + 1)
          /\ SubSeq(wire, 4 + f.json + 5, 4 + f.json + 4 + f.blob) = BodyCells(f.blob, g + 1)
        BY <2>1, <1>0, <1>2, <1>3, FrameIsCutOut
    <2>3. got' = Append(got, [json |-> SubSeq(wire, 5, BlobAt),
                              blob |-> SubSeq(wire, BlobAt + 5, FrameCells)])
        BY DEF ReadFrame
    <2> QED
        BY <2>2, <2>3, <1>8 DEF Frame
<1>10. /\ got' \in Seq(FrameSet) /\ Len(got') = g + 1
       /\ \A i \in 1..g : got'[i] = got[i]
       /\ got'[g + 1] = Frame(g + 1, f)
    <2>1. Frame(g + 1, f) \in FrameSet
        BY <1>0, <1>2, FrameTyped
    <2> QED
        BY <2>1, <1>9, AppendIs DEF FramesInv, FramesTyped, g
<1>11. Delivered'
    <2>1. g + 1 \in (g + 1)..l /\ g + 1 <= l
        BY <1>0, <1>6
    <2>2. whole[g + 1] = Frame(g + 1, f)
        BY <2>1, <1>1 DEF f
    <2>3. \A i \in 1..g : got[i] = whole[i]
        BY DEF FramesInv, Delivered, g
    <2>4. \A i \in 1..(g + 1) : i \in 1..g \/ i = g + 1
        BY <1>0
    <2>5. \A i \in 1..(g + 1) : got'[i] = whole[i]
        BY <2>2, <2>3, <2>4, <1>10
    <2> QED
        BY <2>1, <2>5, <1>4, <1>10 DEF Delivered, l
<1>12. OnTheWire'
    <2>1. wire' = SubSeq(wire, Size(f) + 1, Len(wire))
        BY <1>8 DEF ReadFrame
    <2>2. Layout(wire', closed, g + 1, l, start, body)
        BY <2>1, <1>0, <1>1, <1>6, LayoutRead DEF f
    <2>3. \A i \in (g + 1 + 1)..l : whole[i] = Frame(i, body[i])
        <3>1. \A i \in (g + 1 + 1)..l : i \in (g + 1)..l
            BY <1>0
        <3> QED
            BY <3>1, <1>1
    <2> QED
        BY <2>2, <2>3, <1>1, <1>4, <1>10 DEF OnTheWire, l
<1> QED
    BY <1>4, <1>10, <1>11, <1>12 DEF FramesInv, FramesTyped, EndsWithWriter

\* The reader never finds a bad length, and meets less than a whole frame only when all were read.
LEMMA ReadNeverRefuses ==
    ASSUME FramesInv
    PROVE  /\ ~JsonLenIsBad /\ ~BlobLenIsBad
           /\ ~ReadsBlob => Len(got) = Len(whole)
<1> DEFINE g == Len(got)
           l == Len(whole)
<1>0. g \in Nat /\ l \in Nat /\ g + 1 \in Nat /\ g <= l /\ closed \in BOOLEAN
    BY LensAreNat DEF FramesInv, FramesTyped, Delivered
<1>1. PICK start \in [Nat -> Nat], body \in [Nat -> Bodies] :
          Layout(wire, closed, g, l, start, body)
    BY DEF FramesInv, OnTheWire
<1> DEFINE f == body[g + 1]
<1> HIDE DEF g, l, f
<1>2. /\ f \in Bodies /\ WithinLimits(f)
      /\ \E n, all \in Nat :
            /\ Text(wire, all) /\ n <= all /\ n <= Size(f) /\ OnWire(wire, 0, Encoded(g + 1, f), n)
            /\ n = Size(f) \/ n = all
            /\ n = Size(f) <=> g < l
    BY <1>0, <1>1, InFront DEF f
<1>3. PICK n \in Nat, all \in Nat :
          /\ Text(wire, all) /\ n <= all /\ n <= Size(f) /\ OnWire(wire, 0, Encoded(g + 1, f), n)
          /\ n = Size(f) \/ n = all
          /\ n = Size(f) <=> g < l
    BY <1>2
<1>4. ~JsonLenIsBad /\ ~BlobLenIsBad /\ (ReadsBlob <=> n = Size(f))
    BY <1>0, <1>2, <1>3, LengthsPass
<1>5. ~ReadsBlob => g = l
    BY <1>0, <1>3, <1>4
<1> QED
    BY <1>4, <1>5 DEF g, l

LEMMA FramesStep ==
    ASSUME FramesInv, [FramesNext]_framesVars
    PROVE  FramesInv'
<1>1. ASSUME NEW f \in Bodies, WriteFrame(f) PROVE FramesInv'
    BY <1>1, WriteFrameKeeps
<1>2. ASSUME NEW f \in Bodies, WriterDies(f) PROVE FramesInv'
    BY <1>2, WriterDiesKeeps
<1>3. ASSUME ReadFrame PROVE FramesInv'
    BY <1>3, ReadFrameKeeps
<1>4. ASSUME ReadRefuses PROVE FALSE
    BY <1>4, ReadNeverRefuses DEF ReadRefuses
<1>5. ASSUME ReadEof PROVE FramesInv'
    <2>1. /\ closed = TRUE /\ Len(got) = Len(whole) /\ reader' = "eof"
          /\ wire' = wire /\ closed' = closed /\ whole' = whole /\ got' = got
        BY <1>5, ReadNeverRefuses DEF ReadEof, FramesInv, FramesTyped
    <2> QED
        BY <2>1 DEF FramesInv, FramesTyped, Delivered, OnTheWire, EndsWithWriter
<1>6. ASSUME UNCHANGED framesVars PROVE FramesInv'
    BY <1>6 DEF framesVars, FramesInv, FramesTyped, Delivered, OnTheWire, EndsWithWriter
<1> QED
    BY <1>1, <1>2, <1>3, <1>4, <1>5, <1>6 DEF FramesNext

LEMMA InvArrives == FramesInv => FramesArriveWhole
<1> SUFFICES ASSUME FramesInv PROVE FramesArriveWhole
    OBVIOUS
<1> DEFINE g == Len(got)
<1>0. /\ g \in Nat /\ Len(whole) \in Nat /\ g <= Len(whole)
      /\ whole \in Seq(FrameSet) /\ got \in Seq(FrameSet)
      /\ \A i \in 1..g : got[i] = whole[i]
    BY LensAreNat DEF FramesInv, FramesTyped, Delivered
<1> HIDE DEF g
<1>1. got = SubSeq(whole, 1, g)
    <2>1. \A i \in 1..g : whole[i] \in FrameSet
        BY <1>0
    <2>2. /\ SubSeq(whole, 1, g) \in Seq(FrameSet)
          /\ Len(SubSeq(whole, 1, g)) = IF 1 <= g THEN g - 1 + 1 ELSE 0
          /\ \A i \in 1..(g - 1 + 1) : SubSeq(whole, 1, g)[i] = whole[1 + i - 1]
        BY <2>1, <1>0, SubSeqProperties
    <2>3. (IF 1 <= g THEN g - 1 + 1 ELSE 0) = g /\ g - 1 + 1 = g /\ \A i \in 1..g : 1 + i - 1 = i
        BY <1>0
    <2>4. Len(SubSeq(whole, 1, g)) = g /\ \A i \in 1..g : SubSeq(whole, 1, g)[i] = whole[i]
        BY <2>2, <2>3
    <2> QED
        BY <2>2, <2>4, <1>0, SeqEqual DEF g
<1>2. ASSUME reader # "reads" PROVE closed /\ got = whole /\ reader = "eof"
    <2>1. closed /\ g = Len(whole) /\ reader = "eof"
        BY <1>2 DEF FramesInv, EndsWithWriter, g
    <2>2. got = whole
        BY <2>1, <1>0, SeqEqual DEF g
    <2> QED
        BY <2>1, <2>2
<1> QED
    BY <1>1, <1>2 DEF FramesArriveWhole, g

\* Whatever the limits and however many frames: the reader gets the frames as they were written,
\* cell by cell and in order, and ends with the writer after the last whole one, without ever
\* taking a length for too long (write_frame and read_frame, lib.rs:88-129).
THEOREM EveryFrameArrives == FramesSpec => []FramesArriveWhole
<1>1. FramesInit => FramesInv
    BY FramesStart
<1>2. FramesInv /\ [FramesNext]_framesVars => FramesInv'
    BY FramesStep
<1>3. FramesInv => FramesArriveWhole
    BY InvArrives
<1> QED
    BY <1>1, <1>2, <1>3, PTL DEF FramesSpec
=============================================================================
