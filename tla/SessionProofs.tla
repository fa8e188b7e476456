--------------------------- MODULE SessionProofs ----------------------------
(***************************************************************************)
(* What a session keeps: its log on disk and the call that waits in it for *)
(* its approval.  The log is proved for any number of log objects, of      *)
(* entries, of rotations, of crashes and of failed writes, from LogIInv:   *)
(* the types, what the files hold at every moment (Stored) and what the    *)
(* holder of the append mutex relies on at each of its places (AtWork).    *)
(* The waiting call is proved for any number of votes and deletions,       *)
(* linked or not, with hooks that may fail, from IInv.                     *)
(***************************************************************************)
EXTENDS SessionLog, LiveApproval, TLAPS

-----------------------------------------------------------------------------
(* The session log *)

LogEvents == {Note, Recap, Detach} \cup Completion
Line == [seq : Nat \ {0}, ev : LogEvents]
Ranges == [ino : Nat, first : Nat, last : Nat]
Tails == {t \in Seq(Line) : Len(t) <= 1} \cup {Torn}
Appends == {<<Note>>, <<Recap, Detach>>} \cup {<<c>> : c \in Completion}
Places == {"down", "opening", "idle", "settle", "rebuild", "rotate", "renamed", "published",
           "write", "written"}

LogTypes ==
  /\ lines \in Seq(Line) /\ segs \in Seq(Ranges)
  /\ active \in [ino : Nat, tail : Tails] /\ inodes \in Nat
  /\ manifest \in [names : SUBSET Nat, latest : Int]
  /\ pc \in [Logs -> Places] /\ op \in [Logs -> Appends \cup {<<>>}]

\* The segments have the lines up to Rotated, each in one that is not empty.
Segmented ==
  /\ Rotated <= Len(lines)
  /\ \A i \in 1 .. Len(segs) : 1 <= segs[i].first /\ segs[i].first <= segs[i].last
                               /\ segs[i].last <= Rotated
  /\ \A k \in 1 .. Rotated : \E i \in 1 .. Len(segs) : k \in segs[i].first .. segs[i].last

\* A line that recovery would adopt.
Adoptable == active.tail \notin {<<>>, Torn}

\* The sequences ascend, also when a pair has been rolled back.
Ascending ==
  /\ \A i, j \in 1 .. Len(lines) : i < j => lines[i].seq < lines[j].seq
  /\ Adoptable => \A i \in 1 .. Len(lines) : lines[i].seq < active.tail[1].seq

\* Without a rollback they have no gap, and the manifest is not ahead of the lines.
Numbered == ~skipped =>
  /\ \A i \in 1 .. Len(lines) : lines[i].seq = i
  /\ Adoptable => active.tail[1].seq = Len(lines) + 1
  /\ manifest.latest <= Len(lines)

NoCompletion == \A i \in 1 .. Len(lines) : lines[i].ev.id # "completion"

Once ==
  /\ \A i, j \in 1 .. Len(lines) :
       lines[i].ev.id = "completion" /\ lines[j].ev.id = "completion" => i = j
  /\ Adoptable /\ active.tail[1].ev.id = "completion" => NoCompletion

\* No recap is stored, or left to be adopted, without its detach.
Whole == ~cut =>
  /\ \A i \in 1 .. Len(lines) :
       lines[i].ev = Recap => i < Len(lines) /\ lines[i + 1].ev = Detach
  /\ Adoptable => active.tail[1].ev # Recap

Stored == Segmented /\ Ascending /\ Numbered /\ Once /\ Whole /\ ReturnedStays

\* The lines an append has written and not yet returned: only they may be truncated.
Added(l) ==
  LET n == Len(lines) - Len(op[l]) IN
  /\ Rotated <= n
  /\ \A i \in 1 .. Len(op[l]) : lines[n + i].ev = op[l][i]
  /\ \A e \in acked : \E i \in 1 .. n : lines[i] = e
  /\ ~skipped => manifest.latest <= n

\* What an operation relies on at each of its places.
AtWork(l) ==
  /\ pc[l] \in {"settle", "rebuild", "rotate", "renamed", "published", "write", "written"} =>
       mutex = l
  /\ pc[l] \in {"rebuild", "rotate", "renamed", "published", "write", "written"} =>
       active.tail = <<>>
  /\ pc[l] \in {"rotate", "renamed", "published", "write", "written"} => op[l] # <<>>
  /\ pc[l] \in {"rotate", "renamed", "published", "write"} /\ op[l][1].id = "completion" =>
       NoCompletion
  /\ pc[l] = "renamed" => segs # <<>>
  /\ pc[l] \in {"rotate", "published", "write"} /\ Rotated > 0 =>
       lines[Rotated].seq <= manifest.latest
  /\ pc[l] = "written" => Added(l)

LogIInv == LogTypes /\ Stored /\ \A l \in Logs : AtWork(l)

-----------------------------------------------------------------------------

LEMMA SubSeqFacts ==
  ASSUME NEW S, NEW s, NEW m \in Int, NEW n \in Int, \A i \in m .. n : s[i] \in S
  PROVE  /\ SubSeq(s, m, n) \in Seq(S)
         /\ Len(SubSeq(s, m, n)) = IF m <= n THEN n - m + 1 ELSE 0
         /\ \A i \in 1 .. n - m + 1 : SubSeq(s, m, n)[i] = s[m + i - 1]
OBVIOUS

LEMMA ConcatFacts ==
  ASSUME NEW S, NEW s \in Seq(S), NEW t \in Seq(S)
  PROVE  /\ s \o t \in Seq(S) /\ Len(s \o t) = Len(s) + Len(t)
         /\ \A i \in 1 .. Len(s) + Len(t) :
              (s \o t)[i] = IF i <= Len(s) THEN s[i] ELSE t[i - Len(s)]
OBVIOUS

LEMMA AppendFacts ==
  ASSUME NEW S, NEW s \in Seq(S), NEW e \in S
  PROVE  /\ Append(s, e) \in Seq(S) /\ Append(s, e) # <<>> /\ Len(Append(s, e)) = Len(s) + 1
         /\ Append(s, e)[Len(s) + 1] = e /\ \A i \in 1 .. Len(s) : Append(s, e)[i] = s[i]
OBVIOUS

LEMMA MaxOf ==
  ASSUME NEW S \in SUBSET Int, NEW m \in S, \A x \in S : x <= m
  PROVE  Max(S) = m
<1>1. \A x \in S : m >= x  OBVIOUS
<1>2. \A z \in S : (\A y \in S : z >= y) => z = m  OBVIOUS
<1> QED  BY Zenon, <1>1, <1>2 DEF Max

LEMMA MaxOfTwo ==
  ASSUME NEW a \in Int, NEW b \in Int
  PROVE  Max({a, b}) = IF a >= b THEN a ELSE b
<1>1. CASE a >= b  BY <1>1, MaxOf
<1>2. CASE ~(a >= b)  BY <1>2, MaxOf
<1> QED  BY <1>1, <1>2

LEMMA MaxOfThree ==
  ASSUME NEW a \in Int, NEW b \in Int, NEW c \in Int
  PROVE  /\ Max({a, b, c}) \in {a, b, c}
         /\ Max({a, b, c}) >= a /\ Max({a, b, c}) >= b /\ Max({a, b, c}) >= c
<1> DEFINE S == {a, b, c}
<1>1. S \in SUBSET Int  OBVIOUS
<1>2. PICK m \in S : \A x \in S : x <= m
  <2>1. CASE a >= b /\ a >= c  BY <2>1
  <2>2. CASE b >= a /\ b >= c  BY <2>2
  <2>3. CASE c >= a /\ c >= b  BY <2>3
  <2> QED  BY <2>1, <2>2, <2>3
<1>3. Max(S) = m  BY <1>1, <1>2, MaxOf
<1> QED  BY <1>2, <1>3

LEMMA RotatedType ==
  ASSUME LogTypes
  PROVE  /\ Rotated \in Nat
         /\ segs # <<>> => Len(segs) \in 1 .. Len(segs) /\ Rotated = segs[Len(segs)].last
<1>1. CASE segs = <<>>  BY <1>1 DEF Rotated
<1>2. CASE segs # <<>>
  <2>1. Len(segs) \in 1 .. Len(segs)  BY <1>2 DEF LogTypes
  <2>2. segs[Len(segs)] \in Ranges  BY <2>1 DEF LogTypes
  <2> QED  BY <1>2, <2>1, <2>2 DEF Rotated, Ranges
<1> QED  BY <1>1, <1>2

\* The empty directory satisfies the inductive invariant.
LEMMA LogStarts == LogInit => LogIInv
<1> SUFFICES ASSUME LogInit PROVE LogIInv  OBVIOUS
<1>1. <<>> \in Tails  BY DEF Tails
<1>2. LogTypes  BY <1>1 DEF LogInit, LogTypes, NoFile, NoManifest, Places
<1>3. Rotated = 0 /\ ~Adoptable /\ lines = <<>>  BY DEF LogInit, Rotated, Adoptable, NoFile
<1>4. Stored
  BY <1>3 DEF LogInit, Stored, Segmented, Ascending, Numbered, Once, Whole, ReturnedStays,
     NoManifest
<1>5. \A l \in Logs : AtWork(l)  BY DEF LogInit, AtWork
<1> QED  BY <1>2, <1>4, <1>5 DEF LogIInv

Away == {"down", "opening", "idle"}

\* Only one object works on the files.
LEMMA OthersAway ==
  ASSUME LogIInv, Nobody \notin Logs, NEW l \in Logs, mutex \in {l, Nobody},
         NEW p \in Places, pc' = [pc EXCEPT ![l] = p], AtWork(l)'
  PROVE  \A m \in Logs : AtWork(m)'
<1> SUFFICES ASSUME NEW m \in Logs, m # l PROVE AtWork(m)'  OBVIOUS
<1>1. pc'[m] = pc[m] /\ pc[m] \in Places  BY DEF LogIInv, LogTypes
<1>2. pc[m] \in Away  BY <1>1 DEF LogIInv, AtWork, Away, Places
<1> QED  BY <1>1, <1>2 DEF AtWork, Away

LEMMA AwayIsFree == ASSUME NEW l, pc'[l] \in Away PROVE AtWork(l)'
BY DEF AtWork, Away

\* A step that leaves the content of the files alone.
LEMMA SameFiles ==
  ASSUME Stored, UNCHANGED <<lines, segs, manifest, acked, skipped>>, cut => cut',
         active'.tail \in {active.tail, <<>>}
  PROVE  Stored'
<1>1. Rotated' = Rotated  BY DEF Rotated
<1>2. Adoptable' => Adoptable /\ active'.tail = active.tail  BY DEF Adoptable
<1>3. Segmented' /\ Ascending'  BY <1>1, <1>2 DEF Stored, Segmented, Ascending
<1>4. Numbered' /\ Once'  BY <1>2 DEF Stored, Numbered, Once, NoCompletion
<1>5. Whole' /\ ReturnedStays'  BY <1>2 DEF Stored, Whole, ReturnedStays
<1> QED  BY <1>3, <1>4, <1>5 DEF Stored

\* The lines grow by a part of es, and the next line of es may be left to be adopted:
\* what is written when a write stops anywhere, and what recovery adopts.
LEMMA Growth ==
  ASSUME LogTypes, Stored, NEW es \in Seq(Line), NEW k \in 0 .. Len(es),
         lines' = lines \o SubSeq(es, 1, k),
         active'.tail \in {<<>>, Torn} \/ (k < Len(es) /\ active'.tail = <<es[k + 1]>>),
         UNCHANGED <<segs, manifest, acked, skipped>>, cut => cut',
         \A i \in 1 .. Len(lines), j \in 1 .. Len(es) : lines[i].seq < es[j].seq,
         \A i, j \in 1 .. Len(es) : i < j => es[i].seq < es[j].seq,
         ~skipped => \A j \in 1 .. Len(es) : es[j].seq = Len(lines) + j,
         \A i, j \in 1 .. Len(es) :
           es[i].ev.id = "completion" /\ es[j].ev.id = "completion" => i = j,
         (\E j \in 1 .. Len(es) : es[j].ev.id = "completion") => NoCompletion,
         ~cut' => /\ \A j \in 1 .. k : es[j].ev = Recap => j < k /\ es[j + 1].ev = Detach
                  /\ k < Len(es) => es[k + 1].ev # Recap
  PROVE  /\ lines' \in Seq(Line) /\ Stored'
         /\ Len(lines') = Len(lines) + k /\ \A i \in 1 .. Len(lines) : lines'[i] = lines[i]
         /\ \A j \in 1 .. k : lines'[Len(lines) + j] = es[j]
<1> DEFINE n == Len(lines)
           s == SubSeq(es, 1, k)
<1>0. n \in Nat /\ k \in Nat /\ Len(es) \in Nat /\ k <= Len(es)  BY DEF LogTypes
<1>1. s \in Seq(Line) /\ Len(s) = k /\ \A j \in 1 .. k : s[j] = es[j]
  <2>1. \A i \in 1 .. k : es[i] \in Line  BY <1>0
  <2>2. /\ s \in Seq(Line) /\ Len(s) = IF 1 <= k THEN k - 1 + 1 ELSE 0
        /\ \A i \in 1 .. k - 1 + 1 : s[i] = es[1 + i - 1]
    BY <1>0, <2>1, SubSeqFacts
  <2> QED  BY <1>0, <2>2
<1> HIDE DEF s
<1>2. /\ lines' \in Seq(Line) /\ Len(lines') = n + k
      /\ \A i \in 1 .. n + k : lines'[i] = IF i <= n THEN lines[i] ELSE s[i - n]
  <2>1. lines \in Seq(Line) /\ lines' = lines \o s  BY DEF LogTypes, s
  <2> QED  BY <1>1, <2>1, ConcatFacts
<1>3. \A i \in 1 .. n : lines'[i] = lines[i]  BY <1>0, <1>2
<1>4. \A i \in n + 1 .. n + k : i - n \in 1 .. k /\ lines'[i] = es[i - n]
  BY <1>0, <1>1, <1>2
<1>5. \A j \in 1 .. k : lines'[n + j] = es[j]
  <2> SUFFICES ASSUME NEW j \in 1 .. k PROVE lines'[n + j] = es[j]  OBVIOUS
  <2>1. n + j \in n + 1 .. n + k /\ (n + j) - n = j  BY <1>0
  <2> QED  BY <1>4, <2>1
<1>6. Adoptable' => k + 1 \in 1 .. Len(es) /\ active'.tail[1] = es[k + 1]
  BY <1>0 DEF Adoptable
<1>7. Segmented'
  <2>1. Rotated' = Rotated  BY DEF Rotated
  <2>2. Rotated \in Nat  BY RotatedType
  <2>3. Len(lines) <= Len(lines') /\ Len(lines) \in Nat /\ Len(lines') \in Nat
    BY <1>0, <1>2 DEF n
  <2>4. Segmented  BY DEF Stored
  <2> QED  BY <2>1, <2>2, <2>3, <2>4 DEF Segmented
<1> DEFINE Old(i) == i \in 1 .. n
           New(i) == i \in n + 1 .. n + k
<1>8. \A i \in 1 .. n + k : Old(i) \/ New(i)  BY <1>0
<1>9. ReturnedStays'
  <2>1. {lines[i] : i \in 1 .. n} \subseteq {lines'[i] : i \in 1 .. n + k}  BY <1>0, <1>3
  <2>2. DOMAIN lines = 1 .. n /\ DOMAIN lines' = 1 .. n + k  BY <1>2 DEF LogTypes
  <2> QED  BY <2>1, <2>2 DEF Stored, ReturnedStays
<1>10. Ascending'
  <2>1. ASSUME NEW i \in 1 .. n + k, NEW j \in 1 .. n + k, i < j
        PROVE  lines'[i].seq < lines'[j].seq
    <3>1. CASE Old(i) /\ Old(j)  BY <1>3, <2>1, <3>1 DEF Stored, Ascending
    <3>2. CASE Old(i) /\ New(j)  BY <1>0, <1>3, <1>4, <3>2
    <3>3. CASE New(i) /\ New(j)
      <4>1. i - n < j - n /\ i - n \in 1 .. Len(es) /\ j - n \in 1 .. Len(es)
        BY <1>0, <1>4, <2>1, <3>3
      <4> QED  BY Zenon, <1>4, <3>3, <4>1
    <3>4. ~(New(i) /\ Old(j))  BY <1>0, <2>1
    <3>5. (Old(i) \/ New(i)) /\ (Old(j) \/ New(j))  BY <1>8
    <3> HIDE DEF Old, New
    <3> QED  BY Zenon, <3>1, <3>2, <3>3, <3>4, <3>5
  <2>2. ASSUME Adoptable', NEW i \in 1 .. n + k PROVE lines'[i].seq < active'.tail[1].seq
    <3>1. CASE Old(i)  BY <1>3, <1>6, <2>2, <3>1
    <3>2. CASE New(i)
      <4>1. i - n < k + 1 /\ i - n \in 1 .. Len(es)  BY <1>0, <1>4, <3>2
      <4> QED  BY Zenon, <1>4, <1>6, <2>2, <3>2, <4>1
    <3> QED  BY <1>8, <3>1, <3>2
  <2> QED  BY Zenon, <1>2, <2>1, <2>2 DEF Ascending
<1>11. Numbered'
  <2> SUFFICES ASSUME ~skipped
               PROVE  /\ \A i \in 1 .. n + k : lines'[i].seq = i
                      /\ Adoptable' => active'.tail[1].seq = n + k + 1
                      /\ manifest.latest <= n + k
    BY <1>2 DEF Numbered
  <2>1. ASSUME NEW i \in 1 .. n + k PROVE lines'[i].seq = i
    <3>1. CASE Old(i)  BY <1>3, <3>1 DEF Stored, Numbered
    <3>2. CASE New(i)
      <4>1. i - n \in 1 .. Len(es) /\ n + (i - n) = i  BY <1>0, <1>4, <3>2
      <4> QED  BY Zenon, <1>4, <3>2, <4>1
    <3> QED  BY <1>8, <3>1, <3>2
  <2>2. Adoptable' => active'.tail[1].seq = n + k + 1  BY <1>0, <1>6
  <2>3. manifest.latest \in Int /\ manifest.latest <= n  BY DEF LogTypes, Stored, Numbered
  <2>4. manifest.latest <= n + k  BY <1>0, <2>3
  <2> QED  BY <2>1, <2>2, <2>4
<1>12. Once'
  <2>0. \A i \in 1 .. n + k : New(i) /\ lines'[i].ev.id = "completion" => NoCompletion
    BY <1>0, <1>4
  <2>1. ASSUME NEW i \in 1 .. n + k, NEW j \in 1 .. n + k, lines'[i].ev.id = "completion",
               lines'[j].ev.id = "completion"
        PROVE  i = j
    <3>1. CASE Old(i) /\ Old(j)  BY <1>3, <2>1, <3>1 DEF Stored, Once
    <3>2. CASE Old(i) /\ New(j)  BY <1>3, <2>0, <2>1, <3>2 DEF NoCompletion
    <3>3. CASE New(i) /\ Old(j)  BY <1>3, <2>0, <2>1, <3>3 DEF NoCompletion
    <3>4. CASE New(i) /\ New(j)
      <4>1. i - n \in 1 .. Len(es) /\ j - n \in 1 .. Len(es)  BY <1>0, <1>4, <3>4
      <4>2. i - n = j - n  BY <1>4, <2>1, <3>4, <4>1
      <4> QED  BY <1>0, <4>2
    <3> QED  BY <1>8, <3>1, <3>2, <3>3, <3>4
  <2>2. ASSUME Adoptable', active'.tail[1].ev.id = "completion", NEW i \in 1 .. n + k
        PROVE  lines'[i].ev.id # "completion"
    <3>1. NoCompletion  BY <1>6, <2>2
    <3>2. CASE Old(i)  BY <1>3, <3>1, <3>2 DEF NoCompletion
    <3>3. CASE New(i)
      <4>1. i - n \in 1 .. Len(es) /\ i - n # k + 1  BY <1>0, <1>4, <3>3
      <4> QED  BY <1>4, <1>6, <2>2, <3>3, <4>1
    <3> QED  BY <1>8, <3>2, <3>3
  <2> QED  BY Zenon, <1>2, <2>1, <2>2 DEF Once, NoCompletion
<1>13. Whole'
  <2> SUFFICES ASSUME ~cut'
               PROVE  /\ \A i \in 1 .. n + k : lines'[i].ev = Recap =>
                           i < n + k /\ lines'[i + 1].ev = Detach
                      /\ Adoptable' => active'.tail[1].ev # Recap
    BY <1>2 DEF Whole
  <2>1. ASSUME NEW i \in 1 .. n + k, lines'[i].ev = Recap
        PROVE  i < n + k /\ lines'[i + 1].ev = Detach
    <3>1. CASE Old(i)
      <4>1. i < n /\ lines[i + 1].ev = Detach  BY <1>3, <2>1, <3>1 DEF Stored, Whole
      <4>2. i + 1 \in 1 .. n  BY <1>0, <4>1
      <4> QED  BY <1>0, <1>3, <4>1, <4>2
    <3>2. CASE New(i)
      <4>1. i - n \in 1 .. k /\ es[i - n].ev = Recap  BY <1>4, <2>1, <3>2
      <4>2. i - n < k /\ es[(i - n) + 1].ev = Detach  BY <4>1
      <4>3. i + 1 \in n + 1 .. n + k /\ (i + 1) - n = (i - n) + 1  BY <1>0, <3>2, <4>2
      <4> QED  BY <1>0, <1>4, <4>2, <4>3
    <3> QED  BY <1>8, <3>1, <3>2
  <2>2. Adoptable' => active'.tail[1].ev # Recap  BY <1>0, <1>6
  <2> QED  BY <2>1, <2>2
<1> QED  BY <1>2, <1>3, <1>5, <1>7, <1>9, <1>10, <1>11, <1>12, <1>13 DEF Stored

\* What the active file's last line and the manifest say of the next sequence.
LEMMA ActiveSeqType ==
  ASSUME LogTypes, Segmented
  PROVE  /\ ActiveSeq \in Nat
         /\ Len(lines) = Rotated => ActiveSeq = 0
         /\ Len(lines) # Rotated => Len(lines) \in 1 .. Len(lines) /\ ActiveSeq = lines[Len(lines)].seq
<1>1. Rotated \in Nat /\ Len(lines) \in Nat /\ Rotated <= Len(lines)
  BY RotatedType DEF LogTypes, Segmented
<1>2. CASE Len(lines) = Rotated  BY <1>2 DEF ActiveSeq
<1>3. CASE Len(lines) # Rotated
  <2>1. Len(lines) \in 1 .. Len(lines)  BY <1>1, <1>3
  <2>2. lines[Len(lines)] \in Line  BY <2>1 DEF LogTypes
  <2> QED  BY <1>3, <2>1, <2>2 DEF ActiveSeq, Line
<1> QED  BY <1>2, <1>3

LEMMA LastIsGreatest ==
  ASSUME LogTypes, Ascending, NEW n \in 1 .. Len(lines), NEW i \in 1 .. n
  PROVE  lines[i].seq <= lines[n].seq /\ lines[i].seq \in Nat /\ lines[n].seq \in Nat
<1>1. lines[i] \in Line /\ lines[n] \in Line /\ i \in 1 .. Len(lines)  BY DEF LogTypes
<1>2. lines[i].seq \in Nat /\ lines[n].seq \in Nat  BY <1>1 DEF Line
<1>3. CASE i = n  BY <1>2, <1>3
<1>4. CASE i < n  BY <1>1, <1>2, <1>4 DEF Ascending
<1> QED  BY <1>2, <1>3, <1>4

\* The next sequence is past every stored one, and the next number without a rollback.
LEMMA NextSeqIsNew ==
  ASSUME LogTypes, Stored, Rotated > 0 => lines[Rotated].seq <= manifest.latest
  PROVE  /\ NextSeq \in Nat \ {0} /\ \A i \in 1 .. Len(lines) : lines[i].seq < NextSeq
         /\ ~skipped => NextSeq = Len(lines) + 1
<1> DEFINE m == Max({manifest.latest, ActiveSeq, 0})
           n == Len(lines)
<1>0. manifest.latest \in Int /\ n \in Nat /\ Rotated \in Nat /\ Rotated <= n
  BY RotatedType DEF LogTypes, Stored, Segmented
<1>1. /\ ActiveSeq \in Nat /\ (n = Rotated => ActiveSeq = 0)
      /\ n # Rotated => n \in 1 .. n /\ ActiveSeq = lines[n].seq
  BY ActiveSeqType DEF Stored
<1>2. m \in {manifest.latest, ActiveSeq, 0} /\ m >= manifest.latest /\ m >= ActiveSeq /\ m >= 0
  <2>1. manifest.latest \in Int /\ ActiveSeq \in Int /\ 0 \in Int  BY <1>0, <1>1
  <2> QED  BY <2>1, MaxOfThree, Zenon
<1>3. NextSeq = m + 1  BY DEF NextSeq
<1> HIDE DEF m
<1>4. m \in Nat  BY <1>0, <1>1, <1>2
<1>5. ASSUME NEW i \in 1 .. n PROVE lines[i].seq <= m
  <2>1. n \in 1 .. n /\ lines[i].seq <= lines[n].seq /\ lines[i].seq \in Nat /\ lines[n].seq \in Nat
    <3>1. n \in 1 .. n  BY <1>0
    <3> QED  BY <3>1, LastIsGreatest DEF Stored
  <2>2. lines[n].seq <= m
    <3>1. CASE n = Rotated  BY <1>0, <1>2, <1>4, <2>1, <3>1
    <3>2. CASE n # Rotated  BY <1>1, <1>2, <3>2
    <3> QED  BY <3>1, <3>2
  <2> QED  BY <1>4, <2>1, <2>2
<1>6. ASSUME ~skipped PROVE m = n
  <2>1. manifest.latest <= n /\ \A i \in 1 .. n : lines[i].seq = i
    BY <1>6 DEF Stored, Numbered
  <2>2. CASE n = Rotated
    <3>1. CASE n = 0  BY <1>0, <1>1, <1>2, <2>1, <2>2, <3>1
    <3>2. CASE n > 0
      <4>1. lines[n].seq = n /\ lines[n].seq <= manifest.latest  BY <1>0, <2>1, <2>2, <3>2
      <4> QED  BY <1>0, <1>1, <1>2, <2>1, <2>2, <3>2, <4>1
    <3> QED  BY <1>0, <3>1, <3>2
  <2>3. CASE n # Rotated
    <3>1. ActiveSeq = n  BY <1>1, <2>1, <2>3
    <3> QED  BY <1>0, <1>2, <2>1, <3>1
  <2> QED  BY <2>2, <2>3
<1>7. \A i \in 1 .. n : lines[i].seq < m + 1
  <2> SUFFICES ASSUME NEW i \in 1 .. n PROVE lines[i].seq < m + 1  OBVIOUS
  <2>1. lines[i] \in Line  BY DEF LogTypes
  <2>2. lines[i].seq \in Nat  BY <2>1 DEF Line
  <2> QED  BY <1>4, <1>5, <2>2
<1> QED  BY <1>3, <1>4, <1>6, <1>7

LEMMA AppendsType ==
  ASSUME NEW o \in Appends
  PROVE  /\ o \in Seq(LogEvents) /\ Len(o) \in {1, 2} /\ o # <<>>
         /\ \A i \in 1 .. Len(o) : o[i].id = "completion" => Len(o) = 1
         /\ Len(o) = 1 => o[1] # Recap
         /\ Len(o) = 2 => o[1] = Recap /\ o[2] = Detach
<1>1. CASE o = <<Note>>  BY <1>1 DEF LogEvents, Note, Recap
<1>2. CASE o = <<Recap, Detach>>  BY <1>2 DEF LogEvents, Recap, Detach
<1>3. CASE \E c \in Completion : o = <<c>>
  <2>1. PICK c \in Completion : o = <<c>>  BY <1>3
  <2>2. c \in LogEvents /\ c # Recap  BY DEF LogEvents, Completion, Recap
  <2> QED  BY <2>1, <2>2
<1> QED  BY <1>1, <1>2, <1>3 DEF Appends

\* The entries an operation is to write.
LEMMA EntriesType ==
  ASSUME LogIInv, NEW l \in Logs, pc[l] = "write"
  PROVE  /\ op[l] \in Appends /\ Entries(l) \in Seq(Line) /\ Len(Entries(l)) = Len(op[l])
         /\ \A i \in 1 .. Len(op[l]) : Entries(l)[i].ev = op[l][i]
                                       /\ Entries(l)[i].seq = NextSeq + i - 1
<1>1. op[l] \in Appends  BY DEF LogIInv, LogTypes, AtWork
<1>2. op[l] \in Seq(LogEvents)  BY <1>1, AppendsType
<1>3. NextSeq \in Nat \ {0}  BY NextSeqIsNew DEF LogIInv, AtWork
<1> DEFINE n == Len(op[l])
<1>4. n \in Nat /\ DOMAIN op[l] = 1 .. n /\ \A i \in 1 .. n : op[l][i] \in LogEvents  BY <1>2
<1>5. Entries(l) = [i \in 1 .. n |-> [seq |-> NextSeq + i - 1, ev |-> op[l][i]]]
  BY <1>4 DEF Entries
<1>6. \A i \in 1 .. n : [seq |-> NextSeq + i - 1, ev |-> op[l][i]] \in Line
  BY <1>3, <1>4 DEF Line
<1> HIDE DEF n
<1>7. Entries(l) \in Seq(Line) /\ Len(Entries(l)) = n  BY <1>4, <1>5, <1>6
<1> QED  BY <1>1, <1>5, <1>7 DEF n

\* Whatever part of a write is in the files, they are in order.
LEMMA WriteGrowth ==
  ASSUME LogIInv, NEW l \in Logs, pc[l] = "write", NEW k \in 0 .. Len(op[l]),
         lines' = lines \o SubSeq(Entries(l), 1, k),
         active'.tail \in {<<>>, Torn} \/ (k < Len(op[l]) /\ active'.tail = <<Entries(l)[k + 1]>>),
         UNCHANGED <<segs, manifest, acked, skipped>>, cut => cut',
         cut' \/ Len(op[l]) = 1 \/ k = Len(op[l])
  PROVE  /\ lines' \in Seq(Line) /\ Stored'
         /\ Len(lines') = Len(lines) + k /\ \A i \in 1 .. Len(lines) : lines'[i] = lines[i]
         /\ \A j \in 1 .. k : lines'[Len(lines) + j] = Entries(l)[j]
<1> DEFINE es == Entries(l)
<1>1. /\ op[l] \in Appends /\ es \in Seq(Line) /\ Len(es) = Len(op[l])
      /\ \A i \in 1 .. Len(op[l]) : es[i].ev = op[l][i] /\ es[i].seq = NextSeq + i - 1
  BY Zenon, EntriesType
<1> HIDE DEF es
<1>2. /\ NextSeq \in Nat \ {0} /\ \A i \in 1 .. Len(lines) : lines[i].seq < NextSeq
      /\ ~skipped => NextSeq = Len(lines) + 1
  BY NextSeqIsNew DEF LogIInv, AtWork
<1>3. /\ Len(op[l]) \in {1, 2}
      /\ \A i \in 1 .. Len(op[l]) : op[l][i].id = "completion" => Len(op[l]) = 1
      /\ Len(op[l]) = 1 => op[l][1] # Recap
      /\ Len(op[l]) = 2 => op[l][1] = Recap /\ op[l][2] = Detach
  BY <1>1, AppendsType
<1>4. \A i \in 1 .. Len(lines) : lines[i].seq \in Nat
  <2> SUFFICES ASSUME NEW i \in 1 .. Len(lines) PROVE lines[i].seq \in Nat  OBVIOUS
  <2>1. lines[i] \in Line  BY DEF LogIInv, LogTypes
  <2> QED  BY <2>1 DEF Line
<1>5. \A i \in 1 .. Len(lines), j \in 1 .. Len(es) : lines[i].seq < es[j].seq
  <2> SUFFICES ASSUME NEW i \in 1 .. Len(lines), NEW j \in 1 .. Len(es)
               PROVE  lines[i].seq < es[j].seq
    OBVIOUS
  <2>1. es[j].seq = NextSeq + j - 1 /\ j \in Nat \ {0}  BY <1>1
  <2>2. lines[i].seq < NextSeq /\ lines[i].seq \in Nat /\ NextSeq \in Nat  BY <1>2, <1>4
  <2> QED  BY <2>1, <2>2
<1>6. \A i, j \in 1 .. Len(es) : i < j => es[i].seq < es[j].seq
  <2> SUFFICES ASSUME NEW i \in 1 .. Len(es), NEW j \in 1 .. Len(es), i < j
               PROVE  es[i].seq < es[j].seq
    OBVIOUS
  <2>1. es[i].seq = NextSeq + i - 1 /\ es[j].seq = NextSeq + j - 1  BY <1>1
  <2>2. NextSeq \in Nat  BY <1>2
  <2> QED  BY <2>1, <2>2
<1>7. ~skipped => \A j \in 1 .. Len(es) : es[j].seq = Len(lines) + j
  <2>1. Len(lines) \in Nat  BY DEF LogIInv, LogTypes
  <2> QED  BY <1>1, <1>2, <2>1
<1>8. \A i, j \in 1 .. Len(es) :
        es[i].ev.id = "completion" /\ es[j].ev.id = "completion" => i = j
  <2> SUFFICES ASSUME NEW i \in 1 .. Len(es), NEW j \in 1 .. Len(es), es[i].ev.id = "completion"
               PROVE  i = j
    OBVIOUS
  <2>1. op[l][i].id = "completion"  BY <1>1
  <2>2. Len(op[l]) = 1  BY <1>1, <1>3, <2>1
  <2> QED  BY <1>1, <2>2
<1>9. (\E j \in 1 .. Len(es) : es[j].ev.id = "completion") => NoCompletion
  <2> SUFFICES ASSUME NEW j \in 1 .. Len(es), es[j].ev.id = "completion" PROVE NoCompletion
    OBVIOUS
  <2>1. op[l][j].id = "completion" /\ j = 1  BY <1>1, <1>3
  <2> QED  BY <2>1 DEF LogIInv, AtWork
<1>10. Detach # Recap  BY DEF Detach, Recap
<1>11. ~cut' => /\ \A j \in 1 .. k : es[j].ev = Recap => j < k /\ es[j + 1].ev = Detach
                /\ k < Len(es) => es[k + 1].ev # Recap
  <2>1. CASE Len(op[l]) = 1
    <3>1. es[1].ev # Recap /\ Len(es) = 1  BY <1>1, <1>3, <2>1
    <3> QED  BY <2>1, <3>1
  <2>2. CASE Len(op[l]) = 2
    <3>1. es[1].ev = Recap /\ es[2].ev = Detach /\ Len(es) = 2  BY <1>1, <1>3, <2>2
    <3>2. \A j \in 1 .. 2 : es[j].ev = Recap => j = 1 /\ j < 2 /\ es[j + 1].ev = Detach
      BY <1>10, <3>1
    <3>3. ~cut' => k = 2 /\ ~(k < Len(es))  BY <2>2, <3>1
    <3> HIDE DEF es
    <3> QED  BY <3>2, <3>3
  <2> QED  BY <1>3, <2>1, <2>2
<1>12. lines' = lines \o SubSeq(es, 1, k)
       /\ (active'.tail \in {<<>>, Torn} \/ (k < Len(es) /\ active'.tail = <<es[k + 1]>>))
       /\ k \in 0 .. Len(es)
  BY <1>1 DEF es
<1> QED  BY Zenon, <1>1, <1>5, <1>6, <1>7, <1>8, <1>9, <1>11, <1>12, Growth DEF LogIInv, es

-----------------------------------------------------------------------------

\* A step of an object beside the one that works on the files.
LEMMA BesideStep ==
  ASSUME LogIInv, NEW l \in Logs, NEW p \in Away, pc' = [pc EXCEPT ![l] = p],
         UNCHANGED <<lines, segs, manifest, mutex, op, acked, skipped>>, cut => cut',
         active'.tail = active.tail, active' \in [ino : Nat, tail : Tails], inodes' \in Nat
  PROVE  LogIInv'
<1>1. LogTypes'  BY DEF LogIInv, LogTypes, Places, Away
<1>2. Stored'  BY SameFiles DEF LogIInv
<1>3. ASSUME NEW m \in Logs PROVE AtWork(m)'
  <2>1. CASE m = l
    <3>1. pc'[m] = p  BY <2>1 DEF LogIInv, LogTypes
    <3> QED  BY <3>1, AwayIsFree
  <2>2. CASE m # l
    <3>1. pc'[m] = pc[m]  BY <2>2 DEF LogIInv, LogTypes
    <3>2. Rotated' = Rotated /\ (NoCompletion => NoCompletion')  BY Zenon DEF Rotated, NoCompletion
    <3>3. Added(m) => Added(m)'  BY Zenon, <3>2 DEF Added
    <3>4. AtWork(m)  BY DEF LogIInv
    <3> QED  BY <3>1, <3>2, <3>3, <3>4 DEF AtWork
  <2> QED  BY <2>1, <2>2
<1> QED  BY <1>1, <1>2, <1>3 DEF LogIInv

\* A constructor makes the active file.
LEMMA ConstructStep ==
  ASSUME LogIInv, NEW l \in Logs, Construct(l)
  PROVE  LogIInv'
<1>1. <<>> \in Tails  BY DEF Tails
<1>2. active'.tail = active.tail /\ active' \in [ino : Nat, tail : Tails] /\ inodes' \in Nat
  BY <1>1 DEF Construct, NoFile, LogIInv, LogTypes
<1> QED  BY Zenon, <1>2, BesideStep DEF Construct, Away

\* An operation takes the mutex.
LEMMA LockStep ==
  ASSUME LogIInv, Nobody \notin Logs, NEW l \in Logs, Lock(l)
  PROVE  LogIInv'
<1>1. /\ mutex = Nobody /\ mutex' = l /\ pc' = [pc EXCEPT ![l] = "settle"]
      /\ UNCHANGED <<lines, segs, active, manifest, inodes, acked, skipped, cut>>
  BY DEF Lock
<1>2. op' \in [Logs -> Appends \cup {<<>>}]
  BY DEF Lock, LogIInv, LogTypes, Appends
<1>3. LogTypes'  BY Zenon, <1>1, <1>2 DEF LogIInv, LogTypes, Places
<1>4. Stored'  BY <1>1, SameFiles DEF LogIInv
<1>5. AtWork(l)'
  <2>1. pc'[l] = "settle"  BY <1>1 DEF LogIInv, LogTypes
  <2> QED  BY <1>1, <2>1 DEF AtWork
<1>6. \A m \in Logs : AtWork(m)'  BY Zenon, <1>1, <1>5, OthersAway DEF Places
<1> QED  BY <1>3, <1>4, <1>6 DEF LogIInv

\* The end of an operation that holds the mutex, with whatever it leaves in the files.
LEMMA ReleaseStep ==
  ASSUME LogIInv, Nobody \notin Logs, NEW l \in Logs, mutex = l, NEW p \in {"down", "idle"},
         Release(l, p), UNCHANGED <<segs, inodes>>, lines' \in Seq(Line),
         active' \in [ino : Nat, tail : Tails],
         manifest' \in [names : SUBSET Nat, latest : Int], Stored'
  PROVE  LogIInv'
<1>1. pc' = [pc EXCEPT ![l] = p] /\ op' = [op EXCEPT ![l] = <<>>]  BY DEF Release
<1>2. LogTypes'  BY <1>1 DEF LogIInv, LogTypes, Places
<1>3. pc'[l] \in Away  BY <1>1 DEF LogIInv, LogTypes, Away
<1>4. AtWork(l)'  BY <1>3, AwayIsFree
<1>5. \A m \in Logs : AtWork(m)'  BY Zenon, <1>1, <1>4, OthersAway DEF Places
<1> QED  BY <1>2, <1>5 DEF LogIInv

\* A step to the next place, with the mutex held.
LEMMA GotoStep ==
  ASSUME LogIInv, Nobody \notin Logs, NEW l \in Logs, mutex = l, NEW p \in Places, Goto(l, p),
         lines' \in Seq(Line), segs' \in Seq(Ranges), active' \in [ino : Nat, tail : Tails],
         inodes' \in Nat, manifest' \in [names : SUBSET Nat, latest : Int],
         Stored', AtWork(l)'
  PROVE  LogIInv'
<1>1. pc' = [pc EXCEPT ![l] = p] /\ UNCHANGED op  BY DEF Goto
<1>2. LogTypes'  BY <1>1 DEF LogIInv, LogTypes
<1>3. \A m \in Logs : AtWork(m)'  BY Zenon, <1>1, OthersAway
<1> QED  BY <1>2, <1>3 DEF LogIInv

\* An exception leaves the files alone.
LEMMA RaiseStep ==
  ASSUME LogIInv, Nobody \notin Logs, NEW l \in Logs, mutex = l, Raise(l),
         UNCHANGED <<lines, segs, active, manifest, inodes, acked, skipped, cut>>
  PROVE  LogIInv'
<1>1. PICK p \in {"down", "idle"} : Release(l, p)  BY DEF Raise
<1>2. Stored'  BY SameFiles DEF LogIInv
<1> QED  BY <1>1, <1>2, ReleaseStep DEF LogIInv, LogTypes

LEMMA OneLine ==
  ASSUME NEW S, NEW t \in Seq(S), Len(t) <= 1, t # <<>>
  PROVE  Len(t) = 1
<1> DEFINE n == Len(t)
<1>1. n \in Nat \ {0} /\ n <= 1  OBVIOUS
<1> HIDE DEF n
<1>2. n = 1  BY <1>1
<1> QED  BY <1>2 DEF n

\* The recovery of the tail.
LEMMA SettleStep ==
  ASSUME LogIInv, Nobody \notin Logs, NEW l \in Logs, Settle(l)
  PROVE  LogIInv'
<1>0. /\ mutex = l /\ UNCHANGED <<segs, manifest, inodes, acked, skipped, cut>>  BY DEF Settle
<1>1. CASE ~Opens(l)  BY <1>0, <1>1, RaiseStep DEF Settle
<1>2. CASE Opens(l)
  <2>1. lines' = Settled /\ active' = [active EXCEPT !.tail = <<>>] /\ Goto(l, "rebuild")
    BY <1>2 DEF Settle
  <2>2. <<>> \in Tails  BY DEF Tails
  <2>3. active' \in [ino : Nat, tail : Tails] /\ active'.tail = <<>>
    BY <2>1, <2>2 DEF LogIInv, LogTypes
  <2>4. lines' \in Seq(Line) /\ Stored'
    <3>1. CASE ~Adoptable
      <4>1. lines' = lines  BY <2>1, <3>1 DEF Settled, Adoptable
      <4> QED  BY <1>0, <2>3, <4>1, SameFiles DEF LogIInv, LogTypes
    <3>2. CASE Adoptable
      <4> DEFINE es == active.tail
      <4>1. lines' = lines \o es /\ es # <<>> /\ es # Torn  BY <2>1, <3>2 DEF Settled, Adoptable
      <4>2. active.tail \in Tails  BY DEF LogIInv, LogTypes
      <4>3. es \in Seq(Line) /\ Len(es) = 1
        <5>1. es \in Seq(Line)  BY <4>1, <4>2 DEF Tails
        <5>2. Len(es) <= 1  BY <4>1, <4>2 DEF Tails
        <5>3. Len(es) = 1  BY <4>1, <5>1, <5>2, OneLine, Zenon
        <5> QED  BY <5>1, <5>3, Zenon
      <4>4. /\ \A i \in 1 .. Len(lines) : lines[i].seq < es[1].seq
            /\ ~skipped => es[1].seq = Len(lines) + 1
            /\ es[1].ev.id = "completion" => NoCompletion
            /\ ~cut => es[1].ev # Recap
        BY Zenon, <3>2 DEF LogIInv, Stored, Ascending, Numbered, Once, Whole
      <4> HIDE DEF es
      <4>5. SubSeq(es, 1, 1) = es
        <5>1. \A i \in 1 .. 1 : es[i] \in Line  BY <4>3
        <5>2. /\ SubSeq(es, 1, 1) \in Seq(Line)
              /\ Len(SubSeq(es, 1, 1)) = IF 1 <= 1 THEN 1 - 1 + 1 ELSE 0
              /\ \A i \in 1 .. 1 - 1 + 1 : SubSeq(es, 1, 1)[i] = es[1 + i - 1]
          BY <5>1, SubSeqFacts
        <5>3. Len(SubSeq(es, 1, 1)) = 1 /\ SubSeq(es, 1, 1)[1] = es[1]  BY <5>2
        <5> QED  BY <4>3, <5>2, <5>3
      <4>6. 1 \in 0 .. Len(es)  BY <4>3
      <4>7. lines' = lines \o SubSeq(es, 1, 1)  BY Zenon, <4>1, <4>5
      <4>8. \A j \in 1 .. Len(es) : j = 1  BY <4>3
      <4>9. /\ \A i \in 1 .. Len(lines), j \in 1 .. Len(es) : lines[i].seq < es[j].seq
            /\ \A i, j \in 1 .. Len(es) : i < j => es[i].seq < es[j].seq
            /\ ~skipped => \A j \in 1 .. Len(es) : es[j].seq = Len(lines) + j
            /\ \A i, j \in 1 .. Len(es) :
                 es[i].ev.id = "completion" /\ es[j].ev.id = "completion" => i = j
            /\ (\E j \in 1 .. Len(es) : es[j].ev.id = "completion") => NoCompletion
            /\ ~cut => /\ \A j \in 1 .. 1 : es[j].ev = Recap => j < 1 /\ es[j + 1].ev = Detach
                       /\ 1 < Len(es) => es[1 + 1].ev # Recap
        BY <4>3, <4>4, <4>8
      <4> QED  BY Zenon, <1>0, <2>3, <4>3, <4>6, <4>7, <4>9, Growth DEF LogIInv
    <3> QED  BY <3>1, <3>2
  <2>5. pc'[l] = "rebuild" /\ mutex' = l  BY <1>0, <2>1 DEF Goto, LogIInv, LogTypes
  <2>6. AtWork(l)'  BY <2>3, <2>5 DEF AtWork
  <2> QED  BY <1>0, <2>1, <2>3, <2>4, <2>6, GotoStep DEF LogIInv, LogTypes, Places
<1> QED  BY <1>1, <1>2

\* The manifest that is rebuilt from the files.
LEMMA RebuiltType ==
  ASSUME LogTypes, Stored
  PROVE  /\ Rebuilt \in [names : SUBSET Nat, latest : Int]
         /\ ~skipped => Rebuilt.latest <= Len(lines)
         /\ Rotated > 0 => lines[Rotated].seq <= Rebuilt.latest
         /\ segs # <<>> => Rebuilt.names = {segs[i].ino : i \in DOMAIN segs}
<1>0. manifest.latest \in Int /\ Rotated \in Nat /\ Len(lines) \in Nat /\ Len(segs) \in Nat
      /\ DOMAIN segs = 1 .. Len(segs) /\ Rotated <= Len(lines)
  BY RotatedType DEF LogTypes, Stored, Segmented
<1>1. CASE manifest = NoManifest /\ segs = <<>>
  <2>1. Rebuilt = [names |-> {}, latest |-> -1] /\ Rotated = 0
    BY <1>1 DEF Rebuilt, NoManifest, Rotated
  <2> QED  BY <1>0, <1>1, <2>1
<1>2. CASE ~(manifest = NoManifest /\ segs = <<>>)
  <2> DEFINE names == {segs[i].ino : i \in DOMAIN segs}
             S == {SegmentSeq(i) : i \in DOMAIN segs} \cup {manifest.latest, ActiveSeq}
  <2>1. Rebuilt = [names |-> names, latest |-> Max(S)]  BY <1>2 DEF Rebuilt
  <2>2. names \in SUBSET Nat
    <3> SUFFICES ASSUME NEW i \in 1 .. Len(segs) PROVE segs[i].ino \in Nat  BY <1>0
    <3>1. segs[i] \in Ranges  BY DEF LogTypes
    <3> QED  BY <3>1 DEF Ranges
  <2> HIDE DEF names
  <2>3. \A i \in 1 .. Len(segs) : segs[i].last \in 1 .. Rotated
    <3> SUFFICES ASSUME NEW i \in 1 .. Len(segs) PROVE segs[i].last \in 1 .. Rotated  OBVIOUS
    <3>1. segs[i] \in Ranges  BY DEF LogTypes
    <3> QED  BY <1>0, <3>1 DEF Ranges, Stored, Segmented
  <2>4. /\ ActiveSeq \in Nat /\ (Len(lines) = Rotated => ActiveSeq = 0)
        /\ Len(lines) # Rotated =>
             Len(lines) \in 1 .. Len(lines) /\ ActiveSeq = lines[Len(lines)].seq
    BY ActiveSeqType DEF Stored
  <2> DEFINE top == IF Rotated > 0 THEN {lines[Rotated].seq} ELSE {}
             T == top \cup {manifest.latest, ActiveSeq}
  <2>5. Rotated > 0 =>
          /\ lines[Rotated].seq \in Nat
          /\ \A i \in 1 .. Rotated : lines[i].seq <= lines[Rotated].seq /\ lines[i].seq \in Nat
    <3> SUFFICES ASSUME Rotated > 0
                 PROVE  /\ lines[Rotated].seq \in Nat
                        /\ \A i \in 1 .. Rotated : lines[i].seq <= lines[Rotated].seq
                                                   /\ lines[i].seq \in Nat
      OBVIOUS
    <3>1. Rotated \in 1 .. Len(lines) /\ Rotated \in 1 .. Rotated  BY <1>0
    <3> QED  BY <3>1, LastIsGreatest DEF Stored
  <2>6. Rotated > 0 => lines[Rotated].seq \in S
    <3> SUFFICES ASSUME Rotated > 0 PROVE lines[Rotated].seq \in S  OBVIOUS
    <3>1. segs # <<>>  BY <1>0 DEF Rotated
    <3>2. Len(segs) \in DOMAIN segs /\ SegmentSeq(Len(segs)) = lines[Rotated].seq
      BY <1>0, <3>1, RotatedType DEF SegmentSeq
    <3> QED  BY <3>2
  <2>7. \A x \in S : x \in {manifest.latest, ActiveSeq}
                     \/ (Rotated > 0 /\ x \in Nat /\ x <= lines[Rotated].seq)
    <3> SUFFICES ASSUME NEW i \in 1 .. Len(segs)
                 PROVE  /\ Rotated > 0 /\ SegmentSeq(i) \in Nat
                        /\ SegmentSeq(i) <= lines[Rotated].seq
      BY <1>0
    <3>1. segs[i].last \in 1 .. Rotated /\ Rotated > 0  BY <1>0, <2>3
    <3> QED  BY <2>5, <3>1 DEF SegmentSeq
  <2>8. S \in SUBSET Int  BY <1>0, <2>4, <2>7
  <2>9. PICK m \in S : \A x \in S : x <= m
    <3>0. manifest.latest \in S /\ ActiveSeq \in S  OBVIOUS
    <3> HIDE DEF S
    <3> DEFINE a == manifest.latest
               b == ActiveSeq
               c == lines[Rotated].seq
    <3>1. a \in Int /\ b \in Int /\ (Rotated > 0 => c \in Int)  BY <1>0, <2>4, <2>5
    <3> HIDE DEF a, b, c
    <3>2. CASE Rotated > 0
      <4>1. c \in S /\ a \in S /\ b \in S  BY <2>6, <3>0, <3>2 DEF a, b, c
      <4>2. \A x \in S : x \in Int /\ (x = a \/ x = b \/ x <= c)
        BY <2>7, <2>8, <3>2 DEF a, b, c
      <4>3. CASE a >= b /\ a >= c  BY <3>1, <3>2, <4>1, <4>2, <4>3
      <4>4. CASE b >= a /\ b >= c  BY <3>1, <3>2, <4>1, <4>2, <4>4
      <4>5. CASE c >= a /\ c >= b  BY <3>1, <3>2, <4>1, <4>2, <4>5
      <4> QED  BY <3>1, <3>2, <4>3, <4>4, <4>5
    <3>3. CASE ~(Rotated > 0)
      <4>1. \A x \in S : x = a \/ x = b  BY <2>7, <3>3 DEF a, b
      <4>2. a \in S /\ b \in S  BY <3>0 DEF a, b
      <4>3. CASE a >= b  BY <3>1, <4>1, <4>2, <4>3
      <4>4. CASE b >= a  BY <3>1, <4>1, <4>2, <4>4
      <4> QED  BY <3>1, <4>3, <4>4
    <3> QED  BY <3>2, <3>3
  <2>10. Max(S) = m
    <3> HIDE DEF S
    <3> QED  BY <2>8, <2>9, MaxOf
  <2>11. m \in Int /\ (Rotated > 0 => lines[Rotated].seq <= m)
    <3> HIDE DEF S
    <3> QED  BY Zenon, <2>6, <2>8, <2>9
  <2>12. ASSUME ~skipped PROVE m <= Len(lines)
    <3>1. manifest.latest <= Len(lines) /\ \A i \in 1 .. Len(lines) : lines[i].seq = i
      BY <2>12 DEF Stored, Numbered
    <3>2. ActiveSeq <= Len(lines)  BY <1>0, <2>4, <3>1
    <3>3. Rotated > 0 => lines[Rotated].seq <= Len(lines)  BY <1>0, <3>1
    <3>4. m \in {manifest.latest, ActiveSeq}
          \/ (Rotated > 0 /\ m \in Nat /\ m <= lines[Rotated].seq)
      BY <2>7, <2>9
    <3> QED  BY <1>0, <2>5, <3>1, <3>2, <3>3, <3>4
  <2> HIDE DEF S
  <2>13. Rebuilt = [names |-> names, latest |-> m]  BY <2>1, <2>10
  <2>14. Rebuilt \in [names : SUBSET Nat, latest : Int] /\ Rebuilt.latest = m
         /\ Rebuilt.names = names
    BY <2>2, <2>11, <2>13
  <2> QED  BY <2>11, <2>12, <2>14 DEF names
<1> QED  BY <1>1, <1>2

\* The search of a completion reaches every stored line.
LEMMA MatchesAll ==
  ASSUME LogTypes, Stored, NEW l \in Logs, op[l][1].id = "completion"
  PROVE  Matches(l) = {} => NoCompletion
<1> SUFFICES ASSUME NEW k \in 1 .. Len(lines), lines[k].ev.id = "completion"
             PROVE  lines[k] \in Matches(l)
  BY DEF NoCompletion
<1>0. Rotated \in Nat /\ Len(lines) \in Nat /\ DOMAIN segs = 1 .. Len(segs)
  BY RotatedType DEF LogTypes
<1>1. CASE k > Rotated
  <2>1. lines[k] \in ActiveLines  BY <1>0, <1>1 DEF ActiveLines
  <2> QED  BY <2>1 DEF Matches
<1>2. CASE ~(k > Rotated)
  <2>1. PICK i \in 1 .. Len(segs) : k \in segs[i].first .. segs[i].last
    BY <1>0, <1>2 DEF Stored, Segmented
  <2>3. segs # <<>>  BY <2>1
  <2>4. segs[i].ino \in Rebuilt.names
    <3>1. Rebuilt.names = {segs[j].ino : j \in DOMAIN segs}  BY <2>3, RebuiltType
    <3> QED  BY <1>0, <3>1
  <2>5. DOMAIN lines = 1 .. Len(lines)  BY DEF LogTypes
  <2>6. lines[k] \in SegmentLines(Rebuilt.names)  BY <1>0, <2>1, <2>4, <2>5 DEF SegmentLines
  <2> QED  BY <2>6 DEF Matches
<1> QED  BY <1>1, <1>2

LEMMA MatchesStored ==
  ASSUME LogTypes, Stored, NEW l \in Logs
  PROVE  Matches(l) \subseteq {lines[i] : i \in DOMAIN lines}
<1>1. Rotated \in Nat /\ Len(lines) \in Nat /\ DOMAIN lines = 1 .. Len(lines)
  BY RotatedType DEF LogTypes
<1>2. ActiveLines \subseteq {lines[i] : i \in DOMAIN lines}  BY <1>1 DEF ActiveLines
<1>3. SegmentLines(Rebuilt.names) \subseteq {lines[i] : i \in DOMAIN lines}  BY DEF SegmentLines
<1> QED  BY <1>2, <1>3 DEF Matches

\* A manifest that is not ahead of the lines changes nothing that is stored.
LEMMA SameLines ==
  ASSUME Stored, UNCHANGED <<lines, segs, active, skipped, cut>>,
         ~skipped => manifest'.latest <= Len(lines),
         acked' \subseteq {lines[i] : i \in DOMAIN lines}
  PROVE  Stored'
<1>1. Rotated' = Rotated /\ Adoptable' = Adoptable  BY DEF Rotated, Adoptable
<1>2. Segmented' /\ Ascending'  BY <1>1 DEF Stored, Segmented, Ascending
<1>3. Numbered' /\ Once'  BY Zenon, <1>1 DEF Stored, Numbered, Once, NoCompletion
<1>4. Whole' /\ ReturnedStays'  BY Zenon, <1>1 DEF Stored, Whole, ReturnedStays
<1> QED  BY <1>2, <1>3, <1>4 DEF Stored

\* The manifest is repaired; a completion that is stored is returned, or refused.
LEMMA RebuildStep ==
  ASSUME LogIInv, Nobody \notin Logs, NEW l \in Logs, Rebuild(l)
  PROVE  LogIInv'
<1>0. /\ mutex = l /\ pc[l] = "rebuild" /\ manifest' = Rebuilt
      /\ UNCHANGED <<lines, segs, active, inodes, skipped, cut>>
  BY DEF Rebuild
<1>1. /\ Rebuilt \in [names : SUBSET Nat, latest : Int]
      /\ ~skipped => Rebuilt.latest <= Len(lines)
      /\ Rotated > 0 => lines[Rotated].seq <= Rebuilt.latest
  BY RebuiltType DEF LogIInv
<1>2. acked' \subseteq {lines[i] : i \in DOMAIN lines}
  <2>1. acked \subseteq {lines[i] : i \in DOMAIN lines}  BY DEF LogIInv, Stored, ReturnedStays
  <2>2. Matches(l) \subseteq {lines[i] : i \in DOMAIN lines}  BY MatchesStored DEF LogIInv
  <2>3. acked' \subseteq acked \cup Matches(l)  BY DEF Rebuild
  <2> QED  BY <2>1, <2>2, <2>3
<1>3. Stored'  BY <1>0, <1>1, <1>2, SameLines DEF LogIInv
<1>4. CASE Release(l, "idle")
  BY Zenon, <1>0, <1>1, <1>3, <1>4, ReleaseStep DEF LogIInv, LogTypes
<1>5. CASE op[l] # <<>> /\ Matches(l) = {} /\ Goto(l, "rotate")
  <2>1. pc'[l] = "rotate" /\ mutex' = l /\ op'[l] = op[l]
    BY <1>0, <1>5 DEF Goto, LogIInv, LogTypes
  <2>2. op[l][1].id = "completion" => NoCompletion  BY <1>5, MatchesAll DEF LogIInv
  <2>3. active.tail = <<>>  BY Zenon, <1>0 DEF LogIInv, AtWork
  <2>4. Rotated' = Rotated /\ (NoCompletion => NoCompletion')  BY <1>0 DEF Rotated, NoCompletion
  <2>5. AtWork(l)'  BY Zenon, <1>0, <1>1, <1>5, <2>1, <2>2, <2>3, <2>4 DEF AtWork
  <2> QED  BY Zenon, <1>0, <1>1, <1>3, <1>5, <2>5, GotoStep DEF LogIInv, LogTypes, Places
<1> QED  BY Zenon, <1>4, <1>5 DEF Rebuild

\* The rotation of the active file.
LEMMA RenameStep ==
  ASSUME LogIInv, Nobody \notin Logs, RotateAt \in Nat, NEW l \in Logs, Rename(l)
  PROVE  LogIInv'
<1>0. /\ mutex = l /\ pc[l] = "rotate" /\ Len(lines) - Rotated > RotateAt
      /\ segs' = Append(segs, Segment) /\ active' = NoFile /\ Goto(l, "renamed")
      /\ UNCHANGED <<lines, manifest, inodes, acked, skipped, cut>>
  BY DEF Rename
<1>1. /\ Rotated \in Nat /\ Len(lines) \in Nat /\ Len(segs) \in Nat /\ segs \in Seq(Ranges)
      /\ active.tail = <<>>
  <2>1. AtWork(l) /\ LogTypes  BY DEF LogIInv
  <2>2. active.tail = <<>>  BY <1>0, <2>1 DEF AtWork
  <2>3. segs \in Seq(Ranges) /\ Len(segs) \in Nat /\ Len(lines) \in Nat  BY <2>1 DEF LogTypes
  <2> QED  BY <2>2, <2>3, RotatedType DEF LogIInv
<1>2. Segment \in Ranges /\ Segment.first = Rotated + 1 /\ Segment.last = Len(lines)
  BY <1>1 DEF Segment, Ranges, LogIInv, LogTypes
<1>3. /\ segs' \in Seq(Ranges) /\ Len(segs') = Len(segs) + 1 /\ segs' # <<>>
      /\ segs'[Len(segs) + 1] = Segment /\ \A i \in 1 .. Len(segs) : segs'[i] = segs[i]
  BY <1>0, <1>1, <1>2, AppendFacts
<1>4. Rotated' = Len(lines)  BY <1>2, <1>3 DEF Rotated
<1>5. Segmented'
  <2>0. Segmented  BY DEF LogIInv, Stored
  <2>1. ASSUME NEW i \in 1 .. Len(segs) + 1
        PROVE  /\ 1 <= segs'[i].first /\ segs'[i].first <= segs'[i].last
               /\ segs'[i].last <= Len(lines)
    <3>1. CASE i = Len(segs) + 1  BY <1>0, <1>1, <1>2, <1>3, <3>1
    <3>2. CASE i # Len(segs) + 1
      <4>1. i \in 1 .. Len(segs)  BY <1>1, <3>2
      <4>2. segs[i] \in Ranges  BY <1>1, <4>1
      <4>3. /\ 1 <= segs[i].first /\ segs[i].first <= segs[i].last /\ segs[i].last <= Rotated
            /\ Rotated <= Len(lines)
        BY <2>0, <4>1 DEF Segmented
      <4>4. segs'[i] = segs[i]  BY <1>3, <4>1
      <4>5. segs[i].first \in Nat /\ segs[i].last \in Nat  BY <4>2 DEF Ranges
      <4>6. segs[i].last <= Len(lines)  BY <1>1, <4>3, <4>5
      <4> QED  BY <4>3, <4>4, <4>6
    <3> QED  BY <3>1, <3>2
  <2>2. ASSUME NEW k \in 1 .. Len(lines)
        PROVE  \E i \in 1 .. Len(segs) + 1 : k \in segs'[i].first .. segs'[i].last
    <3>1. CASE k \in 1 .. Rotated
      <4>1. PICK i \in 1 .. Len(segs) : k \in segs[i].first .. segs[i].last
        BY <2>0, <3>1 DEF Segmented
      <4> QED  BY <1>1, <1>3, <4>1
    <3>2. CASE k \notin 1 .. Rotated
      <4>1. k \in Segment.first .. Segment.last  BY <1>1, <1>2, <3>2
      <4>2. Len(segs) + 1 \in 1 .. Len(segs) + 1  BY <1>1
      <4> QED  BY <1>3, <4>1, <4>2
    <3> QED  BY <3>1, <3>2
  <2>3. Len(lines) <= Len(lines)  BY <1>1
  <2> QED  BY <1>0, <1>3, <1>4, <2>1, <2>2, <2>3 DEF Segmented
<1>6. Stored'
  <2>1. ~Adoptable' /\ Stored  BY <1>0 DEF Adoptable, NoFile, LogIInv
  <2>2. Ascending' /\ Numbered'  BY <1>0, <2>1 DEF Stored, Ascending, Numbered
  <2>3. Once' /\ Whole'  BY <1>0, <2>1 DEF Stored, Once, Whole
  <2>4. ReturnedStays'  BY <1>0, <2>1 DEF Stored, ReturnedStays
  <2> QED  BY <1>5, <2>2, <2>3, <2>4 DEF Stored
<1>7. active' \in [ino : Nat, tail : Tails] /\ active'.tail = <<>>
  <2>1. <<>> \in Tails  BY DEF Tails
  <2> QED  BY <1>0, <2>1 DEF NoFile
<1>8. AtWork(l)'
  <2>1. pc'[l] = "renamed" /\ mutex' = l /\ op'[l] = op[l]
    BY <1>0 DEF Goto, LogIInv, LogTypes
  <2>2. NoCompletion => NoCompletion'  BY <1>0 DEF NoCompletion
  <2>3. AtWork(l)  BY DEF LogIInv
  <2> QED  BY Zenon, <1>0, <1>3, <1>7, <2>1, <2>2, <2>3 DEF AtWork
<1> QED  BY Zenon, <1>0, <1>3, <1>6, <1>7, <1>8, GotoStep DEF LogIInv, LogTypes, Places

\* The manifest names the new segment.
LEMMA PublishStep ==
  ASSUME LogIInv, Nobody \notin Logs, NEW l \in Logs, PublishSegment(l)
  PROVE  LogIInv'
<1>0. /\ mutex = l /\ pc[l] = "renamed" /\ Goto(l, "published")
      /\ UNCHANGED <<lines, segs, active, inodes, acked, skipped, cut>>
      /\ manifest' = [names |-> manifest.names \cup {segs[Len(segs)].ino},
                      latest |-> Max({manifest.latest, SegmentSeq(Len(segs))})]
  BY DEF PublishSegment
<1>1. segs # <<>> /\ AtWork(l) /\ Stored /\ LogTypes  BY Zenon, <1>0 DEF LogIInv, AtWork
<1>2. Rotated \in Nat /\ Len(segs) \in 1 .. Len(segs) /\ Rotated = segs[Len(segs)].last
      /\ Len(lines) \in Nat /\ Rotated <= Len(lines)
  <2>1. Rotated \in Nat /\ Rotated = segs[Len(segs)].last
    BY <1>1, RotatedType DEF Rotated, LogIInv
  <2>2. Len(segs) \in 1 .. Len(segs) /\ Len(lines) \in Nat  BY <1>1 DEF LogTypes
  <2>3. Rotated <= Len(lines)  BY <1>1 DEF Stored, Segmented
  <2> QED  BY <2>1, <2>2, <2>3
<1>3. segs[Len(segs)] \in Ranges  BY <1>1, <1>2 DEF LogTypes
<1>4. Rotated \in 1 .. Len(lines)  BY <1>1, <1>2, <1>3 DEF Ranges, Stored, Segmented
<1>5. SegmentSeq(Len(segs)) = lines[Rotated].seq  BY <1>2 DEF SegmentSeq
<1>6. lines[Rotated].seq \in Nat
  <2>1. lines[Rotated] \in Line  BY <1>1, <1>4 DEF LogTypes
  <2> QED  BY <2>1 DEF Line
<1> DEFINE m == IF manifest.latest >= lines[Rotated].seq THEN manifest.latest
                ELSE lines[Rotated].seq
<1>7. manifest.latest \in Int /\ manifest.names \in SUBSET Nat /\ segs[Len(segs)].ino \in Nat
  BY <1>1, <1>3 DEF LogTypes, Ranges
<1>8. Max({manifest.latest, SegmentSeq(Len(segs))}) = m
  <2>1. Max({manifest.latest, lines[Rotated].seq}) = m  BY <1>6, <1>7, MaxOfTwo
  <2> QED  BY <1>5, <2>1
<1>9. m \in Int /\ lines[Rotated].seq <= m /\ (~skipped => m <= Len(lines))
  <2>1. ~skipped => manifest.latest <= Len(lines) /\ lines[Rotated].seq = Rotated
    BY <1>1, <1>4 DEF Stored, Numbered
  <2>2. m \in Int /\ lines[Rotated].seq <= m  BY <1>6, <1>7
  <2>3. ~skipped => m <= Len(lines)  BY <1>2, <2>1
  <2> QED  BY <2>2, <2>3
<1> HIDE DEF m
<1>10. manifest' \in [names : SUBSET Nat, latest : Int] /\ manifest'.latest = m
  BY <1>0, <1>7, <1>8, <1>9
<1>11. Stored'
  BY Zenon, <1>0, <1>1, <1>9, <1>10, SameLines DEF Stored, ReturnedStays
<1>12. AtWork(l)'
  <2>1. pc'[l] = "published" /\ mutex' = l /\ op'[l] = op[l]
    BY Zenon, <1>0, <1>1 DEF Goto, LogTypes
  <2>2. Rotated' = Rotated /\ (NoCompletion => NoCompletion')  BY <1>0 DEF Rotated, NoCompletion
  <2> QED  BY Zenon, <1>0, <1>1, <1>9, <1>10, <2>1, <2>2 DEF AtWork
<1> QED  BY Zenon, <1>0, <1>1, <1>10, <1>11, <1>12, GotoStep DEF LogTypes, Places

\* The new active file, or no rotation: the write is next.
LEMMA CreateStep ==
  ASSUME LogIInv, Nobody \notin Logs, NEW l \in Logs, Create(l) \/ NoRotation(l)
  PROVE  LogIInv'
<1>0. /\ mutex = l /\ pc[l] \in {"rotate", "published"} /\ Goto(l, "write")
      /\ UNCHANGED <<lines, segs, manifest, acked, skipped, cut>>
  BY DEF Create, NoRotation
<1>1. active.tail = <<>> /\ AtWork(l) /\ Stored /\ LogTypes  BY Zenon, <1>0 DEF LogIInv, AtWork
<1>2. active' \in [ino : Nat, tail : Tails] /\ inodes' \in Nat /\ active'.tail = <<>>
  <2>1. <<>> \in Tails  BY DEF Tails
  <2>2. active \in [ino : Nat, tail : Tails] /\ inodes \in Nat  BY <1>1 DEF LogTypes
  <2>3. CASE UNCHANGED <<active, inodes>>  BY <1>1, <2>2, <2>3
  <2>4. CASE active' = [NoFile EXCEPT !.ino = inodes + 1] /\ inodes' = inodes + 1
    BY <2>1, <2>2, <2>4 DEF NoFile
  <2> QED  BY <2>3, <2>4 DEF Create, NoRotation
<1>3. Stored'  BY <1>0, <1>1, <1>2, SameFiles
<1>4. AtWork(l)'
  <2>1. pc'[l] = "write" /\ mutex' = l /\ op'[l] = op[l]  BY <1>0, <1>1 DEF Goto, LogTypes
  <2>2. Rotated' = Rotated /\ (NoCompletion => NoCompletion')  BY Zenon, <1>0 DEF Rotated, NoCompletion
  <2> QED  BY Zenon, <1>0, <1>1, <1>2, <2>1, <2>2 DEF AtWork
<1> QED  BY <1>0, <1>1, <1>2, <1>3, <1>4, GotoStep DEF LogTypes, Places

\* The lines are written.
LEMMA WriteStep ==
  ASSUME LogIInv, Nobody \notin Logs, NEW l \in Logs, Write(l)
  PROVE  LogIInv'
<1> DEFINE es == Entries(l)
           n == Len(lines)
           k == Len(op[l])
<1>0. /\ mutex = l /\ pc[l] = "write" /\ Goto(l, "written") /\ lines' = lines \o es
      /\ UNCHANGED <<segs, active, manifest, inodes, acked, skipped, cut>>
  BY DEF Write
<1>1. AtWork(l) /\ Stored /\ LogTypes /\ active.tail = <<>>  BY Zenon, <1>0 DEF LogIInv, AtWork
<1>2. /\ op[l] \in Appends /\ es \in Seq(Line) /\ Len(es) = k
      /\ \A i \in 1 .. k : es[i].ev = op[l][i]
  BY Zenon, <1>0, EntriesType
<1>3. k \in Nat /\ n \in Nat /\ k # 0  BY <1>1, <1>2, AppendsType DEF LogTypes
<1> HIDE DEF es, k
<1>4. SubSeq(es, 1, k) = es
  <2>1. \A i \in 1 .. k : es[i] \in Line  BY <1>2
  <2>2. /\ SubSeq(es, 1, k) \in Seq(Line)
        /\ Len(SubSeq(es, 1, k)) = IF 1 <= k THEN k - 1 + 1 ELSE 0
        /\ \A i \in 1 .. k - 1 + 1 : SubSeq(es, 1, k)[i] = es[1 + i - 1]
    BY <1>3, <2>1, SubSeqFacts
  <2>3. Len(SubSeq(es, 1, k)) = k /\ \A i \in 1 .. k : SubSeq(es, 1, k)[i] = es[i]
    BY <1>3, <2>2
  <2> QED  BY <1>2, <2>2, <2>3
<1>5. /\ lines' \in Seq(Line) /\ Stored' /\ Len(lines') = n + k
      /\ \A i \in 1 .. n : lines'[i] = lines[i]
      /\ \A j \in 1 .. k : lines'[n + j] = es[j]
  <2>1. k \in 0 .. Len(op[l]) /\ k = Len(op[l])  BY <1>3 DEF k
  <2>2. lines' = lines \o SubSeq(Entries(l), 1, k)  BY Zenon, <1>0, <1>4 DEF es
  <2>3. active'.tail \in {<<>>, Torn} /\ (cut => cut')  BY <1>0, <1>1
  <2>4. /\ lines' \in Seq(Line) /\ Stored' /\ Len(lines') = Len(lines) + k
        /\ \A i \in 1 .. Len(lines) : lines'[i] = lines[i]
        /\ \A j \in 1 .. k : lines'[Len(lines) + j] = Entries(l)[j]
    BY Zenon, <1>0, <2>1, <2>2, <2>3, WriteGrowth
  <2> QED  BY <2>4 DEF es
<1>6. Added(l)'
  <2>0. Len(lines') - k = n
    <3> HIDE DEF n
    <3> QED  BY <1>3, <1>5
  <2>1. op'[l] = op[l] /\ Len(lines') - Len(op[l]) = n  BY <1>0, <2>0 DEF Goto, k
  <2>2. Rotated' = Rotated /\ Rotated <= n  BY Zenon, <1>0, <1>1 DEF Rotated, Stored, Segmented
  <2>3. \A i \in 1 .. k : lines'[n + i].ev = op[l][i]
    <3> HIDE DEF n
    <3>1. \A i \in 1 .. k : lines'[n + i] = es[i]  BY <1>5
    <3> QED  BY <1>2, <3>1
  <2>4. ASSUME NEW e \in acked PROVE \E i \in 1 .. n : lines'[i] = e
    <3>1. PICK i \in DOMAIN lines : lines[i] = e  BY <1>1 DEF Stored, ReturnedStays
    <3>2. i \in 1 .. n  BY <1>1, <3>1 DEF LogTypes
    <3> QED  BY <1>5, <3>1, <3>2
  <2>5. ~skipped => manifest.latest <= n  BY <1>1 DEF Stored, Numbered
  <2> HIDE DEF n
  <2> QED  BY Zenon, <1>0, <2>1, <2>2, <2>3, <2>4, <2>5 DEF Added, k
<1>7. AtWork(l)'
  <2>1. pc'[l] = "written" /\ mutex' = l /\ op'[l] = op[l]  BY <1>0, <1>1 DEF Goto, LogTypes
  <2> QED  BY Zenon, <1>0, <1>1, <1>6, <2>1 DEF AtWork
<1> QED  BY Zenon, <1>0, <1>1, <1>5, <1>7, GotoStep DEF LogTypes, Places

\* A write that stopped somewhere.
LEMMA PartStep ==
  ASSUME LogIInv, NEW l \in Logs, pc[l] = "write", PartlyWritten(Entries(l)),
         UNCHANGED <<segs, manifest, acked, skipped>>, cut => cut', cut' \/ Len(op[l]) = 1
  PROVE  lines' \in Seq(Line) /\ active' \in [ino : Nat, tail : Tails] /\ Stored'
<1>1. op[l] \in Appends /\ Entries(l) \in Seq(Line) /\ Len(Entries(l)) = Len(op[l])
  BY EntriesType
<1> DEFINE es == Entries(l)
<1>2. PICK k \in 0 .. Len(es) :
        /\ lines' = lines \o SubSeq(es, 1, k)
        /\ \/ active' = [active EXCEPT !.tail = <<>>]
           \/ k < Len(es) /\ \E t \in {Torn, <<es[k + 1]>>} : active' = [active EXCEPT !.tail = t]
  BY Zenon DEF PartlyWritten
<1> HIDE DEF es
<1>3. PICK t : /\ active' = [active EXCEPT !.tail = t]
               /\ t \in {<<>>, Torn} \/ (k < Len(es) /\ t = <<es[k + 1]>>)
  BY Zenon, <1>2
<1>4. t \in Tails
  <2>0. <<>> \in Tails /\ Torn \in Tails  BY DEF Tails
  <2>1. CASE t \in {<<>>, Torn}  BY <2>0, <2>1
  <2>2. CASE k < Len(es) /\ t = <<es[k + 1]>>
    <3>1. es \in Seq(Line) /\ k + 1 \in 1 .. Len(es)  BY <1>1, <2>2 DEF es
    <3>2. es[k + 1] \in Line  BY <3>1
    <3>3. <<es[k + 1]>> \in Seq(Line) /\ Len(<<es[k + 1]>>) <= 1  BY <3>2
    <3> QED  BY <2>2, <3>3 DEF Tails
  <2> QED  BY <1>3, <2>1, <2>2
<1>5. active \in [ino : Nat, tail : Tails]  BY DEF LogIInv, LogTypes
<1>6. active' \in [ino : Nat, tail : Tails] /\ active'.tail = t  BY <1>3, <1>4, <1>5
<1>7. k \in 0 .. Len(op[l]) /\ lines' = lines \o SubSeq(Entries(l), 1, k)
      /\ (active'.tail \in {<<>>, Torn}
          \/ (k < Len(op[l]) /\ active'.tail = <<Entries(l)[k + 1]>>))
  BY <1>1, <1>2, <1>3, <1>6 DEF es
<1>8. lines' \in Seq(Line) /\ Stored'  BY Zenon, <1>7, WriteGrowth
<1> QED  BY <1>6, <1>8

LEMMA WriteFailsStep ==
  ASSUME LogIInv, Nobody \notin Logs, NEW l \in Logs, WriteFails(l)
  PROVE  LogIInv'
<1>0. /\ mutex = l /\ pc[l] = "write" /\ Raise(l)
      /\ UNCHANGED <<segs, manifest, inodes, acked, skipped, cut>>
  BY DEF WriteFails
<1>1. PICK p \in {"down", "idle"} : Release(l, p)  BY <1>0 DEF Raise
<1>2. lines' \in Seq(Line) /\ active' \in [ino : Nat, tail : Tails] /\ Stored'
  <2>1. CASE Len(op[l]) = 1
    <3>1. PartlyWritten(Entries(l))  BY <2>1 DEF WriteFails
    <3> QED  BY <1>0, <2>1, <3>1, PartStep
  <2>2. CASE Len(op[l]) # 1
    <3>1. UNCHANGED <<lines, active>>  BY <2>2 DEF WriteFails
    <3> QED  BY <1>0, <3>1, SameFiles DEF LogIInv, LogTypes
  <2> QED  BY <2>1, <2>2
<1> QED  BY <1>0, <1>1, <1>2, ReleaseStep DEF LogIInv, LogTypes

\* What a writer whose lines are synced relies on.
LEMMA WrittenFacts ==
  ASSUME LogIInv, NEW l \in Logs, pc[l] = "written"
  PROVE  /\ mutex = l /\ op[l] \in Appends /\ Len(op[l]) \in {1, 2} /\ Added(l)
         /\ active.tail = <<>> /\ Rotated \in Nat
         /\ Rotated <= Len(lines) - Len(op[l]) /\ Len(lines) \in 1 .. Len(lines)
         /\ ActiveSeq = lines[Len(lines)].seq /\ ActiveSeq \in Nat
<1>1. mutex = l /\ op[l] \in Appends /\ Added(l) /\ active.tail = <<>>
  BY DEF LogIInv, LogTypes, AtWork
<1>2. Len(op[l]) \in {1, 2}  BY <1>1, AppendsType
<1>3. Rotated \in Nat /\ Len(lines) \in Nat
  <2>1. LogTypes  BY Zenon DEF LogIInv
  <2>2. Rotated \in Nat  BY Zenon, <2>1, RotatedType
  <2>3. Len(lines) \in Nat  BY <2>1 DEF LogTypes
  <2> QED  BY Zenon, <2>2, <2>3
<1>4. Rotated <= Len(lines) - Len(op[l])  BY <1>1 DEF Added
<1>5. Len(lines) # Rotated /\ Len(lines) \in 1 .. Len(lines)
  <2> DEFINE n == Len(lines)
             k == Len(op[l])
  <2>1. k \in {1, 2} /\ n \in Nat /\ Rotated <= n - k  BY <1>2, <1>3, <1>4
  <2> HIDE DEF n, k
  <2>2. n # Rotated /\ n \in 1 .. n  BY <1>3, <2>1
  <2> QED  BY <2>2 DEF n
<1>6. ActiveSeq \in Nat /\ ActiveSeq = lines[Len(lines)].seq
  BY <1>5, ActiveSeqType DEF LogIInv, Stored
<1> QED  BY <1>1, <1>2, <1>3, <1>4, <1>5, <1>6

LEMMA LatestType ==
  ASSUME LogIInv, NEW l \in Logs, pc[l] = "written"
  PROVE  /\ Latest(ActiveSeq) \in [names : SUBSET Nat, latest : Int]
         /\ ~skipped => Latest(ActiveSeq).latest <= Len(lines)
<1>0. manifest \in [names : SUBSET Nat, latest : Int] /\ manifest.latest \in Int
      /\ (~skipped => manifest.latest <= Len(lines))
  BY DEF LogIInv, LogTypes, Stored, Numbered
<1>1. ActiveSeq \in Nat /\ (~skipped => ActiveSeq = Len(lines)) /\ Len(lines) \in Nat
  <2>1. ActiveSeq = lines[Len(lines)].seq /\ ActiveSeq \in Nat /\ Len(lines) \in 1 .. Len(lines)
    BY WrittenFacts
  <2> QED  BY <2>1 DEF LogIInv, LogTypes, Stored, Numbered
<1> DEFINE m == IF manifest.latest >= ActiveSeq THEN manifest.latest ELSE ActiveSeq
<1>2. Max({manifest.latest, ActiveSeq}) = m  BY <1>0, <1>1, MaxOfTwo
<1>3. m \in Int /\ (~skipped => m <= Len(lines))  BY <1>0, <1>1
<1> HIDE DEF m
<1>4. CASE manifest = NoManifest  BY <1>0, <1>4 DEF Latest
<1>5. CASE manifest # NoManifest
  <2>1. Latest(ActiveSeq) = [manifest EXCEPT !.latest = m]  BY <1>2, <1>5 DEF Latest
  <2> QED  BY <1>0, <1>3, <2>1
<1> QED  BY <1>4, <1>5

\* The entries are returned.
LEMMA CommitStep ==
  ASSUME LogIInv, Nobody \notin Logs, NEW l \in Logs, CommitAppend(l)
  PROVE  LogIInv'
<1>0. /\ mutex = l /\ pc[l] = "written" /\ manifest' = Latest(ActiveSeq) /\ Release(l, "idle")
      /\ acked' = acked \cup {lines[i] : i \in Len(lines) - Len(op[l]) + 1 .. Len(lines)}
      /\ UNCHANGED <<lines, segs, active, inodes, skipped, cut>>
  BY DEF CommitAppend
<1>1. /\ manifest' \in [names : SUBSET Nat, latest : Int]
      /\ ~skipped => manifest'.latest <= Len(lines)
  BY <1>0, LatestType
<1>2. acked' \subseteq {lines[i] : i \in DOMAIN lines}
  <2>1. /\ Len(op[l]) \in {1, 2} /\ Rotated \in Nat /\ Rotated <= Len(lines) - Len(op[l])
        /\ Len(lines) \in 1 .. Len(lines) /\ DOMAIN lines = 1 .. Len(lines)
    <3>1. lines \in Seq(Line)  BY DEF LogIInv, LogTypes
    <3> QED  BY <1>0, <3>1, WrittenFacts
  <2>2. Len(lines) - Len(op[l]) + 1 .. Len(lines) \subseteq DOMAIN lines
    <3> DEFINE n == Len(lines)
               k == Len(op[l])
    <3>1. k \in {1, 2} /\ n \in 1 .. n /\ Rotated <= n - k /\ Rotated \in Nat  BY <2>1
    <3>2. n \in Nat  BY DEF LogIInv, LogTypes
    <3> HIDE DEF n, k
    <3>3. n - k + 1 .. n \subseteq 1 .. n  BY <3>1, <3>2
    <3> QED  BY Zenon, <2>1, <3>3 DEF n, k
  <2>3. acked \subseteq {lines[i] : i \in DOMAIN lines}  BY DEF LogIInv, Stored, ReturnedStays
  <2> QED  BY Zenon, <1>0, <2>2, <2>3
<1>3. Stored'  BY Zenon, <1>0, <1>1, <1>2, SameLines DEF LogIInv
<1> QED  BY Zenon, <1>0, <1>1, <1>3, ReleaseStep DEF LogIInv, LogTypes

\* A pair is truncated away.
LEMMA Truncation ==
  ASSUME LogIInv, NEW l \in Logs, pc[l] = "written", Len(op[l]) # 1,
         lines' = SubSeq(lines, 1, Len(lines) - Len(op[l])),
         skipped' = (skipped \/ manifest' # manifest),
         UNCHANGED <<segs, active, acked, cut>>
  PROVE  lines' \in Seq(Line) /\ Stored'
<1> DEFINE n == Len(lines)
           k == n - 2
<1>0. /\ op[l] \in Appends /\ Len(op[l]) = 2 /\ Added(l) /\ active.tail = <<>> /\ Rotated \in Nat
      /\ n \in Nat /\ lines \in Seq(Line) /\ DOMAIN lines = 1 .. n
  <2>1. lines \in Seq(Line)  BY DEF LogIInv, LogTypes
  <2>2. n \in Nat /\ DOMAIN lines = 1 .. n  BY <2>1
  <2>3. /\ op[l] \in Appends /\ Len(op[l]) = 2 /\ Added(l) /\ active.tail = <<>>
        /\ Rotated \in Nat
    BY WrittenFacts
  <2> QED  BY Zenon, <2>1, <2>2, <2>3
<1>1. op[l][1] = Recap  BY <1>0, AppendsType
<1>2. /\ Rotated <= k /\ lines[k + 1].ev = Recap
      /\ \A e \in acked : \E i \in 1 .. k : lines[i] = e
      /\ ~skipped => manifest.latest <= k
  <2>1. /\ Rotated <= k /\ \A i \in 1 .. 2 : lines[k + i].ev = op[l][i]
        /\ \A e \in acked : \E i \in 1 .. k : lines[i] = e
        /\ ~skipped => manifest.latest <= k
    BY <1>0 DEF Added
  <2>2. lines[k + 1].ev = op[l][1]
    <3> HIDE DEF k
    <3> QED  BY <2>1
  <2> QED  BY <1>1, <2>1, <2>2
<1>3. Stored  BY DEF LogIInv
<1>4. k \in Nat /\ k + 2 = n /\ 1 .. k \subseteq 1 .. n
  <2> HIDE DEF n
  <2> QED  BY <1>0, <1>2
<1>5. lines' \in Seq(Line) /\ Len(lines') = k /\ DOMAIN lines' = 1 .. k
      /\ \A i \in 1 .. k : lines'[i] = lines[i]
  <2>1. \A i \in 1 .. k : lines[i] \in Line  BY <1>0, <1>4
  <2>2. lines' = SubSeq(lines, 1, k)  BY <1>0
  <2> HIDE DEF k
  <2>3. /\ SubSeq(lines, 1, k) \in Seq(Line)
        /\ Len(SubSeq(lines, 1, k)) = IF 1 <= k THEN k - 1 + 1 ELSE 0
        /\ \A i \in 1 .. k - 1 + 1 : SubSeq(lines, 1, k)[i] = lines[1 + i - 1]
    BY <1>4, <2>1, SubSeqFacts
  <2>4. k - 1 + 1 = k /\ (IF 1 <= k THEN k - 1 + 1 ELSE 0) = k /\ \A i \in 1 .. k : 1 + i - 1 = i
    BY <1>4
  <2>5. lines' \in Seq(Line) /\ Len(lines') = k  BY <2>2, <2>3, <2>4
  <2>6. \A i \in 1 .. k : lines'[i] = lines[i]  BY <2>2, <2>3, <2>4
  <2>7. DOMAIN lines' = 1 .. Len(lines')  BY <2>5
  <2> QED  BY <2>5, <2>6, <2>7
<1> HIDE DEF k
<1>6. Rotated' = Rotated /\ ~Adoptable'  BY <1>0 DEF Rotated, Adoptable
<1>7. Segmented'  BY <1>2, <1>3, <1>5, <1>6 DEF Stored, Segmented
<1>8. Ascending'  BY Zenon, <1>3, <1>4, <1>5, <1>6 DEF Stored, Ascending
<1>9. Numbered'
  <2> SUFFICES ASSUME ~skipped'
               PROVE  (\A i \in 1 .. k : lines'[i].seq = i) /\ manifest'.latest <= k
    BY Zenon, <1>5, <1>6 DEF Numbered
  <2>1. ~skipped /\ manifest' = manifest  BY Zenon
  <2>2. \A i \in 1 .. n : lines[i].seq = i  BY Zenon, <1>3, <2>1 DEF Stored, Numbered
  <2>3. \A i \in 1 .. k : lines'[i].seq = i  BY <1>4, <1>5, <2>2
  <2> QED  BY Zenon, <1>2, <2>1, <2>3
<1>10. Once'
  <2>1. \A i, j \in 1 .. n :
          lines[i].ev.id = "completion" /\ lines[j].ev.id = "completion" => i = j
    BY <1>3 DEF Stored, Once
  <2> QED  BY <1>4, <1>5, <1>6, <2>1 DEF Once
<1>11. Whole'
  <2> SUFFICES ASSUME ~cut, NEW i \in 1 .. k, lines'[i].ev = Recap
               PROVE  i < k /\ lines'[i + 1].ev = Detach
    BY <1>5, <1>6 DEF Whole
  <2>1. lines[i].ev = Recap /\ i \in 1 .. n  BY <1>4, <1>5
  <2>2. lines[i + 1].ev = Detach  BY <1>3, <2>1 DEF Stored, Whole
  <2>3. Detach # Recap  BY DEF Detach, Recap
  <2>4. i # k  BY <1>2, <2>2, <2>3
  <2>5. i < k /\ i + 1 \in 1 .. k  BY <1>4, <2>4
  <2> QED  BY <1>5, <2>2, <2>5
<1>12. ReturnedStays'
  <2> SUFFICES ASSUME NEW e \in acked PROVE \E i \in 1 .. k : lines'[i] = e
    BY Zenon, <1>5 DEF ReturnedStays
  <2>1. PICK i \in 1 .. k : lines[i] = e  BY <1>2
  <2> QED  BY <1>5, <2>1
<1> QED  BY <1>5, <1>7, <1>8, <1>9, <1>10, <1>11, <1>12 DEF Stored

\* The sequence is not published.
LEMMA CommitFailsStep ==
  ASSUME LogIInv, Nobody \notin Logs, NEW l \in Logs, CommitFails(l)
  PROVE  LogIInv'
<1>0. /\ mutex = l /\ pc[l] = "written" /\ Raise(l)
      /\ manifest' \in HalfPublished(Latest(ActiveSeq)) /\ UNCHANGED <<segs, active, inodes, acked, cut>>
  BY DEF CommitFails
<1>1. PICK p \in {"down", "idle"} : Release(l, p)  BY <1>0 DEF Raise
<1>2. /\ manifest' \in [names : SUBSET Nat, latest : Int]
      /\ ~skipped => manifest'.latest <= Len(lines)
  <2>1. CASE manifest' = manifest
    BY Zenon, <2>1 DEF LogIInv, LogTypes, Stored, Numbered
  <2>2. CASE manifest' = Latest(ActiveSeq)  BY <1>0, <2>2, LatestType
  <2> QED  BY <1>0, <2>1, <2>2 DEF HalfPublished
<1>3. lines' \in Seq(Line) /\ Stored'
  <2>1. CASE Len(op[l]) = 1
    <3>1. UNCHANGED <<lines, skipped>>  BY <2>1 DEF CommitFails
    <3>2. lines \in Seq(Line) /\ acked \subseteq {lines[i] : i \in DOMAIN lines}
      BY DEF LogIInv, LogTypes, Stored, ReturnedStays
    <3> QED  BY <1>0, <1>2, <3>1, <3>2, SameLines DEF LogIInv
  <2>2. CASE Len(op[l]) # 1
    <3>1. /\ lines' = SubSeq(lines, 1, Len(lines) - Len(op[l]))
          /\ skipped' = (skipped \/ manifest' # manifest)
      BY <2>2 DEF CommitFails
    <3> QED  BY <1>0, <2>2, <3>1, Truncation
  <2> QED  BY <2>1, <2>2
<1> QED  BY <1>0, <1>1, <1>2, <1>3, ReleaseStep DEF LogIInv, LogTypes

\* A process is lost, anywhere in its operation.
LEMMA CrashStep ==
  ASSUME LogIInv, Nobody \notin Logs, NEW l \in Logs, LogCrash(l)
  PROVE  LogIInv'
<1>0. /\ UNCHANGED <<segs, manifest, inodes, acked, skipped>>
      /\ cut' = (cut \/ (pc[l] = "write" /\ Len(op[l]) = 2))
  BY DEF LogCrash
<1>1. CASE pc[l] = "write"
  <2>1. mutex = l /\ PartlyWritten(Entries(l)) /\ Release(l, "down")
    BY Zenon, <1>1 DEF LogCrash, LogIInv, AtWork
  <2>2. Len(op[l]) \in {1, 2}  BY Zenon, <1>1, EntriesType, AppendsType
  <2>3. cut' \/ Len(op[l]) = 1  BY Zenon, <1>0, <1>1, <2>2
  <2>4. lines' \in Seq(Line) /\ active' \in [ino : Nat, tail : Tails] /\ Stored'
    BY Zenon, <1>0, <1>1, <2>1, <2>3, PartStep
  <2> QED  BY <1>0, <2>1, <2>4, ReleaseStep DEF LogIInv, LogTypes
<1>2. CASE pc[l] # "write" /\ mutex = l
  <2>1. UNCHANGED <<lines, active>> /\ Release(l, "down")  BY <1>2 DEF LogCrash
  <2>2. Stored'  BY Zenon, <1>0, <2>1, SameFiles DEF LogIInv
  <2> QED  BY <1>0, <1>2, <2>1, <2>2, ReleaseStep DEF LogIInv, LogTypes
<1>3. CASE pc[l] # "write" /\ mutex # l
  <2>1. UNCHANGED <<lines, active, mutex, op>> /\ pc' = [pc EXCEPT ![l] = "down"]
    BY <1>3 DEF LogCrash
  <2> QED  BY Zenon, <1>0, <2>1, BesideStep DEF LogIInv, LogTypes, Away
<1> QED  BY <1>1, <1>2, <1>3

\* Every step keeps the inductive invariant.
LEMMA LogSteps ==
  ASSUME Nobody \notin Logs, RotateAt \in Nat, LogIInv, [LogNext]_logVars
  PROVE  LogIInv'
<1>1. CASE UNCHANGED logVars
  <2>1. Stored'  BY Zenon, <1>1, SameFiles DEF logVars, LogIInv
  <2>2. LogTypes'  BY <1>1 DEF logVars, LogIInv, LogTypes
  <2>3. ASSUME NEW l \in Logs PROVE AtWork(l)'
    <3>1. Rotated' = Rotated /\ (NoCompletion => NoCompletion')
      BY Zenon, <1>1 DEF logVars, Rotated, NoCompletion
    <3>2. Added(l) => Added(l)'  BY Zenon, <1>1, <3>1 DEF logVars, Added
    <3> QED  BY Zenon, <1>1, <3>1, <3>2 DEF logVars, LogIInv, AtWork
  <2> QED  BY <2>1, <2>2, <2>3 DEF LogIInv
<1>2. ASSUME NEW l \in Logs, Step(l) PROVE LogIInv'
  <2>1. CASE Construct(l) \/ Lock(l)  BY <2>1, ConstructStep, LockStep
  <2>2. CASE Settle(l) \/ Rebuild(l)  BY <2>2, SettleStep, RebuildStep
  <2>3. CASE Rename(l) \/ PublishSegment(l)  BY <2>3, RenameStep, PublishStep
  <2>4. CASE Create(l) \/ NoRotation(l)  BY <2>4, CreateStep
  <2>5. CASE RotationFails(l)  BY <2>5, RaiseStep DEF RotationFails
  <2>6. CASE Write(l) \/ WriteFails(l)  BY <2>6, WriteStep, WriteFailsStep
  <2>7. CASE CommitAppend(l) \/ CommitFails(l)  BY <2>7, CommitStep, CommitFailsStep
  <2>8. CASE LogCrash(l)  BY <2>8, CrashStep
  <2> QED  BY <1>2, <2>1, <2>2, <2>3, <2>4, <2>5, <2>6, <2>7, <2>8 DEF Step
<1> QED  BY <1>1, <1>2 DEF LogNext

LEMMA LogInvariance == LogSpec => []LogIInv
<1>1. LogIInv /\ [LogNext]_logVars => LogIInv'  BY LogSteps, LogConstants
<1> QED  BY <1>1, LogStarts, PTL DEF LogSpec

\* The stored entries are numbered without a gap, for any number of objects and of
\* entries, over rotations, crashes and failed writes, until a pair is rolled back after
\* its sequences were published (append_sync, append_terminal_pair_sync,
\* _repair_manifest_locked).
THEOREM EntriesAreNumbered == LogSpec => []NumberedInOrder
<1>1. LogIInv => NumberedInOrder  BY DEF LogIInv, LogTypes, Stored, Numbered, NumberedInOrder
<1> QED  BY <1>1, LogInvariance, PTL

\* An entry append has returned stays in the log: the recovery of a torn tail, a
\* rotation cut short and the rollback of a pair leave it (append_sync,
\* _recover_torn_active_tail_locked, append_terminal_pair_sync).
THEOREM ReturnedEntriesStay == LogSpec => []ReturnedStays
<1>1. LogIInv => ReturnedStays  BY DEF LogIInv, Stored
<1> QED  BY <1>1, LogInvariance, PTL

\* A completion is stored once, however often its append is retried: the search for it
\* reaches every segment, published in the manifest or not (append_sync,
\* _repair_manifest_locked).
THEOREM CompletionsAreStoredOnce == LogSpec => []CompletionOnce
<1>1. LogIInv => CompletionOnce  BY DEF LogIInv, LogTypes, Stored, Once, CompletionOnce
<1> QED  BY <1>1, LogInvariance, PTL

\* Unless a crash fell inside its write, a terminal pair is stored whole or not at all
\* (append_terminal_pair_sync).
THEOREM PairsAreStoredWhole == LogSpec => []PairIsWhole
<1>1. LogIInv => PairIsWhole
  <2> SUFFICES ASSUME LogIInv PROVE PairIsWhole  OBVIOUS
  <2>1. Whole /\ DOMAIN lines = 1 .. Len(lines)  BY DEF LogIInv, LogTypes, Stored
  <2> QED  BY <2>1 DEF Whole, PairIsWhole
<1> QED  BY <1>1, LogInvariance, PTL

-----------------------------------------------------------------------------
(* The call that waits for its approval *)

Calls == [at : {"publishing", "waiting", "woken", "executes", "refused", "cancelled"},
          got : Payloads]

\* The first decision stays, and whoever resolved made it.
Decided ==
  /\ state \in {"pending_user", "approved", "denied"}
  /\ resolvers \subseteq {decider} \cap (Voters \cup Cancels)
  /\ state = "pending_user" => decider = None
  /\ state = "approved" => decider \in Voters

\* What the queue holds and the call got says no more than the store.
Released ==
  /\ queue \in Seq(Payloads) /\ waiter \in Calls
  /\ \A i \in 1..Len(queue) : queue[i].approved => state = "approved"
  /\ waiter.got.approved => state = "approved"
  /\ waiter.at = "executes" => state = "approved"

Inv == Decided /\ Released /\ NoGrantPastFence

\* The decision requests keep their types.
Requests == [at : {"idle", "lock", "read", "vote", "voted", "resolved", "granted", "done"},
             live : BOOLEAN, approve : BOOLEAN, allow : BOOLEAN,
             seen : {"pending_user", "approved", "denied"}]
Handlers == listed \in BOOLEAN /\ voter \in [Voters -> Requests]

IInv == Inv /\ Handlers

-----------------------------------------------------------------------------
LEMMA Initially == ASSUME Init PROVE IInv
<1>1. NoPayload \in Payloads /\ ~NoPayload.approved
  BY DEF NoPayload, Payloads
<1>2. Decided
  BY Zenon DEF Init, Decided
<1>3. Released
  <2>1. /\ state = "pending_user" /\ queue = <<>>
        /\ waiter = [at |-> "publishing", got |-> NoPayload]
    BY Zenon DEF Init
  <2>2. waiter \in Calls /\ waiter.got = NoPayload
    BY <1>1, <2>1 DEF Calls
  <2>3. queue \in Seq(Payloads) /\ 1 .. Len(queue) = {}
    BY <2>1
  <2> QED
    BY Zenon, <1>1, <2>1, <2>2, <2>3 DEF Released
<1>4. NoGrantPastFence
  BY Zenon DEF Init, NoGrantPastFence
<1>5. Handlers
  BY Zenon DEF Init, Handlers, Requests
<1> QED BY <1>2, <1>3, <1>4, <1>5 DEF IInv, Inv

\* A step that neither decides nor resolves keeps the decision.
LEMMA DecidedStays == ASSUME Decided, UNCHANGED <<state, decider, resolvers>> PROVE Decided'
BY DEF Decided

\* A step that keeps the queue and the call where they are, or cancels the call.
LEMMA ReleasedStays ==
  ASSUME Released, Decided, state' = state \/ state = "pending_user", UNCHANGED queue,
         waiter' = waiter \/ waiter' = [waiter EXCEPT !.at = "cancelled"]
                          \/ waiter' = [waiter EXCEPT !.at = "waiting"]
  PROVE  Released'
<1>0. waiter \in Calls
  BY DEF Released
<1>1. waiter'.got = waiter.got /\ waiter' \in Calls
  BY <1>0 DEF Calls
<1>2. waiter'.at = "executes" => waiter.at = "executes"
  BY <1>0 DEF Calls
<1>3. state = "approved" => state' = "approved"
  OBVIOUS
<1> QED BY <1>1, <1>2, <1>3 DEF Released

-----------------------------------------------------------------------------
(* The waiting call *)

LEMMA WaiterKeeps == ASSUME Inv, Waiter \/ TurnCancelled PROVE Inv'
<1> USE DEF Inv
<1>1. Decided' /\ NoGrantPastFence'
  BY DecidedStays DEF Waiter, Register, GetPayload, ReadBack, TurnCancelled, durable, NoGrantPastFence
<1>2. CASE Register \/ TurnCancelled
  BY <1>1, <1>2, ReleasedStays DEF Register, TurnCancelled, CancelTask, durable
<1>3. CASE GetPayload
  <2>1. queue \in Seq(Payloads) /\ queue # <<>>
    BY <1>3 DEF GetPayload, Released
  <2>2. Head(queue) = queue[1] /\ 1 \in 1..Len(queue) /\ Head(queue) \in Payloads
    BY <2>1
  <2>3. waiter'.got = queue[1] /\ waiter'.at = "woken" /\ waiter' \in Calls
    BY <1>3, <2>2 DEF GetPayload, Calls
  <2>4. queue' = <<>> /\ state' = state
    BY <1>3 DEF GetPayload, durable
  <2>5. queue' \in Seq(Payloads) /\ 1 .. Len(queue') = {}
    BY <2>4
  <2>6. waiter'.got.approved => state' = "approved"
    BY Zenon, <1>1, <2>2, <2>3, <2>4 DEF Released
  <2> QED BY Zenon, <1>1, <2>3, <2>5, <2>6 DEF Released
<1>4. CASE ReadBack
  <2>1. /\ waiter'.got = waiter.got /\ waiter' \in Calls
        /\ waiter'.at = "executes" => state = "approved"
        /\ UNCHANGED <<queue, state>>
    BY <1>4 DEF ReadBack, Released, durable, live, Calls
  <2> QED BY <1>1, <2>1 DEF Released
<1> QED BY <1>2, <1>3, <1>4 DEF Waiter

-----------------------------------------------------------------------------
(* Decisions *)

\* Routing, locking, reading and resolving leave the store's rows, the queue and
\* the call alone.
LEMMA HandlingKeeps ==
  ASSUME Inv, NEW v \in Voters,
         \/ \E approve, allow \in BOOLEAN : Route(v, approve, allow)
         \/ LockVote(v) \/ ReadRequest(v) \/ Resolve(v) \/ HookFails(v)
  PROVE  Inv'
<1>1. UNCHANGED <<state, decider, grant, fence, queue, waiter>>
  BY Zenon DEF Route, LockVote, ReadRequest, Resolve, HookFails, durable, live
<1>2. resolvers' = resolvers \/ (decider = v /\ resolvers' = resolvers \cup {v})
  BY Zenon DEF Route, LockVote, ReadRequest, Resolve, HookFails
<1>3. Decided'
  BY <1>1, <1>2 DEF Inv, Decided
<1>4. Released' /\ NoGrantPastFence'
  BY <1>1, ReleasedStays DEF Inv, NoGrantPastFence
<1> QED BY <1>3, <1>4 DEF Inv

LEMMA RecordVoteKeeps == ASSUME Inv, NEW v \in Voters, RecordVote(v) PROVE Inv'
<1>1. UNCHANGED <<grant, fence, queue, waiter, resolvers>>
  BY DEF RecordVote, live
<1>2. \/ UNCHANGED <<state, decider>>
      \/ /\ state = "pending_user" /\ state' \in {"approved", "denied"} /\ decider' = v
         /\ resolvers = {}
  BY ActorsDiffer DEF RecordVote, Inv, Decided
<1>3. Decided'
  BY <1>1, <1>2 DEF Inv, Decided
<1>4. Released' /\ NoGrantPastFence'
  BY <1>1, <1>2, ReleasedStays DEF Inv, NoGrantPastFence
<1> QED BY <1>3, <1>4 DEF Inv

LEMMA CreateGrantKeeps == ASSUME Inv, NEW v \in Voters, CreateGrant(v) PROVE Inv'
<1>1. UNCHANGED <<state, decider, resolvers, fence, queue, waiter>>
  BY DEF CreateGrant, live
<1>2. NoGrantPastFence'
  BY DEF CreateGrant, Inv, NoGrantPastFence
<1> QED BY <1>1, <1>2, DecidedStays, ReleasedStays DEF Inv

LEMMA ReleaseKeeps == ASSUME Inv, Handlers, NEW v \in Voters, ReleaseVoted(v) PROVE Inv'
<1>1. UNCHANGED <<state, decider, resolvers, fence, waiter>>
  BY DEF ReleaseVoted
<1>2. NoGrantPastFence'
  BY DEF ReleaseVoted, Put, Inv, NoGrantPastFence
<1>3. Decided'
  BY <1>1, DecidedStays DEF Inv
<1> DEFINE p == [approved |-> state = "approved", allow |-> voter[v].allow]
<1>4. queue' = queue \/ queue' = Append(queue, p)
  BY DEF ReleaseVoted, Put
<1>5. CASE queue' = queue
  BY <1>1, <1>2, <1>3, <1>5, ReleasedStays DEF Inv
<1>6. CASE queue' = Append(queue, p)
  <2>1. p.approved => state = "approved"
    OBVIOUS
  <2>2. p \in Payloads
    <3>1. voter[v].allow \in BOOLEAN
      BY DEF Handlers, Requests
    <3> QED BY <3>1, Zenon DEF Payloads
  <2> HIDE DEF p
  <2>3. queue \in Seq(Payloads) /\ \A i \in 1..Len(queue) : queue[i].approved => state = "approved"
    BY DEF Inv, Released
  <2>4. /\ queue' \in Seq(Payloads) /\ Len(queue') = Len(queue) + 1
        /\ \A i \in 1..Len(queue') : queue'[i] = IF i <= Len(queue) THEN queue[i] ELSE p
    BY <1>6, <2>2, <2>3
  <2>5. \A i \in 1..Len(queue') : queue'[i].approved => state' = "approved"
    BY <1>1, <2>1, <2>3, <2>4
  <2> QED BY <1>1, <1>2, <1>3, <2>4, <2>5 DEF Inv, Released
<1> QED BY <1>4, <1>5, <1>6

-----------------------------------------------------------------------------
(* Deletions *)

\* The steps that neither decide nor release.
LEMMA PreparingKeeps ==
  ASSUME Inv, NEW c \in Cancels,
         \/ Snapshot(c) \/ RequestCancel(c) \/ FenceGrants(c) \/ LockCancel(c)
         \/ ResolveCancel(c) \/ CancelFails(c) \/ EndTurn(c)
  PROVE  Inv'
<1>1. /\ UNCHANGED <<state, decider, queue>>
      /\ waiter' = waiter \/ waiter' = [waiter EXCEPT !.at = "cancelled"]
  BY DEF Snapshot, RequestCancel, FenceGrants, LockCancel, ResolveCancel, CancelFails, EndTurn,
         CancelTask, durable, live
<1>2. resolvers' = resolvers \/ (decider = c /\ resolvers' = resolvers \cup {c})
  BY DEF Snapshot, RequestCancel, FenceGrants, LockCancel, ResolveCancel, CancelFails, EndTurn
<1>3. Decided'
  BY <1>1, <1>2 DEF Inv, Decided
<1>4. NoGrantPastFence'
  BY Zenon DEF Snapshot, RequestCancel, FenceGrants, LockCancel, ResolveCancel, CancelFails, EndTurn,
         Revoked, durable, Inv, NoGrantPastFence
<1> QED BY <1>1, <1>3, <1>4, ReleasedStays DEF Inv

LEMMA TerminalizeKeeps == ASSUME Inv, NEW c \in Cancels, Terminalize(c) PROVE Inv'
<1>1. UNCHANGED <<grant, fence, queue, waiter, resolvers>>
  BY DEF Terminalize, live
<1>2. \/ UNCHANGED <<state, decider>>
      \/ /\ state = "pending_user" /\ state' = "denied" /\ decider' = c /\ resolvers = {}
  BY ActorsDiffer DEF Terminalize, Inv, Decided
<1>3. Decided'
  BY <1>1, <1>2 DEF Inv, Decided
<1>4. Released' /\ NoGrantPastFence'
  BY <1>1, <1>2, ReleasedStays DEF Inv, NoGrantPastFence
<1> QED BY <1>3, <1>4 DEF Inv

LEMMA ReleaseCancelledKeeps == ASSUME Inv, NEW c \in Cancels, ReleaseCancelled(c) PROVE Inv'
<1>1. UNCHANGED <<state, decider, resolvers, fence, waiter>>
  BY DEF ReleaseCancelled
<1>2. NoGrantPastFence' /\ Decided'
  BY <1>1, DecidedStays DEF ReleaseCancelled, Revoked, Inv, NoGrantPastFence
<1>3. Denial \in Payloads /\ ~Denial.approved
  BY DEF Denial, NoPayload, Payloads
<1>4. queue' = queue \/ queue' = <<Denial>>
  BY DEF ReleaseCancelled
<1>5. Released'
  <2>1. CASE queue' = queue
    BY <1>1, <2>1, ReleasedStays DEF Inv
  <2>2. CASE queue' = <<Denial>>
    BY <1>1, <1>3, <2>2 DEF Inv, Released
  <2> QED BY <1>4, <2>1, <2>2
<1> QED BY <1>2, <1>5 DEF Inv

-----------------------------------------------------------------------------
\* Every step keeps the types of the requests.
LEMMA HandlersKeep == ASSUME Decided, Handlers, [Next]_vars PROVE Handlers'
<1>1. ASSUME NEW v \in Voters, NEW at \in {"read", "vote", "voted", "resolved", "granted", "done"},
             Go(v, at)
      PROVE  voter' \in [Voters -> Requests]
  BY <1>1 DEF Go, Handlers, Requests
<1>2. ASSUME NEW v \in Voters, NEW approve \in BOOLEAN, NEW allow \in BOOLEAN, Route(v, approve, allow)
      PROVE  voter' \in [Voters -> Requests]
  <2> DEFINE r == [at |-> IF listed THEN "lock" ELSE "read", live |-> listed, approve |-> approve,
                   allow |-> allow, seen |-> state]
  <2>1. r \in Requests
    BY DEF Requests, Handlers, Decided
  <2> HIDE DEF r
  <2>2. voter' = [voter EXCEPT ![v] = r]
    BY <1>2 DEF Route, r
  <2> QED BY <2>1, <2>2 DEF Handlers
<1>3. ASSUME NEW v \in Voters, VoterStep(v) \/ HookFails(v)
      PROVE  voter' \in [Voters -> Requests]
  <2>1. \E at \in {"read", "vote", "voted", "resolved", "granted", "done"} : Go(v, at)
    BY <1>3 DEF VoterStep, LockVote, ReadRequest, RecordVote, Resolve, CreateGrant, ReleaseVoted, Put, HookFails
  <2> QED BY <1>1, <2>1
<1>4. CASE Waiter \/ TurnCancelled \/ UNCHANGED vars
  BY Zenon, <1>4 DEF Waiter, Register, GetPayload, ReadBack, TurnCancelled, CancelTask, live, vars, Handlers
<1>5. ASSUME NEW c \in Cancels, Snapshot(c) \/ CancelStep(c) \/ CancelFails(c) PROVE Handlers'
  BY Zenon, <1>5 DEF CancelStep, Snapshot, RequestCancel, FenceGrants, LockCancel, Terminalize, ResolveCancel,
     ReleaseCancelled, EndTurn, CancelFails, CancelTask, live, Handlers
<1>6. ASSUME NEW v \in Voters,
             \/ \E approve, allow \in BOOLEAN : Route(v, approve, allow)
             \/ VoterStep(v) \/ HookFails(v)
      PROVE  listed' = listed
  BY Zenon, <1>6 DEF Route, VoterStep, LockVote, ReadRequest, RecordVote, Resolve, CreateGrant, ReleaseVoted, HookFails, live
<1> QED BY <1>2, <1>3, <1>4, <1>5, <1>6 DEF Next, Handlers

LEMMA Steps == ASSUME IInv, [Next]_vars PROVE IInv'
<1>a. Inv /\ Handlers
  BY DEF IInv
<1>b. Handlers'
  BY HandlersKeep DEF IInv, Inv
<1> SUFFICES Inv'
  BY <1>b DEF IInv
<1>1. CASE UNCHANGED vars
  BY <1>a, <1>1 DEF Inv, Decided, Released, NoGrantPastFence, vars
<1>2. CASE Waiter \/ TurnCancelled
  BY <1>a, <1>2, WaiterKeeps
<1>3. ASSUME NEW v \in Voters,
             \/ \E approve, allow \in BOOLEAN : Route(v, approve, allow)
             \/ VoterStep(v) \/ HookFails(v)
      PROVE  Inv'
  BY <1>a, <1>3, HandlingKeeps, RecordVoteKeeps, CreateGrantKeeps, ReleaseKeeps DEF VoterStep
<1>4. ASSUME NEW c \in Cancels, Snapshot(c) \/ CancelStep(c) \/ CancelFails(c) PROVE Inv'
  BY <1>a, <1>4, PreparingKeeps, TerminalizeKeeps, ReleaseCancelledKeeps DEF CancelStep
<1> QED BY <1>1, <1>2, <1>3, <1>4 DEF Next

LEMMA Invariance == Spec => []IInv
BY Initially, Steps, PTL DEF Spec

\* From the fence of a cancellation on, no grant of the approval is active, whatever
\* number of votes is still in flight (fence_persistent_grants_for_cancellation).
THEOREM FencedGrantsAreDead == Spec => []NoGrantPastFence
<1>1. IInv => NoGrantPastFence
  BY DEF IInv, Inv
<1> QED BY <1>1, Invariance, PTL

\* policy.on_resolve runs for the request whose transaction decided and for no other.
THEOREM OnlyTheDeciderResolves == Spec => []ResolvedByDecider
<1>1. IInv => ResolvedByDecider
  BY DEF IInv, Inv, Decided, ResolvedByDecider
<1> QED BY <1>1, Invariance, PTL

\* A call is released with no more than the durable decision, and executes only on a
\* durable approval by a vote.
THEOREM ReleasesAreDecided == Spec => []ReleasedAsDecided
<1>1. IInv => ReleasedAsDecided
  BY DEF IInv, Inv, Decided, Released, ReleasedAsDecided
<1> QED BY <1>1, Invariance, PTL
=============================================================================
