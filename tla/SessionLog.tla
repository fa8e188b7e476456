----------------------------- MODULE SessionLog -----------------------------
(***************************************************************************)
(* The durable session log of one (user, agent) pair: an active JSONL file *)
(* that appends grow, numbered segments it is rotated into, and a manifest *)
(* naming the segments and the latest sequence.  Several AgentSessionLog   *)
(* objects, in one process or in several, share the files.  Appends, the   *)
(* terminal pair and repair run under the append mutex (an flock, which a  *)
(* crash releases); construction creates the active file outside of it.    *)
(*                                                                         *)
(* A crash may fall between any two file operations and inside a write,    *)
(* and a write or a metadata publication may fail.  Bytes written survive  *)
(* a crash of the process (not modelled: loss of power).  Segment and      *)
(* active sidecars carry no fact that repair cannot rebuild from a segment *)
(* file, and are left out; so is the generation in a segment's name.       *)
(***************************************************************************)
EXTENDS Integers, Sequences, FiniteSetsExt

CONSTANTS
  Logs,          \* AgentSessionLog objects
  Nobody,        \* no object: the append mutex is free
  RotateAt,      \* AGENT_SESSION_LOG_MAX_ACTIVE_BYTES, counted in lines
  MaxSeq,        \* bound: entries written
  MaxLogFaults   \* bound: crashes and failed operations

ASSUME LogConstants == Nobody \notin Logs /\ RotateAt \in Nat

VARIABLES
  lines,     \* the whole lines of the segments and of the active file, in this order
  segs,      \* the segment files, in the order of their names: which lines each has
  active,    \* the active file, which has the other lines, or NoFile
  manifest,  \* manifest.json, or NoManifest
  mutex,     \* the object that holds the append mutex
  pc, op,    \* an object's place in its operation, and the events it appends
  bound,     \* the inode an object takes the active file to be
  inodes,    \* inodes given out
  acked,     \* the entries returned to a caller of append
  skipped,   \* a failed pair was rolled back after its sequences were published
  cut,       \* a crash fell inside the write of a pair
  logFaults

logVars == <<lines, segs, active, manifest, mutex, pc, op, bound, inodes, acked,
             skipped, cut, logFaults>>

Note       == [id |-> "note", body |-> "a"]
Recap      == [id |-> "recap", body |-> "a"]
Detach     == [id |-> "detach", body |-> "a"]
Completion == [id : {"completion"}, body : {"a", "b"}]

NoFile     == [ino |-> 0, tail |-> <<>>]
NoManifest == [names |-> {}, latest |-> -1]
\* The bytes after the last newline: none, a line short of its newline, or torn.
Torn       == <<[seq |-> 0, ev |-> Note]>>

TypeOK ==
  /\ \A i \in DOMAIN segs : segs[i].ino \in 1..inodes /\ segs[i].last \in DOMAIN lines
  /\ active.ino \in 0..inodes
  /\ mutex \in Logs \cup {Nobody}
  /\ bound \in [Logs -> 0..inodes]
  /\ logFaults \in 0..MaxLogFaults

LogInit ==
  /\ lines = <<>> /\ segs = <<>> /\ active = NoFile /\ manifest = NoManifest
  /\ mutex = Nobody
  /\ pc = [l \in Logs |-> "down"] /\ op = [l \in Logs |-> <<>>]
  /\ bound = [l \in Logs |-> 0] /\ inodes = 0
  /\ acked = {} /\ skipped = FALSE /\ cut = FALSE /\ logFaults = 0

-----------------------------------------------------------------------------
\* What the files hold.

\* How many lines are rotated away, the lines of the segment files in names, and those
\* of the active file.
Rotated == IF segs = <<>> THEN 0 ELSE segs[Len(segs)].last
SegmentLines(names) ==
  {lines[k] : k \in {j \in DOMAIN lines :
     \E i \in DOMAIN segs : segs[i].ino \in names /\ j \in segs[i].first .. segs[i].last}}
ActiveLines == {lines[k] : k \in Rotated + 1 .. Len(lines)}

\* The last sequence of segment i, which is never empty, and of the active file.
SegmentSeq(i) == lines[segs[i].last].seq
ActiveSeq == IF Len(lines) = Rotated THEN 0 ELSE lines[Len(lines)].seq

\* Mutant of NextSeq: numbers from the active file alone.
NextSeqOfActive == ActiveSeq + 1

\* The manifest and the last line of the active file, whichever is later.
NextSeq == Max({manifest.latest, ActiveSeq, 0}) + 1

\* The inode l knows as the active file is now a segment the manifest names.
SafelyRotated(l) == bound[l] \in manifest.names

\* The active file can be opened by l: it exists, and it is the inode l knows
\* or one that took its place in a rotation.
Opens(l) == /\ active # NoFile
            /\ bound[l] \in {0, active.ino} \/ SafelyRotated(l)

Rebind(l) == bound' = [bound EXCEPT ![l] = active'.ino]

\* Mutant of Rebuilt: keeps the manifest that is there.
RebuiltWhenMissing ==
  IF manifest # NoManifest THEN manifest
  ELSE IF segs = <<>> THEN NoManifest
  ELSE [names |-> {segs[i].ino : i \in DOMAIN segs},
        latest |-> Max({SegmentSeq(i) : i \in DOMAIN segs} \cup {manifest.latest, ActiveSeq})]

\* The manifest, with every segment file in it and the latest sequence of all.
Rebuilt ==
  IF manifest = NoManifest /\ segs = <<>> THEN NoManifest
  ELSE [names |-> {segs[i].ino : i \in DOMAIN segs},
        latest |-> Max({SegmentSeq(i) : i \in DOMAIN segs} \cup {manifest.latest, ActiveSeq})]

-----------------------------------------------------------------------------
Release(l, p) == /\ mutex' = Nobody
                 /\ pc' = [pc EXCEPT ![l] = p]
                 /\ op' = [op EXCEPT ![l] = <<>>]
Goto(l, p) == pc' = [pc EXCEPT ![l] = p] /\ UNCHANGED <<mutex, op>>
\* An exception leaves the operation; from a constructor there is no object.
Raise(l) == Release(l, IF op[l] = <<>> THEN "down" ELSE "idle")
Fault == logFaults < MaxLogFaults /\ logFaults' = logFaults + 1

\* The constructor makes or binds the active file before it takes the mutex.
Construct(l) ==
  /\ pc[l] = "down"
  /\ IF active = NoFile
       THEN /\ active' = [NoFile EXCEPT !.ino = inodes + 1]
            /\ inodes' = inodes + 1
       ELSE UNCHANGED <<active, inodes>>
  /\ Rebind(l)
  /\ pc' = [pc EXCEPT ![l] = "opening"]
  /\ UNCHANGED <<lines, segs, manifest, mutex, op, acked, skipped, cut, logFaults>>

\* An operation takes the mutex: a constructor's repair, an append of a note
\* or of a completion, or the terminal pair.
Lock(l) ==
  /\ mutex = Nobody
  /\ \/ pc[l] = "opening" /\ UNCHANGED op
     \/ /\ pc[l] = "idle"
        /\ \E e \in {<<Note>>, <<Recap, Detach>>} \cup {<<c>> : c \in Completion} :
             /\ NextSeq + Len(e) <= MaxSeq + 1
             /\ op' = [op EXCEPT ![l] = e]
  /\ mutex' = l
  /\ pc' = [pc EXCEPT ![l] = "settle"]
  /\ UNCHANGED <<lines, segs, active, manifest, bound, inodes, acked, skipped, cut, logFaults>>

\* Mutant of Settled: truncates to the start of the last whole line.
SettledShort ==
  IF active.tail = <<>> \/ Len(lines) = Rotated THEN lines ELSE SubSeq(lines, 1, Len(lines) - 1)

\* A whole line short of its newline is adopted, a torn one is cut off.
Settled == IF active.tail \in {<<>>, Torn} THEN lines ELSE lines \o active.tail

\* _recover_torn_active_tail_locked.
Settle(l) ==
  /\ mutex = l /\ pc[l] = "settle"
  /\ IF Opens(l)
       THEN /\ lines' = Settled /\ active' = [active EXCEPT !.tail = <<>>]
            /\ Rebind(l)
            /\ Goto(l, "rebuild")
       ELSE /\ Raise(l)
            /\ UNCHANGED <<lines, active, bound>>
  /\ UNCHANGED <<segs, manifest, inodes, acked, skipped, cut, logFaults>>

\* The completions stored in the active file and in the segments the manifest
\* names, when a completion is being appended (they share one event id).
Matches(l) ==
  {e \in SegmentLines(Rebuilt.names) \cup ActiveLines :
     e.ev.id = "completion" /\ op[l][1].id = "completion"}

\* _repair_manifest_locked publishes the rebuilt manifest; then a completion
\* that is stored already is returned, or refused when its body differs.
Rebuild(l) ==
  /\ mutex = l /\ pc[l] = "rebuild"
  /\ manifest' = Rebuilt
  /\ IF op[l] = <<>> THEN Release(l, "idle") /\ UNCHANGED acked
     ELSE IF Matches(l) # {} THEN
       /\ Release(l, "idle")
       /\ acked' = acked \cup {e \in Matches(l) : e.ev = op[l][1]}
     ELSE Goto(l, "rotate") /\ UNCHANGED acked
  /\ UNCHANGED <<lines, segs, active, bound, inodes, skipped, cut, logFaults>>

\* The segment the active file becomes: its name has the first and last sequence.
Segment == [ino |-> active.ino, first |-> Rotated + 1, last |-> Len(lines)]

\* rotate_active_if_needed_locked: an active file over the limit becomes a segment.
Rename(l) ==
  /\ mutex = l /\ pc[l] = "rotate" /\ Len(lines) - Rotated > RotateAt
  /\ segs' = Append(segs, Segment)
  /\ active' = NoFile
  /\ Goto(l, "renamed")
  /\ UNCHANGED <<lines, manifest, bound, inodes, acked, skipped, cut, logFaults>>

\* The manifest names the new segment.
PublishSegment(l) ==
  /\ mutex = l /\ pc[l] = "renamed"
  /\ manifest' = [names |-> manifest.names \cup {segs[Len(segs)].ino},
                  latest |-> Max({manifest.latest, SegmentSeq(Len(segs))})]
  /\ Goto(l, "published")
  /\ UNCHANGED <<lines, segs, active, bound, inodes, acked, skipped, cut, logFaults>>

\* A new active file, or the one a constructor has made meanwhile.
Create(l) ==
  /\ mutex = l /\ pc[l] = "published"
  /\ IF active = NoFile
       THEN /\ active' = [NoFile EXCEPT !.ino = inodes + 1]
            /\ inodes' = inodes + 1
       ELSE UNCHANGED <<active, inodes>>
  /\ Rebind(l)
  /\ Goto(l, "write")
  /\ UNCHANGED <<lines, segs, manifest, acked, skipped, cut, logFaults>>

\* A step after the rename fails: the segment, its place in the manifest or
\* the new active file is missing, and the object lives on.
RotationFails(l) ==
  /\ mutex = l /\ pc[l] \in {"renamed", "published"} /\ Fault
  /\ Raise(l)
  /\ UNCHANGED <<lines, segs, active, manifest, bound, inodes, acked, skipped, cut>>

NoRotation(l) ==
  /\ mutex = l /\ pc[l] = "rotate" /\ Len(lines) - Rotated <= RotateAt
  /\ Goto(l, "write")
  /\ UNCHANGED <<lines, segs, active, manifest, bound, inodes, acked, skipped, cut, logFaults>>

Entries(l) == [i \in DOMAIN op[l] |-> [seq |-> NextSeq + i - 1, ev |-> op[l][i]]]

\* A write of es that stopped somewhere.
PartlyWritten(es) ==
  \E k \in 0..Len(es) :
    /\ lines' = lines \o SubSeq(es, 1, k)
    /\ \/ active' = [active EXCEPT !.tail = <<>>]
       \/ k < Len(es) /\ \E t \in {Torn, <<es[k + 1]>>} : active' = [active EXCEPT !.tail = t]

\* The lines are written and synced.
Write(l) ==
  /\ mutex = l /\ pc[l] = "write"
  /\ lines' = lines \o Entries(l)
  /\ Goto(l, "written")
  /\ UNCHANGED <<segs, active, manifest, bound, inodes, acked, skipped, cut, logFaults>>

\* Mutant of WriteFails: a failed pair is left as it is.
WriteFailsKept(l) ==
  /\ mutex = l /\ pc[l] = "write" /\ Fault
  /\ PartlyWritten(Entries(l))
  /\ Raise(l)
  /\ UNCHANGED <<segs, manifest, bound, inodes, acked, skipped, cut>>

\* The write, its sync or the check of the growth fails.  An append leaves
\* what was written; the pair is truncated away.
WriteFails(l) ==
  /\ mutex = l /\ pc[l] = "write" /\ Fault
  /\ IF Len(op[l]) = 1 THEN PartlyWritten(Entries(l)) ELSE UNCHANGED <<lines, active>>
  /\ Raise(l)
  /\ UNCHANGED <<segs, manifest, bound, inodes, acked, skipped, cut>>

\* update_manifest_latest_seq_locked: only forward, and only in a manifest.
Latest(seq) == IF manifest = NoManifest THEN manifest
               ELSE [manifest EXCEPT !.latest = Max({@, seq})]

\* What a failed atomic write of the manifest leaves: the old or the new one.
HalfPublished(m) == {manifest, m}

\* The manifest has the new sequence and the entries are returned.
CommitAppend(l) ==
  /\ mutex = l /\ pc[l] = "written"
  /\ manifest' = Latest(ActiveSeq)
  /\ acked' = acked \cup {lines[i] : i \in Len(lines) - Len(op[l]) + 1 .. Len(lines)}
  /\ Release(l, "idle")
  /\ UNCHANGED <<lines, segs, active, bound, inodes, skipped, cut, logFaults>>

\* Publishing the sequence fails, before the manifest is replaced or after it.
\* An append stays in the file; the pair is truncated away, and setting the
\* sequence back does nothing since it only goes forward.
CommitFails(l) ==
  /\ mutex = l /\ pc[l] = "written" /\ Fault
  /\ manifest' \in HalfPublished(Latest(ActiveSeq))
  /\ IF Len(op[l]) = 1 THEN UNCHANGED <<lines, skipped>>
     ELSE /\ lines' = SubSeq(lines, 1, Len(lines) - Len(op[l]))
          /\ skipped' = (skipped \/ manifest' # manifest)
  /\ Raise(l)
  /\ UNCHANGED <<segs, active, bound, inodes, acked, cut>>

\* The process of l dies; inside a write, any part of it is in the file.
LogCrash(l) ==
  /\ pc[l] # "down" /\ Fault
  /\ IF pc[l] = "write" THEN PartlyWritten(Entries(l)) ELSE UNCHANGED <<lines, active>>
  /\ cut' = (cut \/ (pc[l] = "write" /\ Len(op[l]) = 2))
  /\ IF mutex = l THEN Release(l, "down")
     ELSE pc' = [pc EXCEPT ![l] = "down"] /\ UNCHANGED <<mutex, op>>
  /\ bound' = [bound EXCEPT ![l] = 0]
  /\ UNCHANGED <<segs, manifest, inodes, acked, skipped>>

Step(l) == \/ Construct(l) \/ Lock(l) \/ Settle(l) \/ Rebuild(l)
           \/ Rename(l) \/ PublishSegment(l) \/ Create(l) \/ RotationFails(l)
           \/ NoRotation(l)
           \/ Write(l) \/ WriteFails(l) \/ CommitAppend(l) \/ CommitFails(l)
           \/ LogCrash(l)

LogNext == \E l \in Logs : Step(l)

LogSpec == LogInit /\ [][LogNext]_logVars

-----------------------------------------------------------------------------
(***************************************************************************)
(* The stored entries are numbered 1, 2, 3, ... across the segments and    *)
(* the active file, whichever crash, failure or rotation came between:     *)
(* what _iter_current_entries_strict_sync insists on, and without which no *)
(* strict read of the log succeeds again.  Excepted is a pair rolled back  *)
(* after its sequences were published (CommitFails).                       *)
(***************************************************************************)
NumberedInOrder ==
  ~skipped => \A i \in DOMAIN lines : lines[i].seq = i

(***************************************************************************)
(* An entry append has returned stays in the log, under its sequence:      *)
(* neither the recovery of a torn tail, nor a rotation cut short, nor the  *)
(* rollback of a pair takes it away.                                       *)
(***************************************************************************)
ReturnedStays == acked \subseteq {lines[i] : i \in DOMAIN lines}

(***************************************************************************)
(* A completion is stored once, in one version, however often its append   *)
(* is retried after a failure or a crash: the search for it reaches the    *)
(* segments of a rotation that never got to publish its manifest.          *)
(***************************************************************************)
CompletionOnce ==
  \A i, j \in DOMAIN lines :
    lines[i].ev.id = "completion" /\ lines[j].ev.id = "completion" => i = j

(***************************************************************************)
(* "Completed settlement never leaves an exception-partial pair": unless a *)
(* crash fell inside the write of a pair, every recap that a holder of the *)
(* append mutex can read is followed by its detach.                        *)
(***************************************************************************)
PairIsWhole ==
  (mutex = Nobody /\ ~cut) =>
    \A i \in DOMAIN lines :
      lines[i].ev = Recap => i < Len(lines) /\ lines[i + 1].ev = Detach
=============================================================================
