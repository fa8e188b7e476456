--------------------------- MODULE SessionLogQuery ---------------------------
(***************************************************************************)
(* The plain query of the session log (query, query_sync, iter_from): it   *)
(* reads the manifest, then the bounds of the active file, then the files, *)
(* and holds no mutex while appends of other threads and processes rotate. *)
(***************************************************************************)
EXTENDS SessionLog

VARIABLES
  reader,  \* the log object the query runs on, or Nobody
  read,    \* its place: manifest, bounds, files or done
  view,    \* the segments its manifest names, and whether the active file is read
  due,     \* the entries returned to appenders before it began
  found    \* the entries it has returned

queryVars == <<reader, read, view, due, found>>

QueryInit == /\ LogInit
             /\ reader = Nobody /\ read = "manifest"
             /\ view = [names |-> {}, active |-> FALSE]
             /\ due = {} /\ found = {}

\* _segment_view_sync loads the manifest.
LoadManifest(l) ==
  /\ reader = Nobody /\ pc[l] \notin {"down", "opening"}
  /\ reader' = l /\ read' = "bounds"
  /\ view' = [view EXCEPT !.names = manifest.names]
  /\ due' = acked
  /\ UNCHANGED <<logVars, found>>

\* The bounds of the active file: a missing or empty one is left out of the
\* view, a displaced one raises.
ReadBounds ==
  /\ reader # Nobody /\ read = "bounds"
  /\ active = NoFile \/ Opens(reader)
  /\ view' = [view EXCEPT !.active = ActiveLines # {}]
  /\ bound' = IF active = NoFile THEN bound ELSE [bound EXCEPT ![reader] = active.ino]
  /\ read' = "files"
  /\ UNCHANGED <<lines, segs, active, manifest, mutex, pc, op, inodes, acked, skipped,
                 cut, logFaults, reader, due, found>>

\* The files of the view are read; a missing or displaced active file raises.
ReadFiles ==
  /\ reader # Nobody /\ read = "files"
  /\ view.active => Opens(reader)
  /\ found' = SegmentLines(view.names) \cup (IF view.active THEN ActiveLines ELSE {})
  /\ bound' = IF view.active THEN [bound EXCEPT ![reader] = active.ino] ELSE bound
  /\ read' = "done"
  /\ UNCHANGED <<lines, segs, active, manifest, mutex, pc, op, inodes, acked, skipped,
                 cut, logFaults, reader, view, due>>

QueryNext == \/ LogNext /\ UNCHANGED queryVars
             \/ \E l \in Logs : LoadManifest(l)
             \/ ReadBounds
             \/ ReadFiles

QuerySpec == QueryInit /\ [][QueryNext]_<<logVars, queryVars>>

(***************************************************************************)
(* A query that returns has every entry whose append had returned before   *)
(* the query began, as the history read promises of the existing log and   *)
(* its rotated segments.                                                   *)
(***************************************************************************)
QueryHasReturned == read = "done" => due \subseteq found
=============================================================================
