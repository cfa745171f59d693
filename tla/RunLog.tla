------------------------------- MODULE RunLog -------------------------------
(***************************************************************************)
(* RunLogger and RunReplay (src/host/src/navbench/runlog.py): the life of  *)
(* one run directory, as operators on a record, and what a strict reader   *)
(* makes of the directory at any time.                                     *)
(*                                                                         *)
(* Every row is flushed to the operating system, so the death of the       *)
(* process loses nothing that was written.  A loss of power does: the      *)
(* contents of a file are safe once fsynced, but no directory is ever      *)
(* synced, so that each name may go back to anything it has been.          *)
(*                                                                         *)
(* What a file holds is the number of its whole rows and what follows them *)
(* where it was cut.  A part of a row is not JSON; but a row of a CSV file *)
(* that is cut inside its last field still has all its fields, and as long *)
(* as what is left of the last one is good (a shorter number, a shorter    *)
(* name) the reader takes it for a row and counts it.  A row that has lost *)
(* its line end only is whole, and a file that is cut inside the header of *)
(* its table has no rows and a part of one.                                *)
(***************************************************************************)
EXTENDS Integers

CONSTANTS
  Stream,   \* the six record files
  Csv       \* those that are tables: ground_truth, commands, timing

ASSUME RunLogAssumption == Csv \subseteq Stream

Absent == -1
NoRecords == [s \in Stream |-> 0]

(* What follows the last whole row: nothing, a part of a row that the      *)
(* reader refuses, or one that it takes for a row.                         *)
RowTail == {"None", "Broken", "Passing"}
TornTails(s) == {"None", "Broken"} \cup (IF s \in Csv THEN {"Passing"} ELSE {})
Uncut == [s \in Stream |-> "None"]

(* _manifest as far as a verdict needs it.                                 *)
ManifestStatus == {"none", "incomplete", "complete"}
Manifest == [status : ManifestStatus, counts : [Stream -> Nat]]
NoManifest == [status |-> "none", counts |-> NoRecords]
FirstManifest == [status |-> "incomplete", counts |-> NoRecords]

Stage == {"None", "Made", "Marked", "Configured", "Described", "Opening",
          "Open", "Closed", "Summed", "Sealed", "Done", "Abandoned"}

(* was holds, for each name, all that it has been since it was last safe.  *)
RunDirectory ==
  [stage    : Stage,                  \* how far the logger has come
   recorded : [Stream -> Nat],        \* _counts
   file     : [Stream -> Int],        \* its whole rows, or Absent
   tail     : [Stream -> RowTail],       \* what follows them
   damaged  : SUBSET Stream,          \* observed: cut by somebody else
   synced   : [Stream -> Nat],        \* those of them that are fsynced
   marker   : BOOLEAN, config : BOOLEAN,
   manifest : Manifest, summary : ManifestStatus,
   was      : [marker : SUBSET BOOLEAN, config : SUBSET BOOLEAN,
               manifest : SUBSET Manifest, summary : SUBSET ManifestStatus]]

NoDirectory ==
  [stage |-> "None", recorded |-> NoRecords,
   file |-> [s \in Stream |-> Absent], tail |-> Uncut, damaged |-> {},
   synced |-> NoRecords,
   marker |-> FALSE, config |-> FALSE,
   manifest |-> NoManifest, summary |-> "none",
   was |-> [marker |-> {FALSE}, config |-> {FALSE},
            manifest |-> {NoManifest}, summary |-> {"none"}]]

-----------------------------------------------------------------------------
(* _atomic_write_text: a file of its own, fsynced, takes the name.         *)
PutMarker(d, b) == [d EXCEPT !.marker = b, !.was.marker = @ \cup {b}]
PutManifest(d, m) == [d EXCEPT !.manifest = m, !.was.manifest = @ \cup {m}]
PutSummary(d, v) == [d EXCEPT !.summary = v, !.was.summary = @ \cup {v}]

(* __init__, from the directory to the last of the six files.              *)
Marked(d) == [PutMarker(d, TRUE) EXCEPT !.stage = "Marked"]
Configured(d) ==
  [d EXCEPT !.config = TRUE, !.was.config = {TRUE, FALSE},
            !.stage = "Configured"]
Described(d) == [PutManifest(d, FirstManifest) EXCEPT !.stage = "Described"]
Announced(d) == [PutSummary(d, "incomplete") EXCEPT !.stage = "Opening"]
Unopened(d) == {s \in Stream : d.file[s] = Absent}
Opened(d, s) ==
  [d EXCEPT !.file[s] = 0,
            !.stage = IF Unopened(d) = {s} THEN "Open" ELSE "Opening"]

(* record_ground_truth and its siblings                                    *)
Recorded(d, s) == [d EXCEPT !.file[s] = @ + 1, !.recorded[s] = @ + 1]

(* finalize: checkpoint and close, then the summary, the manifest, and the *)
(* marker goes last.                                                       *)
Slip_Checkpointed(d) == [d EXCEPT !.stage = "Closed"]
Checkpointed(d) == [d EXCEPT !.synced = d.recorded, !.stage = "Closed"]
Summed(d) == [PutSummary(d, "complete") EXCEPT !.stage = "Summed"]
Counted(d) == [status |-> "complete", counts |-> d.recorded]
Sealed(d) == [PutManifest(d, Counted(d)) EXCEPT !.stage = "Sealed"]
Unmarked(d) == [PutMarker(d, FALSE) EXCEPT !.stage = "Done"]

(* close_incomplete writes down how far the run came.  After an error in   *)
(* finalize the files are closed, flushing them is an error in its turn,   *)
(* and nothing is written.                                                 *)
PartialManifest(d) == [status |-> "incomplete", counts |-> d.recorded]
ClosedIncomplete(d) ==
  IF d.stage = "Open"
    THEN [PutManifest(d, PartialManifest(d)) EXCEPT !.stage = "Abandoned"]
    ELSE [d EXCEPT !.stage = "Abandoned"]

(* The manifest of close_incomplete may itself fail to be written.         *)
Dropped(d) == [d EXCEPT !.stage = "Abandoned"]

-----------------------------------------------------------------------------
(* What power may leave of a directory: of a record file no name, or all   *)
(* that is safe and some of the rest.                                      *)
Left(d, marker, config, manifest, summary, file, tail) ==
  [d EXCEPT !.stage = "Abandoned",
            !.marker = marker, !.config = config, !.manifest = manifest,
            !.summary = summary, !.file = file, !.tail = tail,
            !.synced = [s \in Stream |->
                          IF file[s] = Absent THEN 0 ELSE file[s]],
            !.was = [marker |-> {marker}, config |-> {config},
                     manifest |-> {manifest}, summary |-> {summary}]]

LeftFile(d, s) == {Absent} \cup (d.synced[s] .. d.file[s])
LeftFiles(d) ==
  {file \in [Stream -> UNION {LeftFile(d, s) : s \in Stream}] :
     \A s \in Stream : file[s] \in LeftFile(d, s)}

LeftTail(d, s, n) ==
  CASE n = Absent                    -> {"None"}
    [] n # Absent /\ n < d.file[s]   -> TornTails(s)
    [] n # Absent /\ n >= d.file[s]  -> {d.tail[s]}
LeftTails(d, file) ==
  {tail \in [Stream -> RowTail] :
     \A s \in Stream : tail[s] \in LeftTail(d, s, file[s])}

Leftovers(d) ==
  UNION {{Left(d, marker, config, manifest, summary, file, tail) :
            marker \in d.was.marker, config \in d.was.config,
            manifest \in d.was.manifest, summary \in d.was.summary,
            tail \in LeftTails(d, file)} : file \in LeftFiles(d)}

(* Whatever happens to a record file later: it is removed, or cut short    *)
(* after n rows, in the next or between the two.                           *)
Shorter(d, s, n, tail) ==
  \/ n = Absent /\ tail = "None" /\ d.file[s] # Absent
  \/ /\ n \in 0 .. d.file[s] /\ tail \in TornTails(s)
     /\ n = d.file[s] => d.tail[s] # "None"

Damaged(d, s, n, tail) ==
  [d EXCEPT !.stage = "Abandoned", !.damaged = @ \cup {s},
            !.file[s] = n, !.tail[s] = tail,
            !.synced[s] = IF n = Absent THEN 0 ELSE n]

-----------------------------------------------------------------------------
(* RunReplay without allow_incomplete, and _run_artifact_status: the rows  *)
(* that the reader counts are those of the manifest.                       *)
Rows(d, s) == IF d.tail[s] = "Passing" THEN d.file[s] + 1 ELSE d.file[s]

Slip_CountsMatch(d) == \A s \in Stream : d.file[s] # Absent
CountsMatch(d) ==
  \A s \in Stream : d.tail[s] # "Broken" /\ Rows(d, s) = d.manifest.counts[s]

Verdict(d) ==
  CASE d.manifest.status = "none" -> "missing"
    [] d.manifest.status = "incomplete" \/ (d.manifest.status = "complete"
                                             /\ d.marker) -> "incomplete"
    [] d.manifest.status = "complete" /\ ~d.marker ->
         IF d.config /\ CountsMatch(d) /\ d.summary = "complete"
           THEN "complete" ELSE "invalid"
=============================================================================
