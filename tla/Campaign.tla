------------------------------ MODULE Campaign ------------------------------
(***************************************************************************)
(* run_campaign and inspect_campaign (src/host/src/navbench/campaign.py):  *)
(* one run after the other, each in a directory of its own kept by RunLog, *)
(* then a summary that judges them all; and the inspection of what is on   *)
(* the disk at any later time.                                             *)
(*                                                                         *)
(* Every write may fail, the user may interrupt, the process may be        *)
(* killed, and the power may fail, between any two steps.  What a run is   *)
(* worth (its metrics) is a choice.                                        *)
(***************************************************************************)
EXTENDS RunLog

CONSTANTS
  RunCount,      \* expected runs: one for each mode and seed
  MaxRecords,    \* bound: the records of one stream of one run
  MaxLosses      \* bound: how often power or records are lost

ASSUME CampaignAssumption == /\ RunCount \in Nat \ {0}
                            /\ MaxRecords \in Nat
                            /\ MaxLosses \in Nat

VARIABLES
  dirs,       \* the directory of every run
  stage,      \* how far run_campaign has come
  current,    \* the run it is at
  records,    \* what it has noted of every run
  success,    \* metric_summary.success of every run
  marker,     \* the campaign's INCOMPLETE file
  config,     \* campaign_config.json
  summary,    \* campaign_summary.json
  was,        \* what these have been since they were last safe
  losses,     \* how often power or records have been lost
  crashed     \* observed: interrupted, killed, or without power

vars == <<dirs, stage, current, records, success, marker, config, summary,
          was, losses, crashed>>
disk == <<marker, config, summary, was>>

Run == 1 .. RunCount

CampaignStage == {"Absent", "Made", "Marked", "Running", "Judged", "Reported",
                  "Down"}
Note == {"none", "complete", "failed"}
SummaryState == {"none", "failed", "passed"}

Init ==
  /\ dirs = [r \in Run |-> NoDirectory]
  /\ stage = "Absent"
  /\ current = 1
  /\ records = [r \in Run |-> "none"]
  /\ success = [r \in Run |-> FALSE]
  /\ marker = FALSE /\ config = FALSE /\ summary = "none"
  /\ was = [marker |-> {FALSE}, config |-> {FALSE}, summary |-> {"none"}]
  /\ losses = 0
  /\ crashed = FALSE

-----------------------------------------------------------------------------
(* Before the runs: the directory must be new.                             *)
MakeDirectory ==
  /\ stage = "Absent"
  /\ stage' = "Made"
  /\ UNCHANGED <<dirs, current, records, success, disk, losses, crashed>>

WriteMarker ==
  /\ stage = "Made"
  /\ stage' = "Marked"
  /\ marker' = TRUE
  /\ was' = [was EXCEPT !.marker = @ \cup {TRUE}]
  /\ UNCHANGED <<dirs, current, records, success, config, summary, losses, crashed>>

WriteConfig ==
  /\ stage = "Marked"
  /\ stage' = "Running"
  /\ config' = TRUE
  /\ was' = [was EXCEPT !.config = @ \cup {TRUE}]
  /\ UNCHANGED <<dirs, current, records, success, marker, summary, losses, crashed>>

-----------------------------------------------------------------------------
(* run_closed_loop, as far as the run directory sees it.                   *)
Logs(d) == dirs' = [dirs EXCEPT ![current] = d]
AtRun(s) == stage = "Running" /\ current \in Run /\ dirs[current].stage = s
OnlyDirs == UNCHANGED <<stage, current, records, success, disk, losses, crashed>>

Here == dirs[current]

CreateRun ==
  /\ AtRun("None")
  /\ Logs([Here EXCEPT !.stage = "Made"])
  /\ OnlyDirs

SetUpRun ==
  /\ \/ AtRun("Made") /\ Logs(Marked(Here))
     \/ AtRun("Marked") /\ Logs(Configured(Here))
     \/ AtRun("Configured") /\ Logs(Described(Here))
     \/ AtRun("Described") /\ Logs(Announced(Here))
  /\ OnlyDirs

OpenStream(s) ==
  /\ AtRun("Opening") /\ s \in Unopened(Here)
  /\ Logs(Opened(Here, s))
  /\ OnlyDirs

Record(s) ==
  /\ AtRun("Open")
  /\ Here.recorded[s] < MaxRecords
  /\ Logs(Recorded(Here, s))
  /\ OnlyDirs

FinalizeRun ==
  /\ \/ AtRun("Open") /\ Logs(Checkpointed(Here))
     \/ AtRun("Closed") /\ Logs(Summed(Here))
     \/ AtRun("Summed") /\ Logs(Sealed(Here))
     \/ AtRun("Sealed") /\ Logs(Unmarked(Here))
  /\ OnlyDirs

(* A run that raises: a write fails, or anything else while it is open.    *)
Breakable == Stage \ {"None", "Done", "Abandoned"}
Broken(d) == {ClosedIncomplete(d), Dropped(d)}

BreakRun ==
  /\ stage = "Running" /\ current \in Run /\ Here.stage \in Breakable
  /\ \E d \in Broken(Here) : Logs(d)
  /\ OnlyDirs

(* The record of a run that has ended; the dashboard of a finished one may *)
(* still raise.                                                            *)
Slip_AfterFailure == "Down"
AfterFailure == "Running"   \* except Exception: ... continue

NoteRun ==
  /\ AtRun("Done") \/ AtRun("Abandoned")
  /\ \E note \in IF Here.stage = "Done" THEN {"complete", "failed"}
                                        ELSE {"failed"} :
       /\ records' = [records EXCEPT ![current] = note]
       /\ stage' = IF note = "failed" THEN AfterFailure ELSE "Running"
       /\ \E good \in BOOLEAN :
            /\ note = "failed" => ~good
            /\ success' = [success EXCEPT ![current] = good]
  /\ current' = current + 1
  /\ UNCHANGED <<dirs, disk, losses, crashed>>

-----------------------------------------------------------------------------
(* The verdict: every run is there, complete on the disk and a success,    *)
(* and the landmarks have helped.                                          *)
Accepted ==
  \A r \in Run :
    /\ records[r] = "complete" /\ success[r]
    /\ Verdict(dirs[r]) = "complete"

Judge ==
  /\ stage = "Running" /\ current = RunCount + 1
  /\ stage' = "Judged"
  /\ \E better \in BOOLEAN :
       summary' = IF Accepted /\ better THEN "passed" ELSE "failed"
  /\ was' = [was EXCEPT !.summary = @ \cup {summary'}]
  /\ UNCHANGED <<dirs, current, records, success, marker, config, losses, crashed>>

RemoveMarker ==
  /\ stage = "Judged"
  /\ stage' = "Reported"
  /\ marker' = FALSE
  /\ was' = [was EXCEPT !.marker = @ \cup {FALSE}]
  /\ UNCHANGED <<dirs, current, records, success, config, summary, losses, crashed>>

-----------------------------------------------------------------------------
(* The end of the process: killed, between two steps, or interrupted,      *)
(* which closes the run it is at.                                          *)
Alive == stage \notin {"Absent", "Reported", "Down"}

Kill ==
  /\ Alive
  /\ stage' = "Down" /\ crashed' = TRUE
  /\ UNCHANGED <<dirs, current, records, success, disk, losses>>

Interrupt ==
  /\ stage = "Running" /\ current \in Run /\ Here.stage \in Breakable
  /\ \E d \in Broken(Here) : Logs(d)
  /\ stage' = "Down" /\ crashed' = TRUE
  /\ UNCHANGED <<current, records, success, disk, losses>>

(* The power fails, now or after the campaign: the names of the campaign   *)
(* and of one run go back to anything they have been.                      *)
LosePower ==
  /\ stage # "Absent" /\ losses < MaxLosses
  /\ losses' = losses + 1
  /\ stage' = "Down" /\ crashed' = TRUE
  /\ \E m \in was.marker, c \in was.config, v \in was.summary :
       /\ marker' = m /\ config' = c /\ summary' = v
       /\ was' = [marker |-> {m}, config |-> {c}, summary |-> {v}]
  /\ \E r \in Run : \E d \in Leftovers(dirs[r]) :
       dirs' = [dirs EXCEPT ![r] = d]
  /\ UNCHANGED <<current, records, success>>

(* A record file is cut short or removed by somebody else, afterwards.     *)
Damage ==
  /\ ~Alive /\ losses < MaxLosses
  /\ losses' = losses + 1
  /\ \E r \in Run, s \in Stream, n \in Absent .. MaxRecords, tail \in RowTail :
       /\ Shorter(dirs[r], s, n, tail)
       /\ dirs' = [dirs EXCEPT ![r] = Damaged(@, s, n, tail)]
  /\ UNCHANGED <<stage, current, records, success, disk, crashed>>

-----------------------------------------------------------------------------
Progress ==
  \/ MakeDirectory \/ WriteMarker \/ WriteConfig
  \/ CreateRun \/ SetUpRun \/ (\E s \in Stream : OpenStream(s))
  \/ FinalizeRun \/ NoteRun \/ Judge \/ RemoveMarker

Next ==
  \/ Progress
  \/ \E s \in Stream : Record(s)
  \/ BreakRun \/ Kill \/ Interrupt \/ LosePower \/ Damage

Spec == Init /\ [][Next]_vars

(* The process keeps running until something ends it.                      *)
FairSpec == Spec /\ WF_vars(Progress)

-----------------------------------------------------------------------------
(* inspect_campaign: the summary is believed only as far as every expected *)
(* run is still complete on the disk.                                      *)
Slip_Passed == config /\ summary = "passed"
Passed ==
  /\ config
  /\ summary = "passed"
  /\ \A r \in Run : Verdict(dirs[r]) = "complete"

-----------------------------------------------------------------------------
(* Types.                                                                  *)
Early == {"None", "Made", "Marked", "Configured", "Described"}
TypeOK ==
  /\ dirs \in [Run -> RunDirectory]
  /\ \A r \in Run : dirs[r].stage \in Early => Unopened(dirs[r]) = Stream
  /\ stage \in CampaignStage
  /\ current \in 1 .. RunCount + 1
  /\ records \in [Run -> Note]
  /\ success \in [Run -> BOOLEAN]
  /\ marker \in BOOLEAN /\ config \in BOOLEAN /\ summary \in SummaryState
  /\ was \in [marker : SUBSET BOOLEAN, config : SUBSET BOOLEAN,
              summary : SUBSET SummaryState]
  /\ losses \in 0 .. MaxLosses
  /\ crashed \in BOOLEAN

(* What a strict reader calls complete has every record that was ever      *)
(* taken: no crash, loss of power or failed write gets past the counts of  *)
(* the manifest, the marker and the summary together.  Damage of later     *)
(* does in one way only: a table that is cut inside the last field of its  *)
(* last row keeps its count, with less of that field than was written.     *)
Whole(d, s) == d.tail[s] = "None" /\ d.file[s] = d.recorded[s]
LastFieldCut(d, s) ==
  /\ s \in Csv \cap d.damaged
  /\ d.tail[s] = "Passing" /\ d.file[s] = d.recorded[s] - 1
Kept(d) == \A s \in Stream : Whole(d, s) \/ LastFieldCut(d, s)

VerdictSound == \A r \in Run : Verdict(dirs[r]) = "complete" => Kept(dirs[r])

(* A campaign that an inspection accepts, at any time after a crash or     *)
(* damage, is one whose every run succeeded and still has all its records, *)
(* but for the last field of a table that somebody has cut there.          *)
AcceptanceSound ==
  Passed => \A r \in Run : /\ records[r] = "complete" /\ success[r]
                           /\ Kept(dirs[r])

(* Losing power takes no record from a stream of a run whose manifest says *)
(* that it is complete, or may come back to say so, and leaves no torn row *)
(* in it: the records are safe before the manifest is written.  All that   *)
(* it may take is the file with its name, and that is noticed.             *)
SafeBeforeSealed ==
  \A r \in Run : \A m \in dirs[r].was.manifest :
    m.status = "complete" =>
      \A s \in Stream : /\ dirs[r].synced[s] >= dirs[r].file[s]
                        /\ s \notin dirs[r].damaged => dirs[r].tail[s] = "None"

(* A run that fails never ends the campaign: unless the process is ended,  *)
(* every run gets its turn and the campaign is reported.                   *)
CampaignReports == <>(stage = "Reported" \/ crashed)
=============================================================================
