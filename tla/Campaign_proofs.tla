-------------------------- MODULE Campaign_proofs --------------------------
(***************************************************************************)
(* Proofs about Campaign, for any number of runs, streams, records and     *)
(* losses: what an inspection accepts is really there.                     *)
(*                                                                         *)
(* The argument is about one directory: a manifest that says "complete",   *)
(* on the disk or where a loss of power may bring it back, carries the     *)
(* counts of all records ever taken, and exists only once the files are    *)
(* fsynced and no record can follow; and a torn row is found only in a     *)
(* directory that nobody works on any more, and next to such a manifest    *)
(* only where somebody has cut the file (DirectoryOK).  Each operation of  *)
(* RunLog keeps that; Campaign only chooses the operation and the run.     *)
(***************************************************************************)
EXTENDS Campaign, TLAPS

-----------------------------------------------------------------------------
(* The inductive invariant.                                                *)
Unsealed == Stage \ {"Sealed", "Done", "Abandoned"}
Settled == {"Closed", "Summed"}

DirectoryOK(d) ==
  /\ d \in RunDirectory
  /\ d.stage \in Early => Unopened(d) = Stream
  /\ \A s \in Stream : d.file[s] <= d.recorded[s]
  /\ d.manifest \in d.was.manifest
  /\ \A m \in d.was.manifest : m.status = "complete" =>
       /\ m.counts = d.recorded
       /\ d.stage \notin Unsealed
       /\ \A s \in Stream : /\ d.synced[s] >= d.file[s]
                            /\ s \notin d.damaged => d.tail[s] = "None"
  /\ d.stage \in Settled => \A s \in Stream : d.synced[s] >= d.file[s]
  /\ d.stage # "Abandoned" => \A s \in Stream : d.tail[s] = "None"
  /\ \A s \in Stream : d.tail[s] = "Passing" => s \in Csv

CampaignOK ==
  "passed" \in was.summary \cup {summary} =>
    /\ \A r \in Run : records[r] = "complete" /\ success[r]
    /\ stage \in {"Judged", "Reported", "Down"}

FlagsOK ==
  /\ stage \in CampaignStage
  /\ current \in 1 .. RunCount + 1
  /\ records \in [Run -> Note]
  /\ success \in [Run -> BOOLEAN]
  /\ marker \in BOOLEAN /\ config \in BOOLEAN /\ summary \in SummaryState
  /\ was \in [marker : SUBSET BOOLEAN, config : SUBSET BOOLEAN,
              summary : SUBSET SummaryState]
  /\ losses \in 0 .. MaxLosses
  /\ crashed \in BOOLEAN

DirsOK ==
  /\ DOMAIN dirs = Run
  /\ dirs = [r \in Run |-> dirs[r]]
  /\ \A r \in Run : DirectoryOK(dirs[r])

IInv == FlagsOK /\ DirsOK /\ CampaignOK

-----------------------------------------------------------------------------
(* One lemma for each operation on a directory.                            *)
USE DEF RunDirectory, Stage, Manifest, ManifestStatus, Early, Unsealed,
        Settled, Absent, NoRecords, RowTail

LEMMA NoDirectoryOK == DirectoryOK(NoDirectory)
BY DEF DirectoryOK, NoDirectory, NoManifest, Unopened, Uncut

LEMMA MadeOK ==
  ASSUME NEW d, DirectoryOK(d), d.stage = "None"
  PROVE  DirectoryOK([d EXCEPT !.stage = "Made"])
BY DEF DirectoryOK, Unopened

LEMMA MarkedOK ==
  ASSUME NEW d, DirectoryOK(d), d.stage = "Made"
  PROVE  DirectoryOK(Marked(d))
BY DEF DirectoryOK, Unopened, Marked, PutMarker

LEMMA ConfiguredOK ==
  ASSUME NEW d, DirectoryOK(d), d.stage = "Marked"
  PROVE  DirectoryOK(Configured(d))
BY DEF DirectoryOK, Unopened, Configured

LEMMA DescribedOK ==
  ASSUME NEW d, DirectoryOK(d), d.stage = "Configured"
  PROVE  DirectoryOK(Described(d))
<1>1. FirstManifest \in Manifest /\ FirstManifest.status # "complete"
  BY DEF FirstManifest
<1>2. Described(d) \in RunDirectory
  BY <1>1 DEF DirectoryOK, Described, PutManifest
<1>3. /\ Described(d).was.manifest = d.was.manifest \cup {FirstManifest}
      /\ Described(d).manifest = FirstManifest
      /\ Described(d).stage = "Described"
      /\ Described(d).file = d.file /\ Described(d).synced = d.synced
      /\ Described(d).recorded = d.recorded
      /\ Described(d).tail = d.tail /\ Described(d).damaged = d.damaged
  BY DEF DirectoryOK, Described, PutManifest
<1> QED
  BY <1>1, <1>2, <1>3 DEF DirectoryOK, Unopened

LEMMA AnnouncedOK ==
  ASSUME NEW d, DirectoryOK(d), d.stage = "Described"
  PROVE  DirectoryOK(Announced(d))
BY DEF DirectoryOK, Unopened, Announced, PutSummary

LEMMA OpenedOK ==
  ASSUME NEW d, DirectoryOK(d), d.stage = "Opening",
         NEW s \in Unopened(d)
  PROVE  DirectoryOK(Opened(d, s))
<1>a. [d.file EXCEPT ![s] = 0] \in [Stream -> Int]
  BY DEF DirectoryOK, Unopened
<1>b. PICK next \in {"Open", "Opening"} :
        Opened(d, s) = [d EXCEPT !.file = [d.file EXCEPT ![s] = 0],
                                 !.stage = next]
  BY DEF Opened, DirectoryOK
<1>1. Opened(d, s) \in RunDirectory
  BY <1>a, <1>b DEF DirectoryOK
<1>2. /\ Opened(d, s).was = d.was /\ Opened(d, s).manifest = d.manifest
      /\ Opened(d, s).stage \in {"Open", "Opening"}
      /\ Opened(d, s).recorded = d.recorded
      /\ Opened(d, s).tail = d.tail /\ Opened(d, s).damaged = d.damaged
      /\ \A t \in Stream : Opened(d, s).file[t] \in {0, d.file[t]}
  BY DEF DirectoryOK, Unopened, Opened
<1>3. \A m \in d.was.manifest : m.status # "complete"
  BY DEF DirectoryOK
<1>4. \A t \in Stream : d.recorded[t] \in Nat /\ d.file[t] <= d.recorded[t]
  BY DEF DirectoryOK
<1> QED
  BY <1>1, <1>2, <1>3, <1>4 DEF DirectoryOK

LEMMA RecordedOK ==
  ASSUME NEW d, DirectoryOK(d), d.stage = "Open", NEW s \in Stream
  PROVE  DirectoryOK(Recorded(d, s))
<1>a. /\ [d.file EXCEPT ![s] = d.file[s] + 1] \in [Stream -> Int]
      /\ [d.recorded EXCEPT ![s] = d.recorded[s] + 1] \in [Stream -> Nat]
  BY DEF DirectoryOK
<1>b. Recorded(d, s) =
        [d EXCEPT !.file = [d.file EXCEPT ![s] = d.file[s] + 1],
                  !.recorded = [d.recorded EXCEPT ![s] = d.recorded[s] + 1]]
  BY DEF Recorded, DirectoryOK
<1>1. Recorded(d, s) \in RunDirectory
  BY <1>a, <1>b DEF DirectoryOK
<1>2. /\ Recorded(d, s).was = d.was /\ Recorded(d, s).manifest = d.manifest
      /\ Recorded(d, s).stage = "Open"
      /\ Recorded(d, s).tail = d.tail /\ Recorded(d, s).damaged = d.damaged
  BY DEF DirectoryOK, Recorded
<1>3. \A t \in Stream : Recorded(d, s).file[t] <= Recorded(d, s).recorded[t]
  <2> TAKE t \in Stream
  <2>1. d.file[t] \in Int /\ d.recorded[t] \in Nat /\ d.file[t] <= d.recorded[t]
    BY DEF DirectoryOK
  <2>2. CASE t = s
    BY <2>1, <2>2 DEF DirectoryOK, Recorded
  <2>3. CASE t # s
    BY <2>1, <2>3 DEF DirectoryOK, Recorded
  <2> QED
    BY <2>2, <2>3
<1>4. \A m \in d.was.manifest : m.status # "complete"
  BY DEF DirectoryOK
<1> QED
  BY <1>1, <1>2, <1>3, <1>4 DEF DirectoryOK

LEMMA CheckpointedOK ==
  ASSUME NEW d, DirectoryOK(d), d.stage = "Open"
  PROVE  DirectoryOK(Checkpointed(d))
BY DEF DirectoryOK, Unopened, Checkpointed

LEMMA SummedOK ==
  ASSUME NEW d, DirectoryOK(d), d.stage = "Closed"
  PROVE  DirectoryOK(Summed(d))
BY DEF DirectoryOK, Unopened, Summed, PutSummary

LEMMA SealedOK ==
  ASSUME NEW d, DirectoryOK(d), d.stage = "Summed"
  PROVE  DirectoryOK(Sealed(d))
<1>1. /\ Counted(d) \in Manifest
      /\ Counted(d).counts = d.recorded
  BY DEF DirectoryOK, Counted
<1>2. Sealed(d) \in RunDirectory
  BY <1>1 DEF DirectoryOK, Sealed, PutManifest
<1>3. /\ Sealed(d).was.manifest = d.was.manifest \cup {Counted(d)}
      /\ Sealed(d).manifest = Counted(d)
      /\ Sealed(d).stage = "Sealed"
      /\ Sealed(d).file = d.file /\ Sealed(d).synced = d.synced
      /\ Sealed(d).recorded = d.recorded
      /\ Sealed(d).tail = d.tail /\ Sealed(d).damaged = d.damaged
  BY DEF DirectoryOK, Sealed, PutManifest
<1>4. /\ \A s \in Stream : d.synced[s] >= d.file[s]
      /\ \A m \in d.was.manifest : m.status # "complete"
  BY DEF DirectoryOK
<1> QED
  BY <1>1, <1>2, <1>3, <1>4 DEF DirectoryOK

LEMMA UnmarkedOK ==
  ASSUME NEW d, DirectoryOK(d), d.stage = "Sealed"
  PROVE  DirectoryOK(Unmarked(d))
BY DEF DirectoryOK, Unopened, Unmarked, PutMarker

(* A run that is given up leaves its manifest as it was, or one that says  *)
(* so.                                                                     *)
LEMMA BrokenOK ==
  ASSUME NEW d, DirectoryOK(d), d.stage \in Breakable, NEW e \in Broken(d)
  PROVE  DirectoryOK(e)
<1>1. CASE e = Dropped(d) \/ (d.stage # "Open" /\ e = ClosedIncomplete(d))
  <2>1. e = [d EXCEPT !.stage = "Abandoned"]
    BY <1>1 DEF Dropped, ClosedIncomplete
  <2> QED
    BY <2>1 DEF DirectoryOK, Unopened
<1>2. CASE d.stage = "Open" /\ e = ClosedIncomplete(d)
  <2>1. /\ PartialManifest(d) \in Manifest
        /\ PartialManifest(d).status # "complete"
    BY DEF DirectoryOK, PartialManifest
  <2>2. e = [PutManifest(d, PartialManifest(d)) EXCEPT !.stage = "Abandoned"]
    BY <1>2 DEF ClosedIncomplete
  <2>3. e \in RunDirectory
    BY <2>1, <2>2 DEF DirectoryOK, PutManifest
  <2>4. /\ e.was.manifest = d.was.manifest \cup {PartialManifest(d)}
        /\ e.manifest = PartialManifest(d)
        /\ e.stage = "Abandoned"
        /\ e.file = d.file /\ e.synced = d.synced /\ e.recorded = d.recorded
        /\ e.tail = d.tail /\ e.damaged = d.damaged
    BY <2>2 DEF DirectoryOK, PutManifest
  <2> QED
    BY <2>1, <2>3, <2>4 DEF DirectoryOK
<1> QED
  BY <1>1, <1>2 DEF Broken

(* What power leaves: what it takes away, no later step gives back.        *)
LEMMA LeftOK ==
  ASSUME NEW d, DirectoryOK(d), NEW e \in Leftovers(d)
  PROVE  DirectoryOK(e)
<1>1. PICK marker_0 \in d.was.marker, config_0 \in d.was.config,
           manifest_0 \in d.was.manifest, summary_0 \in d.was.summary,
           file_0 \in LeftFiles(d), tail_0 \in [Stream -> RowTail] :
        /\ tail_0 \in LeftTails(d, file_0)
        /\ e = Left(d, marker_0, config_0, manifest_0, summary_0,
                    file_0, tail_0)
  BY DEF Leftovers, LeftTails
<1>2. /\ \A s \in Stream : /\ d.synced[s] \in Nat /\ d.file[s] \in Int
                            /\ d.recorded[s] \in Nat
                            /\ d.file[s] <= d.recorded[s]
      /\ manifest_0 \in Manifest
  BY DEF DirectoryOK
<1>3. /\ DOMAIN file_0 = Stream /\ file_0 = [s \in Stream |-> file_0[s]]
      /\ \A s \in Stream : file_0[s] \in LeftFile(d, s)
  BY DEF LeftFiles
<1>4. \A s \in Stream : /\ file_0[s] = -1 \/ file_0[s] \in Nat
                        /\ file_0[s] <= d.recorded[s]
  <2> TAKE s \in Stream
  <2>1. file_0[s] \in LeftFile(d, s)
    BY <1>3
  <2>2. /\ d.synced[s] \in Nat /\ d.file[s] \in Int /\ d.recorded[s] \in Nat
        /\ d.file[s] <= d.recorded[s]
    BY <1>2
  <2>3. CASE file_0[s] = -1
    BY <2>2, <2>3
  <2>4. CASE file_0[s] \in d.synced[s] .. d.file[s]
    BY <2>2, <2>4
  <2> QED
    BY <2>1, <2>3, <2>4 DEF LeftFile
<1>a. file_0 \in [Stream -> Int]
  <2>1. \A s \in Stream : file_0[s] \in Int
    <3> TAKE s \in Stream
    <3>1. file_0[s] = -1 \/ file_0[s] \in Nat
      BY <1>4
    <3> QED
      BY <3>1
  <2> QED
    BY <2>1, <1>3
<1>b. [s \in Stream |-> IF file_0[s] = Absent THEN 0 ELSE file_0[s]]
        \in [Stream -> Nat]
  BY <1>4
<1>c. /\ tail_0 \in [Stream -> RowTail]
      /\ \A s \in Stream : tail_0[s] \in LeftTail(d, s, file_0[s])
  BY <1>1 DEF LeftTails
<1>5. e \in RunDirectory
  <2>1. /\ marker_0 \in BOOLEAN /\ config_0 \in BOOLEAN
        /\ summary_0 \in ManifestStatus
    BY DEF DirectoryOK
  <2> QED
    BY <1>1, <1>2, <1>a, <1>b, <1>c, <2>1 DEF DirectoryOK, Left
<1>6. /\ e.was.manifest = {manifest_0} /\ e.manifest = manifest_0
      /\ e.stage = "Abandoned" /\ e.recorded = d.recorded
      /\ e.file = file_0 /\ e.tail = tail_0 /\ e.damaged = d.damaged
      /\ \A s \in Stream : e.synced[s] = IF file_0[s] = -1 THEN 0 ELSE file_0[s]
  BY <1>1 DEF DirectoryOK, Left
<1>7. \A s \in Stream : e.synced[s] >= e.file[s] /\ e.file[s] <= e.recorded[s]
  <2> TAKE s \in Stream
  <2>1. e.file[s] = file_0[s] /\ e.recorded[s] = d.recorded[s]
    BY <1>6
  <2>2. CASE file_0[s] = -1
    BY <1>2, <1>4, <1>6, <2>1, <2>2
  <2>3. CASE file_0[s] \in Nat
    BY <1>2, <1>4, <1>6, <2>1, <2>3
  <2> QED
    BY <1>4, <2>2, <2>3
<1>8. \A s \in Stream : tail_0[s] = "Passing" => s \in Csv
  <2> SUFFICES ASSUME NEW s \in Stream, tail_0[s] = "Passing" PROVE s \in Csv
    OBVIOUS
  <2>1. tail_0[s] \in TornTails(s) \/ tail_0[s] = d.tail[s]
    BY <1>2, <1>4, <1>c DEF LeftTail
  <2> QED
    BY <2>1 DEF TornTails, DirectoryOK
<1>9. ASSUME manifest_0.status = "complete",
             NEW s \in Stream, s \notin d.damaged
      PROVE  tail_0[s] = "None"
  <2>1. /\ d.synced[s] >= d.file[s] /\ d.tail[s] = "None"
        /\ d.synced[s] \in Nat /\ d.file[s] \in Int
    BY <1>2, <1>9 DEF DirectoryOK
  <2>2. CASE file_0[s] = -1
    BY <1>c, <2>2 DEF LeftTail
  <2>3. CASE file_0[s] # -1
    <3>1. file_0[s] >= d.file[s] /\ file_0[s] \in Int
      BY <1>3, <2>1, <2>3 DEF LeftFile
    <3>2. ~(file_0[s] < d.file[s])
      BY <2>1, <3>1
    <3>3. tail_0[s] = d.tail[s]
      BY <1>c, <2>3, <3>1, <3>2 DEF LeftTail
    <3> QED
      BY <2>1, <3>3
  <2> QED
    BY <2>2, <2>3
<1>10. manifest_0.status = "complete" => manifest_0.counts = d.recorded
  BY DEF DirectoryOK
<1> QED
  BY <1>5, <1>6, <1>7, <1>8, <1>9, <1>10 DEF DirectoryOK

LEMMA DamagedOK ==
  ASSUME NEW d, DirectoryOK(d), NEW s \in Stream,
         NEW n \in Int, NEW tail, Shorter(d, s, n, tail)
  PROVE  DirectoryOK(Damaged(d, s, n, tail))
<1> DEFINE e == Damaged(d, s, n, tail)
<1>1. \A t \in Stream : /\ d.file[t] \in Int /\ d.recorded[t] \in Nat
                        /\ d.file[t] <= d.recorded[t]
                        /\ d.synced[t] \in Nat
  BY DEF DirectoryOK
<1>2. /\ n = -1 \/ n \in Nat
      /\ n <= d.recorded[s]
      /\ tail \in RowTail /\ (tail = "Passing" => s \in Csv)
  BY <1>1, RunLogAssumption DEF Shorter, TornTails
<1> DEFINE m == IF n = -1 THEN 0 ELSE n
<1>3. m \in Nat /\ m >= n
  BY <1>1, <1>2 DEF DirectoryOK
<1>a. /\ [d.file EXCEPT ![s] = n] \in [Stream -> Int]
      /\ [d.tail EXCEPT ![s] = tail] \in [Stream -> RowTail]
      /\ [d.synced EXCEPT ![s] = m] \in [Stream -> Nat]
      /\ d.damaged \cup {s} \in SUBSET Stream
  BY <1>2, <1>3 DEF DirectoryOK
<1>b. e = [d EXCEPT !.stage = "Abandoned", !.damaged = d.damaged \cup {s},
                    !.file = [d.file EXCEPT ![s] = n],
                    !.tail = [d.tail EXCEPT ![s] = tail],
                    !.synced = [d.synced EXCEPT ![s] = m]]
  BY DEF Damaged, DirectoryOK
<1> HIDE DEF m
<1>4. e \in RunDirectory
  <2> DEFINE file == [d.file EXCEPT ![s] = n]
             torn == [d.tail EXCEPT ![s] = tail]
             synced == [d.synced EXCEPT ![s] = m]
             damaged == d.damaged \cup {s}
  <2>1. /\ d \in RunDirectory
        /\ file \in [Stream -> Int] /\ torn \in [Stream -> RowTail]
        /\ synced \in [Stream -> Nat] /\ damaged \in SUBSET Stream
    BY <1>a DEF DirectoryOK
  <2>2. e = [d EXCEPT !.stage = "Abandoned", !.damaged = damaged,
                      !.file = file, !.tail = torn, !.synced = synced]
    BY <1>b
  <2> HIDE DEF file, torn, synced, damaged, e
  <2> QED
    BY <2>1, <2>2
<1>5. /\ e.was = d.was /\ e.manifest = d.manifest
      /\ e.stage = "Abandoned" /\ e.recorded = d.recorded
      /\ e.damaged = d.damaged \cup {s}
      /\ e.file = [d.file EXCEPT ![s] = n]
      /\ e.tail = [d.tail EXCEPT ![s] = tail]
      /\ e.synced = [d.synced EXCEPT ![s] = m]
  BY <1>b DEF DirectoryOK
<1>6. /\ DOMAIN d.file = Stream /\ DOMAIN d.tail = Stream
      /\ DOMAIN d.synced = Stream
  BY DEF DirectoryOK
<1> HIDE DEF e
<1>7. /\ e.file[s] = n /\ e.tail[s] = tail /\ e.synced[s] = m
      /\ \A t \in Stream \ {s} : /\ e.file[t] = d.file[t]
                                 /\ e.tail[t] = d.tail[t]
                                 /\ e.synced[t] = d.synced[t]
  BY <1>5, <1>6
<1>8. \A t \in Stream : e.file[t] <= e.recorded[t]
  BY <1>1, <1>2, <1>5, <1>7
<1>9. \A t \in Stream : d.synced[t] >= d.file[t] => e.synced[t] >= e.file[t]
  BY <1>3, <1>7
<1>10. \A t \in Stream :
         /\ t \notin e.damaged => t \notin d.damaged /\ e.tail[t] = d.tail[t]
         /\ e.tail[t] = "Passing" => t \in Csv
  BY <1>2, <1>5, <1>7 DEF DirectoryOK
<1>11. \A w \in e.was.manifest : w.status = "complete" =>
         /\ w.counts = e.recorded
         /\ \A t \in Stream : /\ e.synced[t] >= e.file[t]
                              /\ t \notin e.damaged => e.tail[t] = "None"
  BY <1>5, <1>9, <1>10 DEF DirectoryOK
<1> QED
  <2>1. e.manifest \in e.was.manifest
    BY <1>5 DEF DirectoryOK
  <2> QED
    BY <1>4, <1>5, <1>8, <1>10, <1>11, <2>1 DEF DirectoryOK, e

-----------------------------------------------------------------------------
(* The campaign.                                                           *)
LEMMA InitOK == Init => IInv
<1> SUFFICES ASSUME Init PROVE IInv
  OBVIOUS
<1>1. FlagsOK
  <2>1. 1 \in 1 .. RunCount + 1 /\ 0 \in 0 .. MaxLosses
    BY CampaignAssumption
  <2>2. /\ [r \in Run |-> "none"] \in [Run -> Note]
        /\ [r \in Run |-> FALSE] \in [Run -> BOOLEAN]
    BY DEF Note
  <2>3. [marker |-> {FALSE}, config |-> {FALSE}, summary |-> {"none"}]
          \in [marker : SUBSET BOOLEAN, config : SUBSET BOOLEAN,
               summary : SUBSET SummaryState]
    BY DEF SummaryState
  <2> QED
    BY <2>1, <2>2, <2>3 DEF Init, FlagsOK, CampaignStage, SummaryState
<1>2. DirsOK
  BY NoDirectoryOK DEF Init, DirsOK
<1>3. CampaignOK
  BY DEF Init, CampaignOK
<1> QED
  BY <1>1, <1>2, <1>3 DEF IInv

(* A step that changes one directory and keeps it well keeps them all.     *)
LEMMA OneDirectory ==
  ASSUME DirsOK, NEW r \in Run, NEW d, DirectoryOK(d),
         dirs' = [dirs EXCEPT ![r] = d]
  PROVE  DirsOK'
BY DEF DirsOK, Run

(* A step of the run under way, through its directory only.                  *)
LEMMA LogsOK ==
  ASSUME IInv, current \in Run, NEW d, DirectoryOK(d), Logs(d), OnlyDirs
  PROVE  IInv'
<1>1. DirsOK'
  BY OneDirectory DEF IInv, Logs
<1>2. FlagsOK' /\ CampaignOK'
  BY DEF IInv, FlagsOK, CampaignOK, OnlyDirs, disk, Run
<1> QED
  BY <1>1, <1>2 DEF IInv

(* The directory of the run under way is well kept.                          *)
LEMMA HereOK ==
  ASSUME IInv, current \in Run
  PROVE  DirectoryOK(Here)
BY DEF IInv, DirsOK, Here

(* The steps that set up and close the campaign.                           *)
LEMMA FrameOK ==
  ASSUME IInv, MakeDirectory \/ WriteMarker \/ WriteConfig \/ RemoveMarker
                 \/ Kill
  PROVE  IInv'
<1>1. dirs' = dirs /\ records' = records /\ success' = success
  BY DEF MakeDirectory, WriteMarker, WriteConfig, RemoveMarker, Kill
<1>2. DirsOK'
  BY <1>1 DEF IInv, DirsOK, Run
<1>3. FlagsOK'
  <2>1. /\ UNCHANGED <<current, losses>> /\ stage' \in CampaignStage
        /\ marker' \in BOOLEAN /\ config' \in BOOLEAN /\ crashed' \in BOOLEAN
        /\ summary' = summary
    BY DEF IInv, FlagsOK, MakeDirectory, WriteMarker, WriteConfig,
           RemoveMarker, Kill, CampaignStage, disk
  <2>2. was' \in [marker : SUBSET BOOLEAN, config : SUBSET BOOLEAN,
                  summary : SUBSET SummaryState]
    <3>1. CASE UNCHANGED was
      BY <3>1 DEF IInv, FlagsOK
    <3>2. CASE WriteMarker \/ RemoveMarker
      <4>1. PICK b \in BOOLEAN : was' = [was EXCEPT !.marker = @ \cup {b}]
        BY <3>2 DEF WriteMarker, RemoveMarker
      <4>2. was.marker \cup {b} \in SUBSET BOOLEAN
        BY DEF IInv, FlagsOK
      <4> QED
        BY <4>1, <4>2 DEF IInv, FlagsOK
    <3>3. CASE WriteConfig
      BY <3>3 DEF IInv, FlagsOK, WriteConfig
    <3> QED
      BY <3>1, <3>2, <3>3 DEF MakeDirectory, Kill, disk
  <2> QED
    BY <1>1, <2>1, <2>2 DEF IInv, FlagsOK, Run
<1>4. CampaignOK'
  BY <1>1 DEF IInv, FlagsOK, CampaignOK, MakeDirectory, WriteMarker,
              WriteConfig, RemoveMarker, Kill, disk, Run, Alive, CampaignStage
<1> QED
  BY <1>2, <1>3, <1>4 DEF IInv

(* A run is noted once it has ended.                                         *)
LEMMA NoteRunOK ==
  ASSUME IInv, NoteRun
  PROVE  IInv'
<1>1. dirs' = dirs /\ UNCHANGED disk /\ UNCHANGED losses /\ UNCHANGED crashed
  BY DEF NoteRun
<1>2. stage = "Running" /\ current \in Run
  BY DEF NoteRun, AtRun
<1>3. stage' = "Running" /\ current' = current + 1
  BY DEF NoteRun, AfterFailure
<1>4. records' \in [Run -> Note] /\ success' \in [Run -> BOOLEAN]
  BY <1>2 DEF NoteRun, IInv, FlagsOK, Note
<1>5. current' \in 1 .. RunCount + 1
  BY <1>2, <1>3, CampaignAssumption DEF Run
<1>6. FlagsOK'
  BY <1>1, <1>3, <1>4, <1>5 DEF IInv, FlagsOK, CampaignStage, disk, Run
<1>7. DirsOK'
  BY <1>1 DEF IInv, DirsOK, Run
<1>8. CampaignOK'
  BY <1>1, <1>2 DEF IInv, CampaignOK, disk
<1> QED
  BY <1>6, <1>7, <1>8 DEF IInv

(* The summary says what the records and the directories bear out.           *)
LEMMA JudgeOK ==
  ASSUME IInv, Judge
  PROVE  IInv'
<1>1. /\ UNCHANGED <<dirs, current, records, success, marker, config, losses,
                     crashed>>
      /\ stage' = "Judged" /\ summary' \in {"passed", "failed"}
      /\ summary' = "passed" => Accepted
      /\ was' = [was EXCEPT !.summary = @ \cup {summary'}]
      /\ stage = "Running"
  BY DEF Judge
<1>2. DirsOK'
  BY <1>1 DEF IInv, DirsOK, Run
<1>3. was'.summary = was.summary \cup {summary'}
  BY <1>1 DEF IInv, FlagsOK
<1>4. FlagsOK'
  BY <1>1, <1>3 DEF IInv, FlagsOK, CampaignStage, SummaryState, Run
<1>5. "passed" \notin was.summary
  BY <1>1 DEF IInv, CampaignOK
<1>6. CampaignOK'
  BY <1>1, <1>3, <1>5 DEF CampaignOK, Accepted, Run
<1> QED
  BY <1>2, <1>4, <1>6 DEF IInv

(* What a loss of power brings back was well kept when it was written.       *)
LEMMA LosePowerOK ==
  ASSUME IInv, LosePower
  PROVE  IInv'
<1>1. PICK r \in Run : \E d \in Leftovers(dirs[r]) :
        dirs' = [dirs EXCEPT ![r] = d]
  BY DEF LosePower
<1>2. DirsOK'
  BY <1>1, LeftOK, OneDirectory DEF IInv, DirsOK
<1>3. PICK m \in was.marker, c \in was.config, v \in was.summary :
        /\ marker' = m /\ config' = c /\ summary' = v
        /\ was' = [marker |-> {m}, config |-> {c}, summary |-> {v}]
  BY DEF LosePower
<1>4. /\ stage' = "Down" /\ crashed' = TRUE
      /\ losses < MaxLosses /\ losses' = losses + 1
      /\ UNCHANGED <<current, records, success>>
  BY DEF LosePower
<1>5. m \in BOOLEAN /\ c \in BOOLEAN /\ v \in SummaryState
  BY DEF IInv, FlagsOK
<1>6. losses' \in 0 .. MaxLosses
  BY <1>4, CampaignAssumption DEF IInv, FlagsOK
<1>7. was' \in [marker : SUBSET BOOLEAN, config : SUBSET BOOLEAN,
                summary : SUBSET SummaryState]
  BY <1>3, <1>5
<1>8. FlagsOK'
  BY <1>3, <1>4, <1>5, <1>6, <1>7 DEF IInv, FlagsOK, CampaignStage, Run
<1>9. CampaignOK'
  BY <1>3, <1>4 DEF IInv, CampaignOK, Run
<1> QED
  BY <1>2, <1>8, <1>9 DEF IInv

(* Damage only takes records away.                                           *)
LEMMA DamageOK ==
  ASSUME IInv, Damage
  PROVE  IInv'
<1>1. PICK r \in Run, s \in Stream, n \in Absent .. MaxRecords,
           tail \in RowTail :
        /\ Shorter(dirs[r], s, n, tail)
        /\ dirs' = [dirs EXCEPT ![r] = Damaged(@, s, n, tail)]
  BY DEF Damage
<1>2. DirectoryOK(Damaged(dirs[r], s, n, tail))
  BY <1>1, DamagedOK, CampaignAssumption DEF IInv, DirsOK
<1>3. DirsOK'
  BY <1>1, <1>2, OneDirectory DEF IInv
<1>4. /\ losses < MaxLosses /\ losses' = losses + 1
      /\ UNCHANGED <<stage, current, records, success, disk, crashed>>
  BY DEF Damage
<1>5. losses' \in 0 .. MaxLosses
  BY <1>4, CampaignAssumption DEF IInv, FlagsOK
<1>6. FlagsOK' /\ CampaignOK'
  BY <1>4, <1>5 DEF IInv, FlagsOK, CampaignOK, disk, Run
<1> QED
  BY <1>3, <1>6 DEF IInv

(* An interrupted campaign gives up the run it is at.                        *)
LEMMA InterruptOK ==
  ASSUME IInv, Interrupt
  PROVE  IInv'
<1>1. PICK d \in Broken(Here) : Logs(d)
  BY DEF Interrupt
<1>2. DirectoryOK(d) /\ current \in Run
  BY <1>1, HereOK, BrokenOK DEF Interrupt
<1>3. DirsOK'
  BY <1>1, <1>2, OneDirectory DEF IInv, Logs
<1>4. FlagsOK' /\ CampaignOK'
  BY DEF Interrupt, IInv, FlagsOK, CampaignOK, disk, Run, CampaignStage
<1> QED
  BY <1>3, <1>4 DEF IInv

(* The steps of a run, each through the lemma of its operation.              *)
LEMMA RunStepOK ==
  ASSUME IInv,
         \/ CreateRun \/ SetUpRun \/ FinalizeRun \/ BreakRun
         \/ \E s \in Stream : OpenStream(s) \/ Record(s)
  PROVE  IInv'
<1>1. CASE CreateRun
  BY <1>1, HereOK, MadeOK, LogsOK DEF CreateRun, AtRun, Here
<1>2. CASE SetUpRun
  BY <1>2, HereOK, MarkedOK, ConfiguredOK, DescribedOK, AnnouncedOK, LogsOK
  DEF SetUpRun, AtRun, Here
<1>3. CASE FinalizeRun
  BY <1>3, HereOK, CheckpointedOK, SummedOK, SealedOK, UnmarkedOK, LogsOK
  DEF FinalizeRun, AtRun, Here
<1>4. CASE BreakRun
  BY <1>4, HereOK, BrokenOK, LogsOK DEF BreakRun
<1>5. ASSUME NEW s \in Stream, OpenStream(s)
      PROVE  IInv'
  BY <1>5, HereOK, OpenedOK, LogsOK DEF OpenStream, AtRun, Here
<1>6. ASSUME NEW s \in Stream, Record(s)
      PROVE  IInv'
  BY <1>6, HereOK, RecordedOK, LogsOK DEF Record, AtRun, Here
<1> QED
  BY <1>1, <1>2, <1>3, <1>4, <1>5, <1>6

(* A step that changes nothing.                                              *)
LEMMA StutterOK ==
  ASSUME IInv, UNCHANGED vars
  PROVE  IInv'
<1>1. DirsOK'
  BY DEF IInv, DirsOK, vars, Run
<1>2. FlagsOK' /\ CampaignOK'
  BY DEF IInv, FlagsOK, CampaignOK, vars, Run
<1> QED
  BY <1>1, <1>2 DEF IInv

(* Whatever run_campaign does and whatever happens to it, every directory    *)
(* is well kept, and only a campaign whose runs all succeeded has passed.    *)
THEOREM Inductive == Spec => []IInv
<1>1. IInv /\ [Next]_vars => IInv'
  BY FrameOK, NoteRunOK, JudgeOK, LosePowerOK, DamageOK, InterruptOK,
     RunStepOK, StutterOK
  DEF Next, Progress
<1> QED
  BY InitOK, <1>1, PTL DEF Spec

-----------------------------------------------------------------------------
(* Every directory and every variable of run_campaign is well-formed.        *)
THEOREM TypeCorrect == Spec => []TypeOK
<1>1. IInv => TypeOK
  BY DEF IInv, FlagsOK, DirsOK, DirectoryOK, TypeOK
<1> QED
  BY Inductive, <1>1, PTL

(* The counts of a complete manifest leave a torn row one place.           *)
LEMMA CountsKeep ==
  ASSUME NEW d, DirectoryOK(d), d.manifest.status = "complete", CountsMatch(d)
  PROVE  Kept(d)
<1> SUFFICES ASSUME NEW s \in Stream
             PROVE  Whole(d, s) \/ LastFieldCut(d, s)
  BY DEF Kept
<1>1. /\ d.manifest.counts = d.recorded
      /\ s \notin d.damaged => d.tail[s] = "None"
      /\ d.tail[s] = "Passing" => s \in Csv
      /\ d.tail[s] \in RowTail
      /\ d.file[s] \in Int /\ d.recorded[s] \in Nat
  BY DEF DirectoryOK
<1>2. d.tail[s] # "Broken" /\ Rows(d, s) = d.recorded[s]
  BY <1>1 DEF CountsMatch
<1>3. CASE d.tail[s] = "None"
  <2>1. d.file[s] = d.recorded[s]
    BY <1>2, <1>3 DEF Rows
  <2> QED
    BY <1>3, <2>1 DEF Whole
<1>4. CASE d.tail[s] = "Passing"
  <2>1. d.file[s] + 1 = d.recorded[s]
    BY <1>2, <1>4 DEF Rows
  <2>2. d.file[s] = d.recorded[s] - 1
    BY <1>1, <2>1
  <2> QED
    BY <1>1, <1>4, <2>2 DEF LastFieldCut
<1> QED
  BY <1>1, <1>2, <1>3, <1>4

(* What RunReplay accepts as complete has every record RunLogger has       *)
(* taken, but for what somebody has cut off the last field of a table.     *)
THEOREM VerdictIsSound == Spec => []VerdictSound
<1>1. IInv => VerdictSound
  <2> SUFFICES ASSUME IInv, NEW r \in Run, Verdict(dirs[r]) = "complete"
               PROVE  Kept(dirs[r])
    BY DEF VerdictSound
  <2>1. DirectoryOK(dirs[r])
    BY DEF IInv, DirsOK
  <2>2. dirs[r].manifest.status = "complete" /\ CountsMatch(dirs[r])
    BY <2>1 DEF Verdict, DirectoryOK
  <2> QED
    BY <2>1, <2>2, CountsKeep
<1> QED
  BY Inductive, <1>1, PTL

(* What inspect_campaign accepts has succeeded, in every run, and has all  *)
(* its records but for the same.                                           *)
THEOREM AcceptanceIsSound == Spec => []AcceptanceSound
<1>1. IInv /\ VerdictSound => AcceptanceSound
  BY DEF IInv, CampaignOK, AcceptanceSound, Passed, VerdictSound
<1> QED
  BY Inductive, VerdictIsSound, <1>1, PTL

(* finalize makes the records safe before any manifest says complete.        *)
THEOREM RecordsAreSafe == Spec => []SafeBeforeSealed
<1>1. IInv => SafeBeforeSealed
  BY DEF IInv, DirsOK, DirectoryOK, SafeBeforeSealed
<1> QED
  BY Inductive, <1>1, PTL
=============================================================================
