------------------------------ MODULE Library -------------------------------
(* The dataset library: archives downloaded into a tree (ccrawl/download.go)    *)
(* and the manifest over it (ccrawl/manifest.go, cli/library.go), with several  *)
(* processes at once: downloads of different kinds, a scan of the tree and a    *)
(* collection of one kind.  A file is described by how much of it is there;     *)
(* checksums, sizes and ages are left out: the collection selects by kind.  Two *)
(* downloads of one archive at the same time, which would share a temporary     *)
(* file, are left out as well.                                                 *)
EXTENDS Integers, FiniteSets

CONSTANTS
  Archives,       \* the files that may be downloaded
  Downloaders,    \* the processes that download
  Lists,          \* what each of them downloads: Downloaders -> SUBSET Archives
  Collected,      \* the archives of the kind the collection deletes
  DownloadWorkers,
  NoProcess, Scanner, Collector,
  LibraryRuns,    \* how often each process is started: LibProcesses -> Nat
  LibraryFaults   \* kills, cancellations and failed downloads

ASSUME LibraryAssumption ==
  /\ Lists \in [Downloaders -> SUBSET Archives] /\ Collected \subseteq Archives
  /\ \A d, e \in Downloaders : d # e => Lists[d] \intersect Lists[e] = {}
  /\ Scanner # Collector /\ {Scanner, Collector} \intersect Downloaders = {}
  /\ NoProcess \notin Downloaders \union {Scanner, Collector}
  /\ LibraryRuns \in [Downloaders \union {Scanner, Collector} -> Nat] /\ LibraryFaults \in Nat /\ DownloadWorkers \in Nat \ {0}

VARIABLES
  tree,      \* [file, tmp]: per archive "none", "half" or "whole", its .tmp "none" or "half"
  manifest,  \* per archive "none" or what its record says: "half" or "whole"
  strays,    \* the .tmp files the manifest holds as artifacts
  locked,    \* the process that holds library.lock
  task,      \* per process: [at, job, copy, strays, todo, runs, cut]
  libFaults,
  recorded   \* the archives a finished download recorded and nobody collected (history)

libraryVars == <<tree, manifest, strays, locked, task, libFaults, recorded>>

LibProcesses == Downloaders \union {Scanner, Collector}
NoFiles == [a \in Archives |-> "none"]
Idle(runs, cut) == [at |-> "idle", job |-> NoFiles, copy |-> NoFiles, strays |-> {},
                    todo |-> {}, runs |-> runs, cut |-> cut]

LibraryInit ==
  /\ tree = [file |-> NoFiles, tmp |-> NoFiles]
  /\ manifest = NoFiles /\ strays = {} /\ locked = NoProcess
  /\ task = [p \in LibProcesses |-> Idle(LibraryRuns[p], FALSE)]
  /\ libFaults = LibraryFaults /\ recorded = {}

Startable(p) == task[p].at = "idle" /\ task[p].runs > 0
LibFault == libFaults > 0 /\ libFaults' = libFaults - 1
Jobs(p, kinds) == {a \in Archives : task[p].job[a] \in kinds}

(* -------------------------------- downloads ------------------------------- *)
StartDownload(d) ==
  /\ Startable(d)
  /\ task' = [task EXCEPT ![d].at = "fetching", ![d].runs = @ - 1,
                          ![d].job = [a \in Archives |-> IF a \in Lists[d] THEN "todo" ELSE "none"]]
  /\ UNCHANGED <<tree, manifest, strays, locked, libFaults, recorded>>

\* Mutant: the body is written where the file belongs.
FetchInPlace(d, a) ==
  /\ task[d].at = "fetching" /\ task[d].job[a] = "todo"
  /\ Cardinality(Jobs(d, {"writing"})) < DownloadWorkers
  /\ IF tree.file[a] # "none" THEN task' = [task EXCEPT ![d].job[a] = "skipped"] /\ UNCHANGED tree
     ELSE /\ task' = [task EXCEPT ![d].job[a] = "writing"]
          /\ tree' = [tree EXCEPT !.file[a] = "half"]
  /\ UNCHANGED <<manifest, strays, locked, libFaults, recorded>>

(* A file that is there is skipped; else its .tmp is begun from nothing.       *)
Fetch(d, a) ==
  /\ task[d].at = "fetching" /\ task[d].job[a] = "todo"
  /\ Cardinality(Jobs(d, {"writing"})) < DownloadWorkers
  /\ IF tree.file[a] # "none" THEN task' = [task EXCEPT ![d].job[a] = "skipped"] /\ UNCHANGED tree
     ELSE /\ task' = [task EXCEPT ![d].job[a] = "writing"]
          /\ tree' = [tree EXCEPT !.tmp[a] = "half"]
  /\ UNCHANGED <<manifest, strays, locked, libFaults, recorded>>

(* The last byte is written and the .tmp renamed, if it is still there.        *)
Land(d, a) ==
  /\ task[d].at = "fetching" /\ task[d].job[a] = "writing"
  /\ IF tree.tmp[a] = "none" THEN task' = [task EXCEPT ![d].job[a] = "failed"] /\ UNCHANGED tree
     ELSE /\ task' = [task EXCEPT ![d].job[a] = "landed"]
          /\ tree' = [file |-> [tree.file EXCEPT ![a] = "whole"],
                      tmp |-> [tree.tmp EXCEPT ![a] = "none"]]
  /\ UNCHANGED <<manifest, strays, locked, libFaults, recorded>>

BodyFails(d, a) ==
  /\ LibFault /\ task[d].at = "fetching" /\ task[d].job[a] = "writing"
  /\ task' = [task EXCEPT ![d].job[a] = "failed"]
  /\ tree' = [tree EXCEPT !.tmp[a] = "none"]
  /\ UNCHANGED <<manifest, strays, locked, recorded>>

(* A cancelled download starts no further file and the open bodies fail.       *)
DownloadCancelled(d) ==
  /\ LibFault /\ task[d].at = "fetching"
  /\ task' = [task EXCEPT ![d].job = [a \in Archives |->
                CASE @[a] = "todo" -> "none" [] @[a] = "writing" -> "failed" [] OTHER -> @[a]]]
  /\ tree' = [tree EXCEPT !.tmp = [a \in Archives |->
                IF task[d].job[a] = "writing" THEN "none" ELSE @[a]]]
  /\ UNCHANGED <<manifest, strays, locked, recorded>>

DownloadDone(d) ==
  /\ task[d].at = "fetching" /\ Jobs(d, {"todo", "writing"}) = {}
  /\ task' = [task EXCEPT ![d].at = IF Jobs(d, {"landed", "skipped"}) = {} THEN "idle" ELSE "record"]
  /\ UNCHANGED <<tree, manifest, strays, locked, libFaults, recorded>>

(* ---------------------------- UpdateManifest ------------------------------ *)
\* Mutant: the manifest is read and written without the lock.
LockUnasked(p) == TRUE

LockAsked(p) == locked = NoProcess

Load(p) ==
  /\ task[p].at \in {"record", "scan", "collect"} /\ LockAsked(p)
  /\ locked' = p
  /\ task' = [task EXCEPT ![p].at = CASE @ = "record" -> "recording" [] @ = "scan" -> "scanning"
                                      [] OTHER -> "collecting",
                          ![p].copy = manifest, ![p].strays = strays]
  /\ UNCHANGED <<tree, manifest, strays, libFaults, recorded>>

(* Save renames a whole new manifest into place and the lock is dropped.       *)
Save(p) ==
  /\ task[p].at = "saving"
  /\ manifest' = task[p].copy /\ strays' = task[p].strays /\ locked' = NoProcess
  /\ recorded' = IF p = Collector THEN recorded \ Jobs(p, {"doomed"})
                 ELSE recorded \union {a \in Archives : task[p].copy[a] # "none"}
  /\ task' = [task EXCEPT ![p] = Idle(@.runs, FALSE)]
  /\ UNCHANGED <<tree, libFaults>>

(* What the run wrote is recorded as it is on disk now; a file it skipped keeps *)
(* the record it has, and a file that is gone is passed over.                  *)
Record(d) ==
  /\ task[d].at = "recording"
  /\ LET here == {a \in Jobs(d, {"landed", "skipped"}) : tree.file[a] # "none"}
         kept == {a \in Jobs(d, {"skipped"}) : task[d].copy[a] # "none"}
     IN task' = [task EXCEPT ![d].at = "saving",
                   ![d].copy = [a \in Archives |-> IF a \in here \ kept THEN tree.file[a] ELSE @[a]]]
  /\ UNCHANGED <<tree, manifest, strays, locked, libFaults, recorded>>

(* ---------------------------------- scan ---------------------------------- *)
StartScan ==
  /\ Startable(Scanner)
  /\ task' = [task EXCEPT ![Scanner].at = "scan", ![Scanner].runs = @ - 1,
                          ![Scanner].todo = {"file", "tmp"} \X Archives]
  /\ UNCHANGED <<tree, manifest, strays, locked, libFaults, recorded>>

(* Every file of a kind directory is an artifact, a .tmp as well.              *)
Visit(f) ==
  LET present == tree[f[1]][f[2]]
  IN /\ task[Scanner].at = "scanning" /\ f \in task[Scanner].todo
     /\ task' = [task EXCEPT ![Scanner].todo = @ \ {f},
                   ![Scanner].copy[f[2]] = IF f[1] = "file" /\ present # "none" THEN present ELSE @,
                   ![Scanner].strays = IF f[1] = "tmp" /\ present # "none" THEN @ \union {f[2]} ELSE @]
     /\ UNCHANGED <<tree, manifest, strays, locked, libFaults, recorded>>

ScanDone ==
  /\ task[Scanner].at = "scanning" /\ task[Scanner].todo = {}
  /\ task' = [task EXCEPT ![Scanner].at = "saving"]
  /\ UNCHANGED <<tree, manifest, strays, locked, libFaults, recorded>>

(* ----------------------------------- gc ----------------------------------- *)
(* The list of what to delete is made, and printed, before the lock.           *)
StartCollect ==
  /\ Startable(Collector)
  /\ LET doomed == {f \in {"file", "tmp"} \X Collected :
                      IF f[1] = "file" THEN manifest[f[2]] # "none" ELSE f[2] \in strays}
     IN task' = [task EXCEPT ![Collector].runs = @ - 1, ![Collector].todo = doomed,
                             ![Collector].job = [a \in Archives |->
                                IF <<"file", a>> \in doomed THEN "doomed" ELSE "none"],
                             ![Collector].at = IF doomed = {} THEN "idle" ELSE "collect"]
  /\ UNCHANGED <<tree, manifest, strays, locked, libFaults, recorded>>

\* Mutant: a file that is not there any more has no record to drop.
DropIfThere(copy, f) == IF tree.file[f[2]] = "none" THEN copy ELSE [copy EXCEPT ![f[2]] = "none"]

Drop(copy, f) == [copy EXCEPT ![f[2]] = "none"]

Delete(f) ==
  /\ task[Collector].at = "collecting" /\ f \in task[Collector].todo
  /\ tree' = [tree EXCEPT ![f[1]][f[2]] = "none"]
  /\ task' = [task EXCEPT ![Collector].todo = @ \ {f}, ![Collector].cut = TRUE,
                ![Collector].copy = IF f[1] = "file" THEN Drop(@, f) ELSE @,
                ![Collector].strays = IF f[1] = "tmp" THEN @ \ {f[2]} ELSE @]
  /\ UNCHANGED <<manifest, strays, locked, libFaults, recorded>>

CollectDone ==
  /\ task[Collector].at = "collecting" /\ task[Collector].todo = {}
  /\ task' = [task EXCEPT ![Collector].at = "saving"]
  /\ UNCHANGED <<tree, manifest, strays, locked, libFaults, recorded>>

(* A scan or a collection that is cancelled, or meets an error, saves nothing:  *)
(* the files it deleted are gone and their records are not.                    *)
UpdateCut(p) ==
  /\ LibFault /\ task[p].at \in {"scanning", "collecting"}
  /\ locked' = NoProcess
  /\ task' = [task EXCEPT ![p] = Idle(@.runs, @.cut)]
  /\ UNCHANGED <<tree, manifest, strays, recorded>>

LibraryKilled(p) ==
  /\ LibFault /\ task[p].at # "idle"
  /\ locked' = IF locked = p THEN NoProcess ELSE locked
  /\ task' = [task EXCEPT ![p] = Idle(@.runs, @.cut)]
  /\ UNCHANGED <<tree, manifest, strays, recorded>>

LibraryNext ==
  \/ \E d \in Downloaders :
       \/ StartDownload(d) \/ DownloadCancelled(d) \/ DownloadDone(d) \/ Record(d)
       \/ \E a \in Archives : Fetch(d, a) \/ Land(d, a) \/ BodyFails(d, a)
  \/ \E p \in LibProcesses : Load(p) \/ Save(p) \/ UpdateCut(p) \/ LibraryKilled(p)
  \/ StartScan \/ ScanDone \/ StartCollect \/ CollectDone
  \/ \E f \in {"file", "tmp"} \X Archives : Visit(f) \/ Delete(f)

LibrarySpec == LibraryInit /\ [][LibraryNext]_libraryVars

(* -------------------------------- properties ------------------------------ *)
LibraryTypeOK ==
  /\ tree \in [file : [Archives -> {"none", "half", "whole"}], tmp : [Archives -> {"none", "half"}]]
  /\ manifest \in [Archives -> {"none", "half", "whole"}] /\ strays \subseteq Archives
  /\ locked \in LibProcesses \union {NoProcess}

(* An archive is in its place whole or not at all, whoever was killed when, and *)
(* so is never skipped, scanned or recorded half downloaded.                   *)
ArchivesAreWhole == \A a \in Archives : tree.file[a] # "half" /\ manifest[a] # "half"

(* What a download or a scan recorded stays recorded until a collection takes   *)
(* it: two processes that finish together do not lose each other's records.    *)
NoLostRecord == recorded \subseteq {a \in Archives : manifest[a] # "none"}

(* A record without its file is the trace of a collection that was cut off, or  *)
(* is about to save, and the next one that ends clears it.                     *)
MissingOnlyAfterCut ==
  \A a \in Archives : manifest[a] # "none" /\ tree.file[a] = "none" => task[Collector].cut

(* Tree and manifest agree as far as processes that share them can make them.   *)
ManifestIsTrue ==
  LibraryTypeOK /\ ArchivesAreWhole /\ NoLostRecord /\ MissingOnlyAfterCut

(* -------------------------- the inductive invariant ----------------------- *)
Amounts == {"none", "half", "whole"}

TaskRecords ==
  [at : {"idle", "fetching", "record", "recording", "scan", "scanning", "collect", "collecting",
         "saving"},
   job : [Archives -> {"none", "todo", "writing", "landed", "skipped", "failed", "doomed"}],
   copy : [Archives -> Amounts], strays : SUBSET Archives,
   todo : SUBSET ({"file", "tmp"} \X Archives), runs : Int, cut : BOOLEAN]

LibraryTyped ==
  /\ LibraryTypeOK /\ task \in [LibProcesses -> TaskRecords]
  /\ recorded \subseteq Archives

(* Every process is where its own kind of work takes it.                       *)
PlacesApart ==
  /\ \A d \in Downloaders : task[d].at \in {"idle", "fetching", "record", "recording", "saving"}
  /\ task[Scanner].at \in {"idle", "scan", "scanning", "saving"}
  /\ task[Collector].at \in {"idle", "collect", "collecting", "saving"}

(* The lock is held from the load to the save, by one process.                 *)
Updating == {"recording", "scanning", "collecting", "saving"}
LockGuards == \A p \in LibProcesses : task[p].at \in Updating <=> locked = p

(* Who updates has a whole copy, that lacks no record but those it collects,    *)
(* and that adds none for an archive that is not there.                        *)
Doomed(a) == task[Collector].job[a] = "doomed"
CopiesAreTrue ==
  \A p \in LibProcesses : task[p].at \in Updating =>
    \A a \in Archives :
      /\ task[p].copy[a] # "half"
      /\ manifest[a] # "none" => task[p].copy[a] # "none" \/ (p = Collector /\ Doomed(a))
      /\ task[p].copy[a] # "none" => manifest[a] # "none" \/ tree.file[a] # "none"

(* What the collection still has to delete are its own archives, and records    *)
(* without a file are among them until it saves.                               *)
Lapsed(records) == {a \in Archives : records[a] # "none" /\ tree.file[a] = "none"}
CollectionClears ==
  /\ Lapsed(manifest) \subseteq Collected
  /\ \A a \in Archives : <<"file", a>> \in task[Collector].todo => Doomed(a) /\ a \in Collected
  /\ task[Collector].at = "collect" => \A a \in Lapsed(manifest) : <<"file", a>> \in task[Collector].todo
  /\ task[Collector].at = "collecting" =>
       \A a \in Lapsed(task[Collector].copy) : <<"file", a>> \in task[Collector].todo
  /\ task[Collector].at = "saving" => Lapsed(task[Collector].copy) = {}

LibraryInv ==
  /\ LibraryTyped /\ PlacesApart /\ LockGuards /\ CopiesAreTrue /\ CollectionClears
  /\ ManifestIsTrue
=============================================================================
