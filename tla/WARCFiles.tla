----------------------------- MODULE WARCFiles ------------------------------
(***************************************************************************)
(* The archive a crawl or a recrawl writes (ccrawl/warcwrite.go): captures *)
(* are appended, a file that is full gives way to the next free name, and  *)
(* Sync puts the current file on the platter.  Several writers, of one     *)
(* process or of two, may share the directory.                             *)
(*                                                                         *)
(* A capture is a pair of records, written by one call; its size includes  *)
(* both.  A power cut takes what was not synced, or some of it.            *)
(***************************************************************************)
EXTENDS Integers, Sequences, FiniteSets, SequencesExt

CONSTANTS
  Archivers,      \* the writers
  CaptureSizes,
  InfoSize,       \* of the warcinfo record a file begins with
  WARCMaxSize,
  CapturesMax,    \* bound of the model
  ArchiveFaults   \* bound of the model

ASSUME ArchiveAssumption ==
  /\ CaptureSizes \subseteq Nat \ {0} /\ {InfoSize, WARCMaxSize, CapturesMax} \subseteq Nat \ {0}
  /\ ArchiveFaults \in Nat

VARIABLES
  archive,       \* name -> [captures, synced]: synced many of them are on the platter
  archiver,      \* writer -> [name, seq, written, fileRecords]; name 0 is no file
  captures,      \* how many were written
  archiveFaults

archiveVars == <<archive, archiver, captures, archiveFaults>>

Closed == [name |-> 0, seq |-> 1, written |-> 0, fileRecords |-> 0]

Size(file) == InfoSize + FoldLeft(LAMBDA sum, c : sum + c.size, 0, file.captures)

ArchiveTypeOK ==
  /\ \A n \in DOMAIN archive : archive[n].synced <= Len(archive[n].captures)
  /\ \A a \in Archivers : archiver[a].name \in DOMAIN archive \union {0}
  /\ \A a \in Archivers : archiver[a].name > 0 =>
       /\ Size(archive[archiver[a].name]) = archiver[a].written
       /\ Len(archive[archiver[a].name].captures) >= archiver[a].fileRecords

ArchiveInit ==
  /\ archive = <<>> /\ archiver = [a \in Archivers |-> Closed] /\ archiveFaults = 0
  /\ captures = 0

ArchiveFault == archiveFaults < ArchiveFaults /\ archiveFaults' = archiveFaults + 1

\* Mutant: the name that is next, whoever has it.
NextName(files, seq) == seq
\* The first name nobody has used: names are taken in order.
FreeName(files, seq) == CHOOSE n \in seq .. seq + Cardinality(DOMAIN files) :
                          n \notin DOMAIN files /\ \A k \in seq .. n - 1 : k \in DOMAIN files

Opened(w, files) == [name |-> FreeName(files, w.seq), seq |-> FreeName(files, w.seq),
                     written |-> InfoSize, fileRecords |-> 0]

NoCaptures == [captures |-> <<>>, synced |-> 0]
WithFile(files, name) ==
  [n \in DOMAIN files \union {name} |-> IF n = name THEN NoCaptures ELSE files[n]]

\* Mutant: a capture is let in as long as the file is not full yet.
RotatesLate(w, size) == w.fileRecords > 0 /\ w.written >= WARCMaxSize
\* "Rotating a file with nothing in it would loop forever".
Rotates(w, size) == w.fileRecords > 0 /\ w.written + size > WARCMaxSize

\* open if nothing is, rotate if it is full, then both records of the capture; a write that
\* fails leaves some of it, which is no capture.
WriteCapture(a, size) ==
  LET new == archiver[a].name = 0
      opened == IF new THEN Opened(archiver[a], archive) ELSE archiver[a]
      files1 == IF new THEN WithFile(archive, opened.name) ELSE archive
      rotate == Rotates(opened, size)
      writer == IF rotate THEN Opened([opened EXCEPT !.seq = @ + 1], files1) ELSE opened
      files2 == IF rotate THEN WithFile(files1, writer.name) ELSE files1
  IN /\ captures < CapturesMax /\ captures' = captures + 1
     /\ \E torn \in BOOLEAN :
          LET c == [by |-> a, n |-> captures + 1, torn |-> torn, size |-> IF torn THEN size - 1 ELSE size]
          IN /\ IF torn THEN ArchiveFault ELSE UNCHANGED archiveFaults
             /\ archive' = [files2 EXCEPT ![writer.name].captures = Append(@, c)]
             /\ archiver' = [archiver EXCEPT ![a] =
                  [writer EXCEPT !.written = @ + c.size, !.fileRecords = @ + IF torn THEN 0 ELSE 1]]

\* The file that is open; the ones before it were closed and no more.
SyncArchive(a) ==
  /\ archiver[a].name > 0
  /\ archive' = [archive EXCEPT ![archiver[a].name].synced =
                   Len(archive[archiver[a].name].captures)]
  /\ UNCHANGED <<archiver, captures, archiveFaults>>

CloseArchive(a) ==
  /\ archiver[a].name > 0
  /\ archiver' = [archiver EXCEPT ![a] = [@ EXCEPT !.name = 0]]
  /\ UNCHANGED <<archive, captures, archiveFaults>>

\* A process that starts again counts from the beginning.
ArchiverKilled(a) ==
  /\ ArchiveFault /\ archiver[a] # Closed /\ archiver' = [archiver EXCEPT ![a] = Closed]
  /\ UNCHANGED <<archive, captures>>

\* What was not synced may be gone.
PowerCut ==
  /\ ArchiveFault /\ DOMAIN archive # {}
  /\ \E keeps \in [DOMAIN archive -> 0 .. CapturesMax] :
       /\ \A n \in DOMAIN archive : keeps[n] \in archive[n].synced .. Len(archive[n].captures)
       /\ archive' = [n \in DOMAIN archive |->
            [archive[n] EXCEPT !.captures = SubSeq(@, 1, keeps[n])]]
  /\ archiver' = [a \in Archivers |-> Closed]
  /\ UNCHANGED captures

ArchiveNext ==
  \/ PowerCut
  \/ \E a \in Archivers :
       SyncArchive(a) \/ CloseArchive(a) \/ ArchiverKilled(a) \/ \E s \in CaptureSizes : WriteCapture(a, s)

(***************************************************************************)
(* Properties.                                                             *)
(***************************************************************************)

\* No writer, of this process or another or started again, writes over what a file holds:
\* otherwise "one of them would lose its records" (warcwrite.go:222).
CapturesStay ==
  archiveFaults' = archiveFaults =>
    \A n \in DOMAIN archive : n \in DOMAIN archive' /\ IsPrefix(archive[n].captures, archive'[n].captures)

\* A file is no larger than it may be, unless it holds a single capture, and none is empty.
FilesFit ==
  \A n \in DOMAIN archive :
    /\ Size(archive[n]) > WARCMaxSize => Cardinality({c \in ToSet(archive[n].captures) : ~c.torn}) <= 1
    /\ archiveFaults = 0 => archive[n].captures # <<>>

\* Rotation and restarts keep what was written, in files of the size they may have.
ArchiveIsKept == [][ArchiveTypeOK' /\ CapturesStay /\ FilesFit']_archiveVars
=============================================================================
