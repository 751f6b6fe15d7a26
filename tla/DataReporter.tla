----------------------------- MODULE DataReporter -----------------------------
(***************************************************************************)
(* The files of src/src/data_reporter.cpp: one per entity and hour, opened *)
(* when a record asks for another file than the one before, written line   *)
(* by line, and found again by the next process when this one dies.        *)
(*                                                                         *)
(* report() holds the mutex from its first step to its last, so that the   *)
(* records follow one another, whoever reports them; what goes on in       *)
(* between are the clock, the failures of the disk, and a kill.            *)
(***************************************************************************)
EXTENDS Naturals, Sequences

CONSTANTS
    SEs,         \* the names of the supervised entities
    Hours,       \* the hours a name is made of
    MaxRecords   \* bound: the records that are reported

ASSUME ReporterAssumption == MaxRecords \in Nat

Names  == SEs \X Hours
NoName == <<>>      \* current_filename_ before a file was opened

\* A file is what was appended to it: records, whole or torn, by number.
Piece == [record : 1 .. MaxRecords, whole : BOOLEAN]

VARIABLES
    pc,                  \* where report() is, "idle" between two calls
    filename,            \* the name report() has made
    stream,              \* file_stream_: "closed", "good", or "bad" (is open, but failed)
    buffer,              \* the record a failed write left in its buffer, or 0
    current_filename_,
    files,               \* the disk
    hour,                \* the clock
    \* History, read by no step of the code.
    place,               \* the file each record belongs to
    damaged              \* the files on which something has failed

reporterVars == <<pc, filename, stream, buffer, current_filename_, files, hour, place, damaged>>

number == Len(place)   \* of the last record

ReporterInit ==
    /\ pc = "idle" /\ filename = NoName
    /\ stream = "closed" /\ buffer = 0 /\ current_filename_ = NoName
    /\ files = [f \in Names |-> <<>>]
    /\ hour \in Hours
    /\ place = <<>> /\ damaged = {}

-----------------------------------------------------------------------------
(* report() *)

\* getHourlyFilename
reportBegin(se) ==
    /\ pc = "idle" /\ number < MaxRecords
    /\ pc' = "open"
    /\ filename' = <<se, hour>>
    /\ place' = Append(place, filename')
    /\ UNCHANGED <<stream, buffer, current_filename_, files, hour, damaged>>

\* Mutants: whether the stream is open is not asked; nor is of which file.
RightByName == current_filename_ = filename
RightIfOpen == stream # "closed"

RightFile == stream # "closed" /\ current_filename_ = filename

openAlready ==
    /\ pc = "open" /\ RightFile
    /\ pc' = "write"
    /\ UNCHANGED <<filename, stream, buffer, current_filename_, files, hour, place, damaged>>

Add(f, n, whole) ==
    files' = [files EXCEPT ![f] = Append(@, [record |-> n, whole |-> whole])]

Damage(f) == damaged' = damaged \cup {f}

\* A write of record n to f fails, after none or some of it.
Fails(f, n) ==
    /\ Damage(f)
    /\ UNCHANGED files \/ Add(f, n, FALSE)

\* close() tries once more to write what the buffer holds.
Close ==
    /\ stream' = "closed" /\ buffer' = 0
    /\ \/ buffer = 0 /\ UNCHANGED <<files, damaged>>
       \/ buffer # 0 /\ Fails(current_filename_, buffer)
       \/ buffer # 0 /\ Add(current_filename_, buffer, TRUE) /\ UNCHANGED damaged

openClose ==
    /\ pc = "open" /\ ~RightFile
    /\ pc' = "reopen"
    /\ IF stream = "closed" THEN UNCHANGED <<stream, buffer, files, damaged>> ELSE Close
    /\ UNCHANGED <<filename, current_filename_, hour, place>>

\* ensureDir, or the file itself.
Refused ==
    /\ Damage(filename)
    /\ UNCHANGED <<stream, current_filename_>>

\* What opens is good.
openFile ==
    /\ pc = "reopen"
    /\ pc' = "write"
    /\ \/ /\ stream' = "good" /\ current_filename_' = filename
          /\ UNCHANGED damaged
       \/ Refused
    /\ UNCHANGED <<filename, buffer, files, hour, place>>

\* Without an open file report() returns; a stream that has failed takes
\* nothing, until it is opened again.
write ==
    /\ pc = "write"
    /\ pc' = "idle"
    /\ \/ stream # "good" /\ UNCHANGED <<stream, buffer, files, damaged>>
       \/ /\ stream = "good"
          /\ Add(filename, number, TRUE)
          /\ UNCHANGED <<stream, buffer, damaged>>
       \/ /\ stream = "good"
          /\ Fails(filename, number)
          /\ stream' = "bad" /\ buffer' = number
    /\ UNCHANGED <<filename, current_filename_, hour, place>>

-----------------------------------------------------------------------------
(* The rest of the world *)

clock ==
    /\ hour' \in Hours   \* also back: the time is local
    /\ UNCHANGED <<pc, filename, stream, buffer, current_filename_, files, place, damaged>>

\* ~Impl
destroy ==
    /\ pc = "idle"
    /\ pc' = "down"
    /\ IF stream = "closed" THEN UNCHANGED <<stream, buffer, files, damaged>> ELSE Close
    /\ UNCHANGED <<filename, current_filename_, hour, place>>

\* The process is killed, perhaps in the middle of a line.
killed ==
    /\ pc # "down"
    /\ pc' = "down"
    /\ stream' = "closed" /\ buffer' = 0
    /\ damaged' = damaged \cup (IF pc = "idle" THEN {} ELSE {filename})
    /\ \/ UNCHANGED files
       \/ pc = "write" /\ stream = "good" /\ Add(filename, number, FALSE)
    /\ UNCHANGED <<filename, current_filename_, hour, place>>

\* The constructor.  Both ways down have closed the stream.
launch ==
    /\ pc = "down"
    /\ pc' = "idle"
    /\ current_filename_' = NoName
    /\ UNCHANGED <<filename, stream, buffer, files, hour, place, damaged>>

-----------------------------------------------------------------------------
report == \/ \E se \in SEs : reportBegin(se)
          \/ openAlready \/ openClose \/ openFile \/ write

ReporterNext == report \/ clock \/ destroy \/ killed \/ launch

ReporterSpec == ReporterInit /\ [][ReporterNext]_reporterVars

-----------------------------------------------------------------------------
(* Properties *)

ReporterTypeOK ==
    /\ pc \in {"idle", "open", "reopen", "write", "down"}
    /\ filename \in Names \cup {NoName}
    /\ stream \in {"closed", "good", "bad"}
    /\ buffer \in 0 .. MaxRecords /\ (buffer # 0 <=> stream = "bad")
    /\ current_filename_ \in Names \cup {NoName}
    /\ files \in [Names -> Seq(Piece)]
    /\ hour \in Hours
    /\ place \in Seq(Names) /\ number <= MaxRecords
    /\ damaged \subseteq Names

UnderWay(n) == n = number /\ pc \in {"open", "reopen", "write"}

(***************************************************************************)
(* A failure of one file costs no record of another: where neither the     *)
(* opening nor a write has failed, and no kill fell into a report, each    *)
(* record reported is in the file of its entity and hour, whole and once   *)
(* (openFile, lines 145-167, however the files before it ended).           *)
(***************************************************************************)
Holds(f, n) ==
    \E i \in DOMAIN files[f] :
        /\ files[f][i] = [record |-> n, whole |-> TRUE]
        /\ \A j \in DOMAIN files[f] : files[f][j].record = n => j = i

SoundFilesAreComplete ==
    \A n \in DOMAIN place :
        place[n] \notin damaged => UnderWay(n) \/ Holds(place[n], n)

(***************************************************************************)
(* Also a file that was damaged holds only records of its entity and hour, *)
(* in the order of their reports, none of them whole twice: what a failed  *)
(* write left in the buffer goes to its own file or nowhere (lines 118,    *)
(* 119 and 152-154).                                                       *)
(***************************************************************************)
FilesAreInOrder ==
    \A f \in Names : \A i \in DOMAIN files[f] :
        /\ place[files[f][i].record] = f
        /\ \A j \in 1 .. i - 1 :
              \/ files[f][j].record < files[f][i].record
              \/ files[f][j].record = files[f][i].record /\ ~files[f][j].whole

=============================================================================
