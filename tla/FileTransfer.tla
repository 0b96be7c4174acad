---------------------------- MODULE FileTransfer ----------------------------
(***************************************************************************)
(* One job of the file manager, libs/hbb_common/src/fs.rs with its two     *)
(* ends: the client (src/client/io_loop.rs) and the server's connection,   *)
(* which reads itself (src/server/connection.rs) and lets the connection   *)
(* manager write (src/ui_cm_interface.rs).  In an upload the client reads, *)
(* in a download it writes.  The reader announces each file by a digest,   *)
(* waits until the file is confirmed or skipped, and then sends it in      *)
(* blocks; the writer collects them in `name.download', beside a           *)
(* `name.digest', and renames it when the next file begins or all is done. *)
(* The connection may be lost at any time; the client then remembers how   *)
(* far it was and may resume the job, or start a new one.  Any operation   *)
(* on a file may fail (IoErrors), and most of their errors are ignored.    *)
(*                                                                         *)
(* A file's content is the sequence of its blocks, each with the version   *)
(* of the source it was read from; the digest (size and time of            *)
(* modification) identifies the version.  Left out: printer jobs, peers    *)
(* older than overwrite detection, and further jobs, which wait for this   *)
(* one (handle_read_jobs).                                                 *)
(***************************************************************************)
EXTENDS Naturals, Sequences, FiniteSets

CONSTANTS NFiles,        \* files of the job
          Size,          \* their numbers of blocks
          Directions,    \* "upload", "download"
          MaxVersion,    \* how often the source is modified, plus one
          MaxJobs,       \* jobs started or resumed
          MaxQueue,      \* messages under way, each way
          IoErrors       \* do file operations fail?

ASSUME NFilesAssumption == NFiles \in Nat \ {0}
ASSUME SizeAssumption == Size \in [0 .. NFiles - 1 -> Nat]
ASSUME DirectionsAssumption == Directions \subseteq {"upload", "download"}
ASSUME FileBoundsAssumption == MaxVersion \in Nat /\ MaxJobs \in Nat /\ MaxQueue \in Nat
ASSUME IoErrorsAssumption == IoErrors \in BOOLEAN

VARIABLES
  source,         \* version of the files at the reader's
  disk,           \* the writer's files: name, name.download, name.digest
  direction,      \* of the jobs; another direction has another disk
  reader,         \* the TransferJob that reads
  writer,         \* the TransferJob that writes
  resume,         \* is_resume of the client's job
  strategy,       \* default_overwrite_strategy of the client's job
  asked,          \* files the client's user has been asked about
  toWriter,       \* messages to the writer's side
  toReader,       \* messages to the reader's side
  saved,          \* TransferJobMeta of an interrupted job: its file_num
  jobs,           \* jobs so far
  status,         \* what the client's user is told
  first,          \* history: version the transfer began with
  skips,          \* history: files skipped, or of a cancelled job
  lost,           \* history: files of an upload a resumed job does not go back to
  torn,           \* history: files one of whose blocks went astray
  failed          \* history: files not read, or not renamed, because of an error

fileVars == <<source, disk, direction, reader, writer, resume, strategy, asked, toWriter,
              toReader, saved, jobs, status, first, skips, lost, torn, failed>>
history == <<first, skips, lost, torn, failed>>
uiVars == <<direction, resume, strategy, saved, jobs>>

Files == 0 .. NFiles - 1
Absent == [is |-> "absent"]
Data(blocks) == [is |-> "data", blocks |-> blocks]
Whole(v, f) == Data([i \in 1 .. Size[f] |-> <<v, i>>])

NoJob == [is |-> "none"]
Closed == [is |-> "closed"]              \* data_stream is None
StreamAt(pos) == [is |-> "open", pos |-> pos]  \* a stream, after `pos' blocks
NoDigest == 0
NotSaved == NFiles + 1

NewReader(n) ==
  [is |-> "job", file_num |-> n, stream |-> Closed, file_confirmed |-> FALSE,
   file_is_waiting |-> FALSE, file_skipped |-> FALSE]
\* `into' is the file whose name.download the stream was opened as, `unanswered'
\* (history) says that a digest got neither an answer nor a question.
NewWriter(n) == [is |-> "job", file_num |-> n, stream |-> Closed, into |-> n,
                 digest |-> NoDigest, unanswered |-> FALSE]

Streams == {Closed} \cup [is : {"open"}, pos : Nat]
Readers == [is : {"job"}, file_num : 0 .. NFiles, stream : Streams, file_confirmed : BOOLEAN,
            file_is_waiting : BOOLEAN, file_skipped : BOOLEAN]
Writers == [is : {"job"}, file_num : 0 .. NFiles, stream : Streams, into : 0 .. NFiles,
            digest : 0 .. MaxVersion, unanswered : BOOLEAN]

\* Types; a reader waits (file_is_waiting) exactly while it has a file open.
FileTypeOK ==
  /\ source \in 1 .. MaxVersion
  /\ \A f \in Files : disk[f].digest \in 0 .. MaxVersion
  /\ direction \in {"upload", "download"}
  /\ reader \in Readers \cup {NoJob}
  /\ reader # NoJob => reader.file_is_waiting = (reader.stream # Closed)
  /\ writer \in Writers \cup {NoJob}
  /\ resume \in BOOLEAN
  /\ strategy \in {"ask", "overwrite", "skip"}
  /\ asked \in SUBSET Files
  /\ Len(toWriter) <= MaxQueue /\ Len(toReader) <= MaxQueue
  /\ saved \in 0 .. NFiles + 1
  /\ jobs \in 0 .. MaxJobs
  /\ status \in {"none", "running", "done", "error"}
  /\ skips \cup lost \cup torn \cup failed \subseteq Files

\* Files of that name may be there already, as version 0.
FileInit ==
  /\ source = 1
  /\ \E old \in SUBSET Files :
       disk = [f \in Files |-> [name |-> IF f \in old THEN Whole(0, f) ELSE Absent,
                                download |-> Absent, digest |-> NoDigest]]
  /\ direction \in Directions
  /\ reader = NoJob /\ writer = NoJob
  /\ resume = FALSE /\ strategy = "ask" /\ asked = {}
  /\ toWriter = <<>> /\ toReader = <<>>
  /\ saved = NotSaved /\ jobs = 0 /\ status = "none"
  /\ first = 1 /\ skips = {} /\ lost = {} /\ torn = {} /\ failed = {}

Room(queue, n) == Len(queue) + n <= MaxQueue

\* Whether a file operation succeeds whose failure the code ignores.
Succeeds == IF IoErrors THEN BOOLEAN ELSE {TRUE}

\* remove_download_file; either removal may fail.
remove_download_file(d, w, part, digest) ==
  IF w = NoJob \/ w.file_num \notin Files THEN d
  ELSE [d EXCEPT ![w.file_num] =
          [name |-> @.name,
           download |-> IF part THEN Absent ELSE @.download,
           digest |-> IF digest THEN NoDigest ELSE @.digest]]
-----------------------------------------------------------------------------
(* The client's user.                                                      *)

\* Data::SendFiles, or Data::AddJob and Data::ResumeJob, for file_num n: one side
\* of the job is created here, the other one when the request arrives.
Begin(n) ==
  /\ reader = NoJob /\ writer = NoJob /\ toWriter = <<>> /\ toReader = <<>>
  /\ jobs < MaxJobs
  /\ jobs' = jobs + 1
  /\ status' = "running"
  /\ strategy' = "ask"
  /\ asked' = {}
  /\ saved' = NotSaved
  /\ \/ /\ direction = "upload"
        /\ reader' = NewReader(n)
        /\ toWriter' = <<[type |-> "receive", file_num |-> n]>>
        /\ UNCHANGED <<writer, toReader>>
     \/ /\ direction = "download"
        /\ writer' = NewWriter(n)
        /\ toReader' = <<[type |-> "send", file_num |-> n]>>
        /\ UNCHANGED <<reader, toWriter>>
  /\ UNCHANGED <<source, disk, direction>>

SendFiles ==
  /\ Begin(0)
  /\ resume' = FALSE
  /\ first' = source
  /\ skips' = {} /\ lost' = {} /\ failed' = {}
  /\ torn' = {f \in torn : disk[f].download # Absent}

ResumeJob ==
  /\ saved # NotSaved
  /\ Begin(saved)
  /\ resume' = TRUE
  /\ UNCHANGED history

\* Data::CancelJob
CancelJob ==
  /\ status = "running"
  /\ \/ /\ direction = "upload"
        /\ Room(toWriter, 1)
        /\ toWriter' = Append(toWriter, [type |-> "cancel"])
        /\ reader' = NoJob
        /\ UNCHANGED <<disk, writer, toReader>>
     \/ /\ direction = "download"
        /\ Room(toReader, 1)
        /\ toReader' = Append(toReader, [type |-> "cancel"])
        /\ writer' = NoJob
        /\ \E part, digest \in Succeeds : disk' = remove_download_file(disk, writer, part, digest)
        /\ UNCHANGED <<reader, toWriter>>
  /\ status' = "error"
  /\ asked' = {}
  /\ skips' = Files
  /\ UNCHANGED <<source, uiVars, first, lost, torn, failed>>

\* The connection is lost; sync_jobs_status_to_local saves the client's job, and
\* the other side's job goes with its connection.
Disconnect ==
  /\ status = "running"
  /\ LET job == IF direction = "upload" THEN reader ELSE writer
     IN  saved' = IF job = NoJob THEN NotSaved ELSE job.file_num
  /\ lost' = IF direction = "upload"
             THEN lost \cup {f \in Files : /\ reader # NoJob => f < reader.file_num
                                           /\ f \notin skips
                                           /\ disk[f].name # Whole(source, f)}
             ELSE lost
  /\ reader' = NoJob /\ writer' = NoJob /\ toWriter' = <<>> /\ toReader' = <<>>
  /\ status' = "error"
  /\ asked' = {}
  /\ UNCHANGED <<source, disk, direction, resume, strategy, jobs, first, skips, torn, failed>>

\* Somebody works on the files meanwhile.
SourceChanges ==
  /\ reader = NoJob /\ writer = NoJob
  /\ source < MaxVersion
  /\ source' = source + 1
  /\ UNCHANGED <<disk, reader, writer, asked, toWriter, toReader, status, uiVars, history>>
-----------------------------------------------------------------------------
(* TransferJob::confirm, on either side: the request names a file and      *)
(* either skips it or gives the block to go on from.                       *)

\* set_stream_offset, when the file can be opened and sought (`sought'); otherwise,
\* and for an offset of 0, the stream is left as it is.
Seek(stream, offset, sought) == IF offset = 0 \/ ~sought THEN stream ELSE StreamAt(offset)

ReaderConfirmed(r, c, sought) ==
  IF c.file_num # r.file_num THEN r
  ELSE IF c.skip
  THEN [r EXCEPT !.stream = Closed, !.file_confirmed = FALSE, !.file_is_waiting = FALSE,
                 !.file_num = @ + 1, !.file_skipped = TRUE]
  ELSE [r EXCEPT !.stream = Seek(@, c.offset, sought), !.file_confirmed = TRUE,
                 !.file_skipped = FALSE]

\* The writer ignores requests for a file it has not come to.
WriterConfirmed(w, c, sought) ==
  IF c.file_num # w.file_num THEN w
  ELSE IF c.skip THEN [w EXCEPT !.stream = Closed, !.file_num = @ + 1]
  ELSE IF c.offset = 0 \/ ~sought THEN w
  ELSE [w EXCEPT !.stream = Seek(@, c.offset, sought), !.into = c.file_num]

\* The files whose blocks no longer go where they belong, after the request has
\* reached a side whose job becomes `job'.
Astray(job, c) ==
  IF ~c.skip /\ c.offset > 0 /\ <<job.file_num, job.stream>> # <<c.file_num, StreamAt(c.offset)>>
  THEN {c.file_num} ELSE {}

Skip(n) == [type |-> "confirm", file_num |-> n, skip |-> TRUE, offset |-> 0]
OffsetBlk(n, k) == [type |-> "confirm", file_num |-> n, skip |-> FALSE, offset |-> k]
Skipped(c) == IF c.skip THEN {c.file_num} ELSE {}

\* The client's answer to a file that is there already (`transferred' blocks of it
\* from an interrupted job): a request, or none when the user has to be asked.
Decision(n, transferred) ==
  IF resume /\ transferred > 0 THEN {OffsetBlk(n, transferred)}
  ELSE CASE strategy = "overwrite" -> {OffsetBlk(n, 0)}
         [] strategy = "skip" -> {Skip(n)}
         [] strategy = "ask" -> {}

\* Data::SetConfirmOverrideFile: the user's answer, perhaps long after the question.
SetConfirmOverrideFile(n, need_override, remember) ==
  LET c == IF need_override THEN OffsetBlk(n, 0) ELSE Skip(n)
  IN  /\ n \in asked
      /\ asked' = asked \ {n}
      /\ \/ /\ direction = "upload" /\ reader # NoJob
            /\ reader' = ReaderConfirmed(reader, c, TRUE)
            /\ UNCHANGED <<writer, toReader>>
         \/ /\ direction = "download" /\ writer # NoJob
            /\ Room(toReader, 1)
            /\ writer' = WriterConfirmed(writer, c, TRUE)
            /\ toReader' = Append(toReader, c)
            /\ UNCHANGED reader
      /\ strategy' = IF ~remember THEN strategy
                     ELSE IF need_override THEN "overwrite" ELSE "skip"
      /\ skips' = skips \cup Skipped(c)
      /\ UNCHANGED <<source, disk, direction, resume, toWriter, saved, jobs, status, first,
                     lost, torn, failed>>
-----------------------------------------------------------------------------
(* The reader's side: handle_read_jobs on each tick of the file timer, and *)
(* the messages it gets.                                                   *)

ReaderSends(msgs) ==
  /\ Room(toWriter, Len(msgs))
  /\ toWriter' = toWriter \o msgs

\* init_data_stream opens the next file and announces it.
OpenFile ==
  /\ reader # NoJob /\ reader.file_num < NFiles /\ reader.stream = Closed
  /\ ReaderSends(<<[type |-> "digest", file_num |-> reader.file_num, version |-> source]>>)
  /\ reader' = [reader EXCEPT !.stream = StreamAt(0), !.file_confirmed = FALSE,
                              !.file_is_waiting = TRUE]
  /\ UNCHANGED <<source, disk, writer, asked, toReader, status, uiVars, history>>

\* It cannot be opened: the file is counted as read, `read' returns None because
\* nothing is confirmed, and job_completed takes that for the end of the job.
OpenFails ==
  /\ IoErrors
  /\ reader # NoJob /\ reader.file_num < NFiles /\ reader.stream = Closed
  /\ ReaderSends(<<[type |-> "error"], [type |-> "done"]>>)
  /\ reader' = NoJob
  /\ failed' = failed \cup {f \in Files : f >= reader.file_num}
  /\ UNCHANGED <<source, disk, writer, asked, toReader, status, uiVars, first, skips,
                 lost, torn>>

\* read: a block; at the end of the file an empty one, and on to the next file.
ReadBlock ==
  /\ reader # NoJob /\ reader.file_confirmed /\ reader.stream # Closed
  /\ LET n == reader.file_num
         pos == reader.stream.pos
     IN  \/ /\ pos < Size[n]
            /\ ReaderSends(<<[type |-> "block", file_num |-> n, data |-> <<<<source, pos + 1>>>>]>>)
            /\ reader' = [reader EXCEPT !.stream = StreamAt(pos + 1)]
         \/ /\ pos >= Size[n]
            /\ ReaderSends(<<[type |-> "block", file_num |-> n, data |-> <<>>]>>)
            /\ reader' = [reader EXCEPT !.stream = Closed, !.file_confirmed = FALSE,
                                        !.file_is_waiting = FALSE, !.file_num = n + 1]
  /\ UNCHANGED <<source, disk, writer, asked, toReader, status, uiVars, history>>

\* A read error ends the file, not the job; the writer ends it.
ReadFails ==
  /\ IoErrors
  /\ reader # NoJob /\ reader.file_confirmed /\ reader.stream # Closed
  /\ ReaderSends(<<[type |-> "error"]>>)
  /\ reader' = [reader EXCEPT !.stream = Closed, !.file_confirmed = FALSE,
                              !.file_is_waiting = FALSE, !.file_num = @ + 1]
  /\ failed' = failed \cup {f \in Files : f >= reader.file_num}
  /\ UNCHANGED <<source, disk, writer, asked, toReader, status, uiVars, first, skips,
                 lost, torn>>

\* No more files: the job is removed; a job of one file that was skipped ends as an error.
JobCompleted ==
  /\ reader # NoJob /\ reader.file_num >= NFiles
  /\ ReaderSends(<<[type |-> IF reader.file_skipped /\ NFiles = 1 THEN "error" ELSE "done"]>>)
  /\ reader' = NoJob
  /\ UNCHANGED <<source, disk, writer, asked, toReader, status, uiVars, history>>

\* file_action::Union::Send, Cancel and SendConfirm; in an upload, the manager's
\* answers: SendConfirm, a digest that asks, and what became of the job.
ReaderReceives ==
  /\ toReader # <<>>
  /\ LET m == Head(toReader)
     IN  /\ toReader' = Tail(toReader)
         /\ \/ /\ m.type = "send"
               /\ reader' = NewReader(m.file_num)
               /\ UNCHANGED <<asked, toWriter, status, skips, torn>>
            \/ /\ m.type = "cancel"
               /\ reader' = NoJob
               /\ UNCHANGED <<asked, toWriter, status, skips, torn>>
            \/ /\ m.type = "confirm"
               /\ \/ /\ reader = NoJob
                     /\ UNCHANGED <<reader, torn>>
                  \/ /\ reader # NoJob
                     /\ \E sought \in Succeeds : reader' = ReaderConfirmed(reader, m, sought)
                     /\ torn' = torn \cup Astray(reader', m)
               /\ UNCHANGED <<asked, toWriter, status, skips>>
            \/ /\ m.type = "digest"
               /\ \/ /\ reader = NoJob
                     /\ UNCHANGED <<reader, asked, toWriter, skips, torn>>
                  \/ /\ reader # NoJob
                     /\ Decision(m.file_num, m.transferred) = {}
                     /\ asked' = asked \cup {m.file_num}
                     /\ UNCHANGED <<reader, toWriter, skips, torn>>
                  \/ \E c \in Decision(m.file_num, m.transferred) :
                       /\ reader # NoJob
                       /\ \E sought \in Succeeds : reader' = ReaderConfirmed(reader, c, sought)
                       /\ ReaderSends(<<c>>)
                       /\ skips' = skips \cup Skipped(c)
                       /\ torn' = torn \cup Astray(reader', c)
                       /\ UNCHANGED asked
               /\ UNCHANGED status
            \/ /\ m.type \in {"done", "error"}
               /\ status' = m.type
               /\ UNCHANGED <<reader, asked, toWriter, skips, torn>>
  /\ UNCHANGED <<source, disk, writer, uiVars, first, lost, failed>>
-----------------------------------------------------------------------------
(* The writer's side.                                                      *)

WriterSends(msgs) ==
  /\ Room(toReader, Len(msgs))
  /\ toReader' = toReader \o msgs

\* modify_time: the file the writer was at gets its name, if it can be renamed.
modify_time(d, w, renamed, removed) ==
  IF w.file_num \notin Files THEN d
  ELSE [d EXCEPT ![w.file_num] =
          [name |-> IF renamed /\ @.download # Absent THEN @.download ELSE @.name,
           download |-> IF renamed THEN Absent ELSE @.download,
           digest |-> IF removed THEN NoDigest ELSE @.digest]]

\* The file that is renamed may be what an earlier, interrupted job left, if this one
\* has not opened it; the one this job has written may not be renamed.
PartOf(w) == IF w.file_num \in Files THEN {f \in {w.file_num} : disk[f].download # Absent} ELSE {}
Leftover(w, renamed) == IF renamed /\ w.stream = Closed THEN PartOf(w) ELSE {}
Unnamed(w, renamed) == IF ~renamed /\ w.stream # Closed THEN PartOf(w) ELSE {}

\* TransferJob::write for a block: the first one of a file closes the file before
\* and creates name.download, with the digest seen last beside it.
InFile(m) == m.file_num = writer.file_num /\ writer.stream # Closed
Opened(m, named, noted) ==
  IF InFile(m) THEN [job |-> writer, disk |-> disk]
  ELSE [job |-> [writer EXCEPT !.file_num = m.file_num, !.stream = StreamAt(0),
                               !.into = m.file_num],
        disk |-> [named EXCEPT ![m.file_num].download = Data(<<>>),
                               ![m.file_num].digest = IF noted THEN writer.digest ELSE NoDigest]]

\* A stream stays with the file it was opened as when that is renamed.
Patched(file, pos, data) ==
  Data(SubSeq(file.blocks, 1, pos) \o data \o
       SubSeq(file.blocks, pos + Len(data) + 1, Len(file.blocks)))
Written(d, f, pos, data) ==
  IF d[f].download # Absent THEN [d EXCEPT ![f].download = Patched(@, pos, data)]
                            ELSE [d EXCEPT ![f].name = Patched(@, pos, data)]

\* An error of `write': the client ignores it, the manager reports it and keeps the job.
BlockLost ==
  /\ IoErrors
  /\ IF direction = "upload" THEN WriterSends(<<[type |-> "error"]>>) ELSE UNCHANGED toReader

WriteBlock(m) ==
  /\ m.type = "block"
  /\ writer # NoJob
  /\ \E renamed, removed, noted \in Succeeds :
       LET named == modify_time(disk, writer, renamed, removed)
           o == Opened(m, named, noted)
           leftover == IF InFile(m) THEN {} ELSE Leftover(writer, renamed)
           strays == IF writer.stream = Closed THEN {} ELSE {writer.file_num, writer.into}
       IN  /\ \/ /\ disk' = Written(o.disk, o.job.into, o.job.stream.pos, m.data)
                 /\ writer' = [o.job EXCEPT !.stream = StreamAt(@.pos + Len(m.data))]
                 /\ torn' = torn \cup leftover
                 /\ UNCHANGED toReader
              \* write_all fails
              \/ /\ m.data # <<>>
                 /\ BlockLost
                 /\ disk' = o.disk
                 /\ writer' = o.job
                 /\ torn' = torn \cup leftover \cup {m.file_num}
              \* sync_all fails: the job stays at the file before, which has its name
              \/ /\ ~InFile(m) /\ writer.stream # Closed
                 /\ BlockLost
                 /\ disk' = named
                 /\ writer' = writer
                 /\ torn' = torn \cup strays \cup {m.file_num}
              \* remove_file or File::create fails: the job is at the next file, with
              \* the stream of the file before
              \/ /\ ~InFile(m)
                 /\ BlockLost
                 /\ \E kept \in {named[m.file_num].digest, NoDigest} :
                      disk' = [named EXCEPT ![m.file_num].digest = kept]
                 /\ writer' = [writer EXCEPT !.file_num = m.file_num]
                 /\ torn' = torn \cup leftover \cup strays \cup {m.file_num}
           /\ failed' = failed \cup IF InFile(m) THEN {} ELSE Unnamed(writer, renamed)
  /\ UNCHANGED <<asked, status, skips>>

\* Mutant: a partial file is continued whatever version it is of.
NeedConfirmAnyVersion(n, version, readable) ==
  LET part == disk[n]
  IN  IF resume /\ readable /\ part.download # Absent /\ part.download.blocks # <<>>
      THEN {Len(part.download.blocks)}
      ELSE IF part.name # Absent THEN {0} ELSE {}

\* is_write_need_confirmation: what is there of a file that is announced: nothing,
\* or something, of which `transferred' blocks can be kept if its digest and its
\* length can be read.
NeedConfirm(n, version, readable) ==
  LET part == disk[n]
  IN  IF /\ resume /\ readable
         /\ part.digest = version
         /\ part.download # Absent /\ part.download.blocks # <<>>
      THEN {Len(part.download.blocks)}
      ELSE IF part.name # Absent THEN {0} ELSE {}

\* Its error: the modification time of the file that is there cannot be read.
NoTime(there) == IoErrors /\ there = {0}

\* A digest at the client's writer: file_response::Union::Digest, not is_upload.
DigestAtClient(m) ==
  /\ m.type = "digest" /\ direction = "download" /\ writer # NoJob
  /\ \E readable, sought \in Succeeds :
       LET n == m.file_num
           w == [writer EXCEPT !.digest = m.version]
           there == NeedConfirm(n, m.version, readable)
           decided == IF there = {} THEN {OffsetBlk(n, 0)}
                      ELSE UNION {Decision(n, k) : k \in there}
       IN  \/ /\ decided = {}
              /\ writer' = w
              /\ asked' = asked \cup {n}
              /\ UNCHANGED <<toReader, skips, torn>>
           \/ \E c \in decided :
                /\ writer' = WriterConfirmed(w, c, sought)
                /\ WriterSends(<<c>>)
                /\ skips' = skips \cup Skipped(c)
                /\ torn' = torn \cup Astray(writer', c)
                /\ UNCHANGED asked
           \* the error is printed, and that is all
           \/ /\ NoTime(there)
              /\ writer' = [w EXCEPT !.unanswered = TRUE]
              /\ UNCHANGED <<asked, toReader, skips, torn>>
  /\ UNCHANGED <<disk, status, failed>>

\* Mutant: the manager only answers for files that are there.
CheckDigestQuiet(m) ==
  /\ m.type = "digest" /\ direction = "upload" /\ writer # NoJob
  /\ LET there == NeedConfirm(m.file_num, m.version, TRUE)
     IN  \/ there = {} /\ UNCHANGED toReader
         \/ \E k \in there :
              WriterSends(<<[type |-> "digest", file_num |-> m.file_num, transferred |-> k]>>)
  /\ writer' = [writer EXCEPT !.digest = m.version]
  /\ UNCHANGED <<disk, asked, status, skips, torn, failed>>

\* The manager's answer to ipc::FS::CheckDigest.
CheckDigest(m) ==
  /\ m.type = "digest" /\ direction = "upload" /\ writer # NoJob
  /\ \E readable \in Succeeds :
       LET there == NeedConfirm(m.file_num, m.version, readable)
           w == [writer EXCEPT !.digest = m.version]
       IN  \/ /\ there = {}
              /\ writer' = w
              /\ WriterSends(<<OffsetBlk(m.file_num, 0)>>)
           \/ /\ writer' = w
              /\ \E k \in there :
                   WriterSends(<<[type |-> "digest", file_num |-> m.file_num, transferred |-> k]>>)
           \/ /\ NoTime(there)
              /\ WriterSends(<<[type |-> "error"]>>)
              /\ UNCHANGED writer
  /\ UNCHANGED <<disk, asked, status, skips, torn, failed>>

\* Done: the last file gets its name.
WriteDone(m) ==
  /\ m.type = "done" /\ writer # NoJob
  /\ \E renamed, removed \in Succeeds :
       /\ disk' = modify_time(disk, writer, renamed, removed)
       /\ torn' = torn \cup Leftover(writer, renamed)
       /\ failed' = failed \cup Unnamed(writer, renamed)
  /\ writer' = NoJob
  /\ \/ /\ direction = "upload"
        /\ WriterSends(<<m>>)
        /\ UNCHANGED status
     \/ /\ direction = "download"
        /\ status' = "done"
        /\ UNCHANGED toReader
  /\ UNCHANGED <<asked, skips>>

\* Error: the job is removed, and the file it was at keeps the name name.download.
WriteError(m) ==
  /\ m.type = "error" /\ writer # NoJob
  /\ writer' = NoJob
  /\ failed' = failed \cup {f \in Files : f = writer.file_num /\ writer.stream # Closed}
  /\ \/ /\ direction = "upload"
        /\ WriterSends(<<m>>)
        /\ UNCHANGED status
     \/ /\ direction = "download"
        /\ status' = "error"
        /\ UNCHANGED toReader
  /\ UNCHANGED <<disk, asked, skips, torn>>

\* Messages for a job that is gone; the client shows what it is told all the same.
WithoutWriter(m) ==
  /\ writer = NoJob
  /\ m.type \in {"digest", "block", "done", "error", "cancel", "confirm"}
  /\ status' = IF direction = "download" /\ m.type \in {"done", "error"} /\ status # "none"
               THEN m.type ELSE status
  /\ UNCHANGED <<disk, writer, asked, toReader, skips, torn, failed>>

WriterReceives ==
  /\ toWriter # <<>>
  /\ LET m == Head(toWriter)
     IN  /\ toWriter' = Tail(toWriter)
         /\ \/ /\ m.type = "receive"                               \* ipc::FS::NewWrite
               /\ writer' = NewWriter(m.file_num)
               /\ UNCHANGED <<disk, asked, toReader, status, skips, torn, failed>>
            \/ /\ m.type = "cancel" /\ writer # NoJob              \* ipc::FS::CancelWrite
               /\ \E part, digest \in Succeeds :
                    disk' = remove_download_file(disk, writer, part, digest)
               /\ writer' = NoJob
               /\ UNCHANGED <<asked, toReader, status, skips, torn, failed>>
            \/ /\ m.type = "confirm" /\ writer # NoJob             \* ipc::FS::SendConfirm
               /\ \E sought \in Succeeds : writer' = WriterConfirmed(writer, m, sought)
               /\ torn' = torn \cup Astray(writer', m)
               /\ UNCHANGED <<disk, asked, toReader, status, skips, failed>>
            \/ WriteBlock(m)
            \/ DigestAtClient(m)
            \/ CheckDigest(m)
            \/ WriteDone(m)
            \/ WriteError(m)
            \/ WithoutWriter(m)
  /\ UNCHANGED <<source, reader, uiVars, first, lost>>
-----------------------------------------------------------------------------
ReaderStep == OpenFile \/ OpenFails \/ ReadBlock \/ ReadFails \/ JobCompleted \/ ReaderReceives

UserStep ==
  \/ SendFiles \/ ResumeJob \/ CancelJob \/ Disconnect \/ SourceChanges
  \/ \E n \in Files, need_override, remember \in BOOLEAN :
       SetConfirmOverrideFile(n, need_override, remember)

FileNext == UserStep \/ ReaderStep \/ WriterReceives

FileSpec == FileInit /\ [][FileNext]_fileVars

\* The file timer ticks while there are read jobs, and both loops take messages.
FileFairness == WF_fileVars(ReaderStep) /\ WF_fileVars(WriterReceives)
-----------------------------------------------------------------------------
Delivery == INSTANCE FileDelivery WITH
  target <- [f \in Files |-> disk[f].name],
  excused <- skips \cup lost \cup torn \cup failed

\* The protocol implements FileDelivery: whatever is renamed to a file's own name is
\* a complete copy of a version since the transfer began, and "done" is only reported
\* when all files have arrived, except for files the user gave up and those recorded
\* in lost (blocks in flight when an upload was interrupted), torn (a resume offset
\* that a side ignored or could not seek to, a block that could not be written, the
\* two files at whose border `write' returned early and left the first one's stream
\* open, a partial file renamed by a job that did not write it) and failed (files that
\* could not be read, or not be renamed).
Delivers == Delivery!Spec

\* A running job always comes to an end, or to a question of the user's: stop-and-wait
\* over digests and confirmations (handle_read_jobs, confirm) never gets stuck, unless
\* the client could not look at a file that is there and answered nothing.
JobEnds ==
  LET unanswered == writer # NoJob /\ writer.unanswered
  IN  FileFairness => ((status = "running") ~> (status # "running" \/ asked # {} \/ unanswered))

\* TransferJob::confirm ignores a request for another file than the writer's; "It is
\* ok. Because `confirm()` in `ui_cm_interface.rs` is only used for resuming." (fs.rs)
\* So the manager's writer never ignores the offset of a resumed file.
OffsetsReachWriter ==
  [][WriterReceives => LET m == Head(toWriter)
                       IN  m.type = "confirm" /\ writer # NoJob /\ m.offset > 0
                             => m.file_num = writer.file_num]_fileVars
=============================================================================
