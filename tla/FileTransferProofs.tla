------------------------- MODULE FileTransferProofs -------------------------
(***************************************************************************)
(* The file transfer protocol implements FileDelivery, for any number of   *)
(* files of any size, any number of jobs and messages under way.           *)
(*                                                                         *)
(* That a block ends up at its place in its file depends on what was under *)
(* way in both directions when it was sent, so the inductive invariant has *)
(* four layers, each of which needs the ones before it.  Shapes: jobs,     *)
(* messages and the disk have the fields the code reads.  Protocol: which  *)
(* messages can be under way together, and where the two jobs are then.    *)
(* Contents: the blocks under way are those that follow what the writer    *)
(* has, and an offer to go on is true.  Owed: a file the reader has passed *)
(* has its name, is complete or has its last block under way, or is one    *)
(* the job is excused for.                                                 *)
(*                                                                         *)
(* The lemmas called ...Step say that one handler, or one branch of it,    *)
(* keeps the invariant; they go through its conjuncts in order.  At the    *)
(* end NextStep puts them together, with what the step does to the names.  *)
(***************************************************************************)
EXTENDS FileTransfer, SequenceTheorems, TLAPS

\* Queues of messages: places, whether there is a message of type t, and being a sequence.
Indices(q) == 1 .. Len(q)
Has(q, t) == \E i \in Indices(q) : q[i].type = t
IsQueue(q) == Len(q) \in Nat /\ q = [i \in 1 .. Len(q) |-> q[i]]

\* The reader has a file open; it is sending it; it waits for the answer to its digest.
ReaderOpen == reader # NoJob /\ reader.stream # Closed
Confirmed == reader # NoJob /\ reader.file_confirmed
WriterOpen == writer # NoJob /\ writer.stream # Closed
Waiting == ReaderOpen /\ ~reader.file_confirmed /\ ~Has(toWriter, "digest")
-----------------------------------------------------------------------------
(* The invariant's first layer: shapes of the state.                       *)

Nums == 0 .. NFiles
IsStream(s) == s = Closed \/ s = StreamAt(s.pos)
IsReader(r) ==
  /\ r = [is |-> "job", file_num |-> r.file_num, stream |-> r.stream,
          file_confirmed |-> r.file_confirmed, file_is_waiting |-> r.file_is_waiting,
          file_skipped |-> r.file_skipped]
  /\ r.file_num \in Nums /\ IsStream(r.stream) /\ r.file_confirmed \in BOOLEAN
IsWriter(w) ==
  /\ w = [is |-> "job", file_num |-> w.file_num, stream |-> w.stream, into |-> w.into,
          digest |-> w.digest, unanswered |-> w.unanswered]
  /\ w.file_num \in Nums /\ IsStream(w.stream)
IsConfirm(m) ==
  /\ m = [type |-> "confirm", file_num |-> m.file_num, skip |-> m.skip, offset |-> m.offset]
  /\ m.skip \in BOOLEAN /\ (m.skip => m.offset = 0)
IsDisk(d) == d = [f \in Files |-> [name |-> d[f].name, download |-> d[f].download,
                                   digest |-> d[f].digest]]

ToWriterTypes == {"receive", "digest", "block", "confirm", "cancel", "done", "error"}
ToReaderTypes == {"send", "digest", "confirm", "cancel", "done", "error"}
IsMessage(m) ==
  /\ m.type \in {"receive", "send"} => m.file_num \in Nums
  /\ m.type \in {"digest", "block", "confirm"} => m.file_num \in Files
  /\ m.type = "confirm" => IsConfirm(m)

MessagesOK ==
  /\ \A i \in Indices(toWriter) :
       /\ IsMessage(toWriter[i]) /\ toWriter[i].type \in ToWriterTypes
       /\ direction = "download" => toWriter[i].type \in {"digest", "block", "done", "error"}
  /\ \A i \in Indices(toReader) :
       /\ IsMessage(toReader[i]) /\ toReader[i].type \in ToReaderTypes
       /\ direction = "download" => toReader[i].type \in {"send", "confirm", "cancel"}
       /\ direction = "upload" => toReader[i].type \in {"digest", "confirm", "done", "error"}

JobsOK ==
  /\ reader # NoJob => IsReader(reader)
  /\ writer # NoJob => IsWriter(writer)
  /\ IsQueue(toWriter) /\ IsQueue(toReader)
  /\ IsDisk(disk)

NumbersOK ==
  /\ source \in Nat /\ source # NoDigest /\ first \in Nat /\ first <= source
  /\ direction \in {"upload", "download"}
  /\ strategy \in {"ask", "overwrite", "skip"}
  /\ asked \subseteq Files
  /\ saved \in 0 .. NFiles + 1
  /\ skips \subseteq Files /\ lost \subseteq Files /\ torn \subseteq Files /\ failed \subseteq Files

Shapes == JobsOK /\ MessagesOK /\ NumbersOK
-----------------------------------------------------------------------------
(* The second layer: the order of messages.                                *)

\* Nothing has been started, or the job is saved for a later connection.
Idle == reader = NoJob /\ writer = NoJob /\ Len(toWriter) = 0 /\ Len(toReader) = 0
IdleOK == (status = "none" => Idle) /\ (saved # NotSaved => Idle /\ status = "error")

\* The request to write comes first, and the writer has sent nothing yet.
ReceiveOK ==
  \A i \in Indices(toWriter) : toWriter[i].type = "receive" =>
    /\ i = 1 /\ writer = NoJob /\ Len(toReader) = 0 /\ asked = {}
    /\ \A j \in Indices(toWriter) :
         j # 1 => toWriter[j].type \in {"digest", "cancel", "done", "error"}
    /\ ~Confirmed
    /\ reader # NoJob => toWriter[1].file_num <= reader.file_num

\* The request to read comes first, and the reader has sent nothing yet.
SendOK ==
  \A i \in Indices(toReader) : toReader[i].type = "send" =>
    /\ i = 1 /\ reader = NoJob /\ Len(toWriter) = 0 /\ asked = {}
    /\ \A j \in Indices(toReader) : j # 1 => toReader[j].type = "cancel"
    /\ writer # NoJob => writer.stream = Closed /\ writer.file_num = toReader[1].file_num

\* A digest is the last thing a reader sends before it waits.
DigestOK ==
  \A i \in Indices(toWriter) : toWriter[i].type = "digest" =>
    /\ \A j \in Indices(toWriter) : i < j => toWriter[j].type = "cancel"
    /\ reader # NoJob => /\ i = Len(toWriter)
                         /\ reader.stream # Closed /\ ~reader.file_confirmed
                         /\ toWriter[i].file_num = reader.file_num
                         /\ toWriter[i].version = source
    /\ reader = NoJob /\ direction = "download" => writer = NoJob

\* At most one answer, or question of the user's, is under way, for the file the reader
\* waits with.
Answer(m) == m.type \in {"confirm", "digest"}
AnswersOK ==
  /\ reader # NoJob =>
       /\ \A i \in Indices(toReader) : Answer(toReader[i]) =>
            /\ toReader[i].file_num = reader.file_num /\ Waiting /\ asked = {}
            /\ \A j \in Indices(toReader) : Answer(toReader[j]) => i = j
       /\ \A n \in asked : n = reader.file_num /\ Waiting
  /\ asked # {} /\ writer # NoJob /\ direction = "download" => reader # NoJob

\* A reader that waits has nothing under way; once it goes on, only the confirmation
\* and blocks are.
ReaderOK ==
  /\ ReaderOpen => reader.file_num \in Files
  /\ ReaderOpen /\ ~reader.file_confirmed => reader.stream = StreamAt(0)
  /\ Waiting => Len(toWriter) = 0
  /\ Confirmed =>
       /\ reader.stream # Closed
       /\ \A i \in Indices(toWriter) :
            /\ toWriter[i].file_num = reader.file_num
            /\ \/ toWriter[i].type = "confirm" /\ i = 1 /\ ~toWriter[i].skip
               \/ toWriter[i].type = "block" /\ toWriter[i].data # <<>>

\* Blocks under way are of one file, the last of them may be empty.
BlocksOK ==
  \A i \in Indices(toWriter) : toWriter[i].type = "block" =>
    /\ \A j \in Indices(toWriter) :
         /\ j < i => toWriter[j].type = "block" \/ (j = 1 /\ toWriter[j].type = "confirm")
         /\ toWriter[j].type \in {"block", "confirm"} => toWriter[j].file_num = toWriter[i].file_num
         /\ toWriter[j].type = "confirm" => ~toWriter[j].skip
         /\ toWriter[i].data = <<>> /\ i < j => toWriter[j].type # "block"
    /\ reader # NoJob /\ ~reader.file_confirmed => toWriter[i].file_num < reader.file_num
    /\ writer # NoJob => writer.file_num <= toWriter[i].file_num /\ writer.digest = source

\* A confirmation under way to the writer comes first, for a file it has not opened.
ConfirmOK ==
  \A i \in Indices(toWriter) : toWriter[i].type = "confirm" =>
    /\ i = 1
    /\ reader # NoJob /\ (toWriter[i].skip \/ ~reader.file_confirmed) =>
         toWriter[i].file_num < reader.file_num
    /\ WriterOpen => writer.file_num # toWriter[i].file_num

\* The writer is not ahead of the reader, but for a file it skips, and has its digest
\* unless it could not look at the file and the reader waits in vain.
Deserted ==
  ~reader.file_confirmed /\ asked = {} /\ \A i \in Indices(toReader) : ~Answer(toReader[i])
WriterOK ==
  /\ WriterOpen => writer.file_num \in Files
  /\ writer # NoJob /\ reader # NoJob =>
       /\ \/ writer.file_num <= reader.file_num
          \/ /\ writer.file_num = reader.file_num + 1 /\ writer.stream = Closed
             /\ \E i \in Indices(toReader) : toReader[i].type = "confirm" /\ toReader[i].skip
       /\ ~reader.file_confirmed /\ writer.stream # Closed =>
            \/ writer.file_num < reader.file_num
            \/ \E i \in Indices(toReader) :
                 /\ toReader[i].type = "confirm" /\ direction = "download"
                 /\ toReader[i].offset = writer.stream.pos /\ toReader[i].offset > 0
  /\ writer # NoJob /\ ReaderOpen /\ ~Has(toWriter, "digest") =>
       writer.digest = source \/ Deserted

\* What ends a job: its sender has ended it already, and a cancelled job owes nothing.
EndOK ==
  /\ Has(toWriter, "done") => reader = NoJob
  /\ Has(toReader, "done") => writer = NoJob
  /\ Has(toWriter, "cancel") \/ Has(toReader, "cancel") => skips = Files
  /\ Has(toReader, "cancel") => writer = NoJob

Protocol == /\ IdleOK /\ ReceiveOK /\ SendOK /\ DigestOK /\ AnswersOK /\ ReaderOK /\ BlocksOK
            /\ ConfirmOK /\ WriterOK /\ EndOK
-----------------------------------------------------------------------------
(* The third layer: what is in the blocks and in the files.                *)

\* The first p blocks of version v, and a partial file with them and its digest, which
\* may not have been written.
Part(v, p) == Data([i \in 1 .. p |-> <<v, i>>])
Holds(f, v, p) ==
  p \in Nat /\ p <= Size[f] /\ disk[f].digest \in {v, NoDigest} /\ disk[f].download = Part(v, p)

\* The blocks that come before the first one under way, less one for a confirmation.
Base(f) ==
  IF Len(toWriter) > 0 /\ toWriter[1].type = "confirm" THEN toWriter[1].offset - 1
  ELSE IF writer.file_num = f /\ writer.stream # Closed THEN writer.stream.pos ELSE 0

\* Partial files are parts of the version their digest names; the writer's is of the
\* version that is being read, and a stream of another file only harms torn files.
PartsOK == \A f \in Files :
  f \notin torn /\ disk[f].download # Absent /\ disk[f].digest # NoDigest =>
    \E p \in Nat : Holds(f, disk[f].digest, p)
OpenOK ==
  WriterOpen =>
    /\ writer.file_num \notin torn =>
         writer.into = writer.file_num /\ Holds(writer.file_num, source, writer.stream.pos)
    /\ writer.into # writer.file_num => writer.into \in torn
\* Who is told to go on at an offset has, or will write to, a part of that length.
OffersOK ==
  writer # NoJob =>
    /\ reader # NoJob => \A i \in Indices(toReader) :
         /\ toReader[i].type = "digest" /\ toReader[i].file_num \notin torn
              /\ toReader[i].transferred # 0 =>
              Holds(toReader[i].file_num, source, toReader[i].transferred)
         /\ toReader[i].type = "confirm" /\ toReader[i].file_num \notin torn
              /\ toReader[i].offset # 0 =>
              writer.file_num = toReader[i].file_num /\ writer.stream = StreamAt(toReader[i].offset)
    /\ \A i \in Indices(toWriter) :
         toWriter[i].type = "confirm" /\ toWriter[i].file_num \notin torn /\ toWriter[i].offset # 0 =>
            Holds(toWriter[i].file_num, source, toWriter[i].offset)
\* Blocks under way follow on what the writer has, and the reader's place on them.
StreamOK ==
  writer # NoJob =>
    /\ \A i \in Indices(toWriter) : toWriter[i].type = "block" /\ toWriter[i].file_num \notin torn =>
         /\ toWriter[i].data # <<>> =>
              /\ toWriter[i].data = << <<source, Base(toWriter[i].file_num) + i>> >>
              /\ Base(toWriter[i].file_num) + i <= Size[toWriter[i].file_num]
         /\ toWriter[i].data = <<>> =>
              Base(toWriter[i].file_num) + i = Size[toWriter[i].file_num] + 1
    /\ Confirmed /\ reader.file_num \notin torn =>
         /\ reader.stream.pos = Base(reader.file_num) + Len(toWriter)
         /\ reader.stream.pos <= Size[reader.file_num]
Contents == PartsOK /\ OpenOK /\ OffersOK /\ StreamOK
-----------------------------------------------------------------------------
(* The fourth layer: what has been passed has arrived or is excused.       *)

\* Files the job owes nobody; files that are there in a version since it began.
Excused == skips \cup lost \cup torn \cup failed
Arrived(f) == \E v \in first .. source : disk[f].name = Whole(v, f)
Settled(f) == f \in Excused \/ Arrived(f)
\* The file up to which the reader has come, also when its request is still under way.
SendPending == Len(toReader) > 0 /\ toReader[1].type = "send"
ReaderAt == IF reader # NoJob THEN reader.file_num
            ELSE IF SendPending THEN toReader[1].file_num ELSE NFiles
\* The empty block that ends a file.
LastBlock(m, f) == m.type = "block" /\ m.file_num = f /\ m.data = <<>>
Coming(f) == \E i \in Indices(toWriter) : LastBlock(toWriter[i], f)

\* Files the writer has passed are settled; those only the reader has passed are excused,
\* complete at the writer or have their last block under way.
PassedOK ==
  writer # NoJob => \A f \in Files :
    /\ f < writer.file_num => Settled(f)
    /\ f < ReaderAt /\ f >= writer.file_num =>
         \/ f \in Excused \/ Coming(f)
         \/ f = writer.file_num /\ writer.stream # Closed /\ writer.stream.pos = Size[f]
\* The same before the writer has started.
PendingOK ==
  \A i \in Indices(toWriter) : toWriter[i].type = "receive" =>
    \A f \in Files : /\ f < toWriter[i].file_num => Settled(f)
                     /\ f < ReaderAt /\ f >= toWriter[i].file_num => f \in Excused
\* A reader that ends with an error excuses the rest; whoever ends otherwise owes nothing,
\* and a saved job settled what it will not ask for again.
ErrorOK == Has(toWriter, "error") => \A f \in Files : f >= ReaderAt => f \in Excused
OverOK ==
  /\ direction = "download" /\ writer = NoJob
       /\ (reader # NoJob \/ SendPending \/ Has(toWriter, "done")) =>
         \A f \in Files : Settled(f)
  /\ Has(toReader, "done") => \A f \in Files : Settled(f)
  /\ saved # NotSaved => \A f \in Files : f < saved => Settled(f)
\* Files that are skipped are recorded as such.
SkipsOK ==
  /\ \A i \in Indices(toReader) : toReader[i].type = "confirm" /\ toReader[i].skip =>
       toReader[i].file_num \in skips
  /\ \A i \in Indices(toWriter) : toWriter[i].type = "confirm" /\ toWriter[i].skip =>
       toWriter[i].file_num \in skips
Owed == SkipsOK /\ PassedOK /\ PendingOK /\ ErrorOK /\ OverOK

IInv == Shapes /\ Protocol /\ Contents /\ Owed
-----------------------------------------------------------------------------
(* Queues, streams and requests.                                           *)

\* r is q without its first message; r is q with m at its end.
Popped(q, r) ==
  IsQueue(r) /\ Len(q) = Len(r) + 1 /\ \A i \in Indices(r) : i + 1 \in Indices(q) /\ r[i] = q[i + 1]
Grown(q, r, m) ==
  /\ IsQueue(r) /\ Len(r) = Len(q) + 1 /\ r[Len(q) + 1] = m
  /\ \A i \in Indices(q) : r[i] = q[i]

\* A queue is a sequence of its messages.
LEMMA QueueSeq ==
  ASSUME NEW q, IsQueue(q)
  PROVE  q \in Seq({q[i] : i \in Indices(q)})
<1>1. q \in [1 .. Len(q) -> {q[i] : i \in Indices(q)}]
  BY DEF IsQueue, Indices
<1> QED BY <1>1, SeqDef DEF IsQueue

\* And a sequence is a queue.
LEMMA SeqQueue ==
  ASSUME NEW S, NEW q \in Seq(S)
  PROVE  IsQueue(q)
BY DEF IsQueue

\* Receiving: the head is the first message, and the rest is the queue without it.
LEMMA TakeHead ==
  ASSUME NEW q, IsQueue(q), q # <<>>
  PROVE  Popped(q, Tail(q)) /\ Head(q) = q[1] /\ 1 \in Indices(q)
<1> DEFINE S == {q[i] : i \in Indices(q)}
<1>1. q \in Seq(S)
  BY QueueSeq
<1>2. Tail(q) \in Seq(S) /\ Head(q) = q[1] /\ Len(q) \in Nat /\ Len(q) > 0
  BY <1>1
<1>3. Len(Tail(q)) = Len(q) - 1 /\ \A i \in 1 .. Len(q) - 1 : Tail(q)[i] = q[i + 1]
  BY <1>1
<1>4. IsQueue(Tail(q))
  BY <1>2, SeqQueue
<1>5. 1 \in Indices(q)
  BY <1>2 DEF Indices
<1>6. Popped(q, Tail(q))
  BY <1>2, <1>3, <1>4 DEF Popped, Indices
<1> QED BY <1>2, <1>5, <1>6

\* Sending: the message is at the end, and the others stay where they are.
LEMMA SendOne ==
  ASSUME NEW q, IsQueue(q), NEW m
  PROVE  Grown(q, Append(q, m), m) /\ Grown(q, q \o <<m>>, m)
<1> DEFINE S == {q[i] : i \in Indices(q)} \cup {m}
<1>1. q \in Seq(S)
  <2>1. q \in [1 .. Len(q) -> S]
    BY DEF IsQueue, Indices
  <2> QED BY <2>1, SeqDef DEF IsQueue
<1>2. m \in S
  OBVIOUS
<1> HIDE DEF S
<1>3. Append(q, m) \in Seq(S) /\ q \o <<m>> \in Seq(S)
  BY <1>1, <1>2
<1>4. Grown(q, Append(q, m), m)
  <2>1. IsQueue(Append(q, m))
    BY <1>3, SeqQueue
  <2> QED BY <1>1, <1>2, <2>1 DEF Grown, Indices
<1>5. Grown(q, q \o <<m>>, m)
  <2>1. IsQueue(q \o <<m>>)
    BY <1>3, SeqQueue
  <2> QED BY <1>1, <1>2, <2>1 DEF Grown, Indices
<1> QED BY <1>4, <1>5

\* Sending two messages is sending one after the other (an error and done).
LEMMA SendTwo ==
  ASSUME NEW q, IsQueue(q), NEW m, NEW n
  PROVE  Grown(Append(q, m), q \o <<m, n>>, n) /\ Grown(q, Append(q, m), m)
<1>1. Grown(q, Append(q, m), m)
  BY SendOne
<1>2. Grown(Append(q, m), Append(Append(q, m), n), n)
  <2>1. IsQueue(Append(q, m))
    BY ONLY <1>1 DEF Grown
  <2> QED BY ONLY <2>1, SendOne
<1> DEFINE S == {q[i] : i \in Indices(q)} \cup {m, n}
<1>3. q \in Seq(S) /\ m \in S /\ n \in S
  <2>1. q \in [1 .. Len(q) -> S]
    BY DEF IsQueue, Indices
  <2> QED BY <2>1, SeqDef DEF IsQueue
<1> HIDE DEF S
<1>4. Append(Append(q, m), n) = q \o <<m, n>>
  BY <1>3
<1> QED BY <1>1, <1>2, <1>4

\* The empty queue and a queue of one message.
LEMMA ShortQueues ==
  /\ IsQueue(<<>>) /\ Len(<<>>) = 0 /\ Indices(<<>>) = {}
  /\ \A m : IsQueue(<<m>>) /\ Len(<<m>>) = 1 /\ <<m>>[1] = m /\ Indices(<<m>>) = {1}
  /\ \A q : IsQueue(q) => (q = <<>> <=> Len(q) = 0)
<1>1. IsQueue(<<>>) /\ Len(<<>>) = 0 /\ Indices(<<>>) = {}
  BY DEF IsQueue, Indices
<1>2. ASSUME NEW m PROVE IsQueue(<<m>>) /\ Len(<<m>>) = 1 /\ <<m>>[1] = m /\ Indices(<<m>>) = {1}
  BY DEF IsQueue, Indices
<1>3. ASSUME NEW q, IsQueue(q) PROVE q = <<>> <=> Len(q) = 0
  BY <1>3, QueueSeq, EmptySeq
<1> QED BY <1>1, <1>2, <1>3

\* An open stream is at its place, and is not a closed one.
LEMMA StreamFacts ==
  \A p : StreamAt(p) # Closed /\ StreamAt(p).pos = p /\ IsStream(StreamAt(p))
BY DEF StreamAt, Closed, IsStream

\* A reader, and a writer, whose fields have these values.
MadeReader(r, n, s, c) ==
  IsReader(r) /\ r # NoJob /\ r.file_num = n /\ r.stream = s /\ r.file_confirmed = c
MadeWriter(w, n, s, t, d) ==
  IsWriter(w) /\ w # NoJob /\ w.file_num = n /\ w.stream = s /\ w.into = t /\ w.digest = d

\* A record with a reader's fields is a reader with these values.
LEMMA MakeReader ==
  ASSUME NEW n \in Nums, NEW s, IsStream(s), NEW c \in BOOLEAN, NEW w, NEW k
  PROVE  MadeReader([is |-> "job", file_num |-> n, stream |-> s, file_confirmed |-> c,
                     file_is_waiting |-> w, file_skipped |-> k], n, s, c)
BY DEF MadeReader, IsReader, NoJob

\* A record with a writer's fields is a writer with these values.
LEMMA MakeWriter ==
  ASSUME NEW n \in Nums, NEW s, IsStream(s), NEW t, NEW d, NEW u
  PROVE  MadeWriter([is |-> "job", file_num |-> n, stream |-> s, into |-> t, digest |-> d,
                     unanswered |-> u], n, s, t, d)
BY DEF MadeWriter, IsWriter, NoJob

\* What the EXCEPTs of the reader's handlers make of a reader.
LEMMA ReaderUpdates ==
  ASSUME NEW r, IsReader(r), NEW n \in Nums, NEW s, IsStream(s), NEW c \in BOOLEAN, NEW w, NEW k,
         NEW e
  PROVE  /\ e = [r EXCEPT !.stream = s] => MadeReader(e, r.file_num, s, r.file_confirmed)
         /\ e = [r EXCEPT !.stream = s, !.file_confirmed = c, !.file_is_waiting = w]
              => MadeReader(e, r.file_num, s, c)
         /\ e = [r EXCEPT !.stream = s, !.file_confirmed = c, !.file_is_waiting = w,
                          !.file_num = n] => MadeReader(e, n, s, c)
         /\ e = [r EXCEPT !.stream = s, !.file_confirmed = c, !.file_is_waiting = w,
                          !.file_num = n, !.file_skipped = k] => MadeReader(e, n, s, c)
         /\ e = [r EXCEPT !.stream = s, !.file_confirmed = c, !.file_skipped = k]
              => MadeReader(e, r.file_num, s, c)
<1> DEFINE T == {r.stream, s}
           S == [is : {"job"}, file_num : Nums, stream : T, file_confirmed : BOOLEAN,
                 file_is_waiting : {r.file_is_waiting, w}, file_skipped : {r.file_skipped, k}]
<1>1. r \in S
  BY DEF IsReader
<1>2. \A x \in S : IsReader(x) /\ x # NoJob
  BY DEF IsReader, NoJob
<1>3. ASSUME e = [r EXCEPT !.stream = s] PROVE MadeReader(e, r.file_num, s, r.file_confirmed)
  <2>1. e \in S /\ e.file_num = r.file_num /\ e.stream = s /\ e.file_confirmed = r.file_confirmed
    BY <1>1, <1>3
  <2> QED BY <1>2, <2>1 DEF MadeReader
<1>4. ASSUME e = [r EXCEPT !.stream = s, !.file_confirmed = c, !.file_is_waiting = w]
      PROVE  MadeReader(e, r.file_num, s, c)
  <2>1. e \in S /\ e.file_num = r.file_num /\ e.stream = s /\ e.file_confirmed = c
    BY <1>1, <1>4
  <2> QED BY <1>2, <2>1 DEF MadeReader
<1>5. ASSUME e = [r EXCEPT !.stream = s, !.file_confirmed = c, !.file_is_waiting = w,
                           !.file_num = n]
      PROVE  MadeReader(e, n, s, c)
  <2>1. e \in S /\ e.file_num = n /\ e.stream = s /\ e.file_confirmed = c
    BY <1>1, <1>5
  <2> QED BY <1>2, <2>1 DEF MadeReader
<1>6. ASSUME e = [r EXCEPT !.stream = s, !.file_confirmed = c, !.file_is_waiting = w,
                           !.file_num = n, !.file_skipped = k]
      PROVE  MadeReader(e, n, s, c)
  <2>1. e \in S /\ e.file_num = n /\ e.stream = s /\ e.file_confirmed = c
    BY <1>1, <1>6
  <2> QED BY <1>2, <2>1 DEF MadeReader
<1>7. ASSUME e = [r EXCEPT !.stream = s, !.file_confirmed = c, !.file_skipped = k]
      PROVE  MadeReader(e, r.file_num, s, c)
  <2>1. e \in S /\ e.file_num = r.file_num /\ e.stream = s /\ e.file_confirmed = c
    BY <1>1, <1>7
  <2> QED BY <1>2, <2>1 DEF MadeReader
<1> HIDE DEF S
<1> QED BY <1>3, <1>4, <1>5, <1>6, <1>7

\* What the EXCEPTs of the writer's handlers make of a writer.
LEMMA WriterUpdates ==
  ASSUME NEW r, IsWriter(r), NEW n \in Nums, NEW s, IsStream(s), NEW t, NEW d, NEW u, NEW e
  PROVE  /\ e = [r EXCEPT !.stream = s] => MadeWriter(e, r.file_num, s, r.into, r.digest)
         /\ e = [r EXCEPT !.digest = d] => MadeWriter(e, r.file_num, r.stream, r.into, d)
         /\ e = [r EXCEPT !.unanswered = u] => MadeWriter(e, r.file_num, r.stream, r.into, r.digest)
         /\ e = [r EXCEPT !.file_num = n] => MadeWriter(e, n, r.stream, r.into, r.digest)
         /\ e = [r EXCEPT !.stream = s, !.file_num = n] => MadeWriter(e, n, s, r.into, r.digest)
         /\ e = [r EXCEPT !.stream = s, !.into = t] => MadeWriter(e, r.file_num, s, t, r.digest)
         /\ e = [r EXCEPT !.file_num = n, !.stream = s, !.into = t] => MadeWriter(e, n, s, t, r.digest)
<1> DEFINE S == [is : {"job"}, file_num : Nums, stream : {r.stream, s}, into : {r.into, t},
                 digest : {r.digest, d}, unanswered : {r.unanswered, u}]
<1>1. r \in S
  BY DEF IsWriter
<1>2. \A x \in S : IsWriter(x) /\ x # NoJob
  BY DEF IsWriter, NoJob
<1>3. ASSUME e = [r EXCEPT !.stream = s] PROVE MadeWriter(e, r.file_num, s, r.into, r.digest)
  <2>1. e \in S /\ e.file_num = r.file_num /\ e.stream = s /\ e.into = r.into /\ e.digest = r.digest
    BY <1>1, <1>3
  <2> QED BY <1>2, <2>1 DEF MadeWriter
<1>4. ASSUME e = [r EXCEPT !.digest = d] PROVE MadeWriter(e, r.file_num, r.stream, r.into, d)
  <2>1. e \in S /\ e.file_num = r.file_num /\ e.stream = r.stream /\ e.into = r.into /\ e.digest = d
    BY <1>1, <1>4
  <2> QED BY <1>2, <2>1 DEF MadeWriter
<1>5. ASSUME e = [r EXCEPT !.unanswered = u] PROVE MadeWriter(e, r.file_num, r.stream, r.into, r.digest)
  <2>1. e \in S /\ e.file_num = r.file_num /\ e.stream = r.stream /\ e.into = r.into
          /\ e.digest = r.digest
    BY <1>1, <1>5
  <2> QED BY <1>2, <2>1 DEF MadeWriter
<1>6. ASSUME e = [r EXCEPT !.file_num = n] PROVE MadeWriter(e, n, r.stream, r.into, r.digest)
  <2>1. e \in S /\ e.file_num = n /\ e.stream = r.stream /\ e.into = r.into /\ e.digest = r.digest
    BY <1>1, <1>6
  <2> QED BY <1>2, <2>1 DEF MadeWriter
<1>7. ASSUME e = [r EXCEPT !.stream = s, !.file_num = n] PROVE MadeWriter(e, n, s, r.into, r.digest)
  <2>1. e \in S /\ e.file_num = n /\ e.stream = s /\ e.into = r.into /\ e.digest = r.digest
    BY <1>1, <1>7
  <2> QED BY <1>2, <2>1 DEF MadeWriter
<1>8. ASSUME e = [r EXCEPT !.stream = s, !.into = t] PROVE MadeWriter(e, r.file_num, s, t, r.digest)
  <2>1. e \in S /\ e.file_num = r.file_num /\ e.stream = s /\ e.into = t /\ e.digest = r.digest
    BY <1>1, <1>8
  <2> QED BY <1>2, <2>1 DEF MadeWriter
<1>9. ASSUME e = [r EXCEPT !.file_num = n, !.stream = s, !.into = t]
               PROVE MadeWriter(e, n, s, t, r.digest)
  <2>1. e \in S /\ e.file_num = n /\ e.stream = s /\ e.into = t /\ e.digest = r.digest
    BY <1>1, <1>9
  <2> QED BY <1>2, <2>1 DEF MadeWriter
<1> HIDE DEF S
<1> QED BY <1>3, <1>4, <1>5, <1>6, <1>7, <1>8, <1>9

\* The reader of a state of the invariant is a job at a file number.
LEMMA ReaderThere ==
  ASSUME IInv, reader # NoJob
  PROVE  /\ IsReader(reader) /\ IsStream(reader.stream)
         /\ reader.file_num \in Nums /\ reader.file_num \in Nat /\ reader.file_confirmed \in BOOLEAN
BY DEF IInv, Shapes, JobsOK, IsReader, Nums

\* The writer of a state of the invariant is a job at a file number.
LEMMA WriterThere ==
  ASSUME IInv, writer # NoJob
  PROVE  /\ IsWriter(writer) /\ IsStream(writer.stream)
         /\ writer.file_num \in Nums /\ writer.file_num \in Nat
BY DEF IInv, Shapes, JobsOK, IsWriter, Nums

\* The queues of a state of the invariant, and what the constants are.
LEMMA QueuesThere ==
  ASSUME IInv
  PROVE  /\ IsQueue(toWriter) /\ IsQueue(toReader)
         /\ Len(toWriter) \in Nat /\ Len(toReader) \in Nat
         /\ NFiles \in Nat /\ NFiles > 0
         /\ Files \subseteq Nums /\ Nums \subseteq Nat
         /\ \A n \in Nums : n \in Files <=> n < NFiles
         /\ \A n \in Files : n + 1 \in Nums /\ n < n + 1 /\ Size[n] \in Nat
BY NFilesAssumption, SizeAssumption DEF IInv, Shapes, JobsOK, IsQueue, Files, Nums

\* The number of the first block under way is a number.
LEMMA BaseNumber ==
  ASSUME IInv, writer # NoJob, NEW f, f \notin torn,
         Len(toWriter) > 0 /\ toWriter[1].type = "confirm" => toWriter[1].file_num = f
  PROVE  Base(f) \in Int
<1>1. CASE Len(toWriter) > 0 /\ toWriter[1].type = "confirm"
  <2>1. 1 \in Indices(toWriter)
    BY <1>1, QueuesThere DEF Indices
  <2>2. toWriter[1].offset \in Nat
    BY <1>1, <2>1 DEF IInv, Contents, OffersOK, Holds
  <2> QED BY <1>1, <2>2 DEF Base
<1>2. CASE ~(Len(toWriter) > 0 /\ toWriter[1].type = "confirm")
  BY <1>2 DEF Base, IInv, Contents, OpenOK, Holds, WriterOpen
<1> QED BY <1>1, <1>2

\* Files are numbers.
LEMMA FilesNat == NFiles \in Nat /\ \A f \in Files : f \in Nat /\ f < NFiles
BY NFilesAssumption DEF Files

\* TransferJob::confirm at the reader, for its file: if it goes on at another block than
\* the request says, the file is torn.
LEMMA ReaderGoesOn ==
  ASSUME NEW r, IsReader(r), NEW c, c.file_num = r.file_num, r.file_num \in Files,
         c.skip => c.offset = 0, NEW sought, NEW e, e = ReaderConfirmed(r, c, sought)
  PROVE  /\ c.skip => MadeReader(e, r.file_num + 1, Closed, FALSE) /\ Astray(e, c) = {}
         /\ ~c.skip => MadeReader(e, r.file_num, Seek(r.stream, c.offset, sought), TRUE)
         /\ Astray(e, c) \in {{}, {r.file_num}}
         /\ ~c.skip /\ c.offset > 0 /\ Astray(e, c) = {} => e.stream = StreamAt(c.offset)
<1> DEFINE s == Seek(r.stream, c.offset, sought)
<1>1. r.file_num + 1 \in Nums /\ r.file_num \in Nums
  BY NFilesAssumption DEF Files, Nums
<1>2. IsStream(Closed) /\ IsStream(s)
  BY StreamFacts DEF IsStream, Seek, IsReader
<1>3. ASSUME c.skip PROVE MadeReader(e, r.file_num + 1, Closed, FALSE)
  <2>1. e = [r EXCEPT !.stream = Closed, !.file_confirmed = FALSE,
                      !.file_is_waiting = FALSE, !.file_num = r.file_num + 1,
                      !.file_skipped = TRUE]
    BY <1>3 DEF ReaderConfirmed
  <2> QED BY <1>1, <1>2, <2>1, ReaderUpdates, Zenon
<1>4. ASSUME ~c.skip PROVE MadeReader(e, r.file_num, s, TRUE)
  <2>1. e = [r EXCEPT !.stream = s, !.file_confirmed = TRUE, !.file_skipped = FALSE]
    BY <1>4 DEF ReaderConfirmed
  <2> HIDE DEF s
  <2> QED BY <1>1, <1>2, <2>1, ReaderUpdates, Zenon
<1> HIDE DEF s
<1>5. Astray(e, c) \in {{}, {r.file_num}} /\ (c.skip => Astray(e, c) = {})
  BY DEF Astray
<1>6. ASSUME ~c.skip, c.offset > 0, Astray(e, c) = {} PROVE e.stream = StreamAt(c.offset)
  BY <1>6 DEF Astray
<1> QED BY <1>3, <1>4, <1>5, <1>6 DEF s

\* The fields of the two kinds of FileTransferSendConfirmRequest.
LEMMA RequestFacts ==
  /\ \A n, k : /\ IsConfirm(OffsetBlk(n, k)) /\ OffsetBlk(n, k).type = "confirm"
               /\ OffsetBlk(n, k).file_num = n /\ ~OffsetBlk(n, k).skip /\ OffsetBlk(n, k).offset = k
  /\ \A n : /\ IsConfirm(Skip(n)) /\ Skip(n).type = "confirm" /\ Skip(n).file_num = n
            /\ Skip(n).skip /\ Skip(n).offset = 0
<1>1. ASSUME NEW n, NEW k
      PROVE  /\ IsConfirm(OffsetBlk(n, k)) /\ OffsetBlk(n, k).type = "confirm"
             /\ OffsetBlk(n, k).file_num = n /\ ~OffsetBlk(n, k).skip /\ OffsetBlk(n, k).offset = k
  BY DEF OffsetBlk, IsConfirm
<1>2. ASSUME NEW n
      PROVE  /\ IsConfirm(Skip(n)) /\ Skip(n).type = "confirm" /\ Skip(n).file_num = n
             /\ Skip(n).skip /\ Skip(n).offset = 0
  BY DEF Skip, IsConfirm
<1> QED BY <1>1, <1>2

\* TransferJob::confirm at the writer: its own file is skipped or sought, another ignored.
LEMMA WriterGoesOn ==
  ASSUME NEW w, IsWriter(w), NEW c, c.file_num \in Files, NEW sought,
         NEW e, e = WriterConfirmed(w, c, sought)
  PROVE  /\ c.file_num # w.file_num => e = w
         /\ c.file_num = w.file_num /\ c.skip =>
              MadeWriter(e, w.file_num + 1, Closed, w.into, w.digest)
         /\ c.file_num = w.file_num /\ ~c.skip =>
              \/ MadeWriter(e, w.file_num, w.stream, w.into, w.digest) /\ (c.offset = 0 \/ ~sought)
              \/ /\ MadeWriter(e, w.file_num, StreamAt(c.offset), w.file_num, w.digest)
                 /\ c.offset # 0 /\ sought
<1>1. c.file_num + 1 \in Nums /\ c.file_num \in Nums
  BY NFilesAssumption DEF Files, Nums
<1>2. IsStream(Closed) /\ IsStream(StreamAt(c.offset)) /\ w # NoJob
  BY StreamFacts DEF IsStream, IsWriter, NoJob
<1>3. ASSUME c.skip, c.file_num = w.file_num
      PROVE  MadeWriter(e, w.file_num + 1, Closed, w.into, w.digest)
  <2>1. e = [w EXCEPT !.stream = Closed, !.file_num = w.file_num + 1]
    BY <1>3 DEF WriterConfirmed
  <2> QED BY <1>1, <1>2, <1>3, <2>1, WriterUpdates, Zenon
<1>4. ASSUME ~c.skip, c.file_num = w.file_num, c.offset = 0 \/ ~sought
      PROVE  MadeWriter(e, w.file_num, w.stream, w.into, w.digest)
  BY <1>2, <1>4 DEF WriterConfirmed, MadeWriter
<1>5. ASSUME ~c.skip, c.file_num = w.file_num, c.offset # 0, sought
      PROVE  MadeWriter(e, w.file_num, StreamAt(c.offset), w.file_num, w.digest)
  <2>1. e = [w EXCEPT !.stream = StreamAt(c.offset), !.into = w.file_num]
    BY <1>5 DEF WriterConfirmed, Seek
  <2> QED BY <1>1, <1>2, <2>1, WriterUpdates, Zenon
<1>6. c.file_num # w.file_num => e = w
  BY DEF WriterConfirmed
<1> QED BY <1>3, <1>4, <1>5, <1>6

\* The disk with another record for file n.
Changed(d, n, a, b, c) == [d EXCEPT ![n] = [name |-> a, download |-> b, digest |-> c]]

\* Replacing a record changes that record only.
LEMMA DiskChanged ==
  ASSUME NEW d, IsDisk(d), NEW n \in Files, NEW a, NEW b, NEW c, NEW e, e = Changed(d, n, a, b, c)
  PROVE  /\ IsDisk(e) /\ e[n].name = a /\ e[n].download = b /\ e[n].digest = c
         /\ \A f \in Files : f # n => e[f] = d[f]
<1>1. d = [f \in Files |-> d[f]]
  BY DEF IsDisk
<1>2. \A f \in Files : e[f] = IF f = n THEN [name |-> a, download |-> b, digest |-> c] ELSE d[f]
  BY <1>1 DEF Changed
<1>3. e = [f \in Files |-> e[f]]
  BY <1>1 DEF Changed
<1>4. \A f \in Files : e[f] = [name |-> e[f].name, download |-> e[f].download, digest |-> e[f].digest]
  BY <1>2 DEF IsDisk
<1>5. IsDisk(e)
  BY ONLY <1>3, <1>4 DEF IsDisk
<1> QED BY ONLY <1>2, <1>5, n \in Files

\* Removing a partial file leaves the file itself and all others alone.
LEMMA DiskCleared ==
  ASSUME NEW d, IsDisk(d), NEW w, w # NoJob, NEW part, NEW digest,
         NEW e, e = remove_download_file(d, w, part, digest)
  PROVE  /\ IsDisk(e)
         /\ \A f \in Files : f # w.file_num => e[f] = d[f]
         /\ w.file_num \in Files =>
              /\ e[w.file_num].name = d[w.file_num].name
              /\ e[w.file_num].download \in {Absent, d[w.file_num].download}
              /\ e[w.file_num].digest \in {NoDigest, d[w.file_num].digest}
<1>1. CASE w.file_num \notin Files
  BY <1>1 DEF remove_download_file
<1>2. CASE w.file_num \in Files
  <2>1. PICK n \in Files : n = w.file_num
    BY <1>2
  <2>2. PICK b : b = IF part THEN Absent ELSE d[n].download
    OBVIOUS
  <2>3. PICK c : c = IF digest THEN NoDigest ELSE d[n].digest
    OBVIOUS
  <2>4. e = Changed(d, n, d[n].name, b, c)
    BY <2>1, <2>2, <2>3 DEF remove_download_file, Changed
  <2>5. /\ IsDisk(e) /\ e[n].name = d[n].name /\ e[n].download = b /\ e[n].digest = c
        /\ \A f \in Files : f # n => e[f] = d[f]
    BY <2>4, DiskChanged
  <2> QED BY <2>1, <2>2, <2>3, <2>5
<1> QED BY <1>1, <1>2

\* modify_time gives the writer's file its name, if it has a partial one, and no other.
LEMMA Renamed ==
  ASSUME NEW d, IsDisk(d), NEW w, NEW renamed, NEW removed,
         NEW e, e = modify_time(d, w, renamed, removed)
  PROVE  /\ IsDisk(e)
         /\ \A f \in Files : f # w.file_num => e[f] = d[f]
         /\ w.file_num \in Files =>
              /\ e[w.file_num].name # d[w.file_num].name =>
                   renamed /\ d[w.file_num].download # Absent
              /\ renamed /\ d[w.file_num].download # Absent =>
                   e[w.file_num].name = d[w.file_num].download
              /\ e[w.file_num].download \in {Absent, d[w.file_num].download}
              /\ e[w.file_num].digest \in {NoDigest, d[w.file_num].digest}
<1>1. CASE w.file_num \notin Files
  BY <1>1 DEF modify_time
<1>2. CASE w.file_num \in Files
  <2>1. PICK n \in Files : n = w.file_num
    BY <1>2
  <2>2. PICK a : a = IF renamed /\ d[n].download # Absent THEN d[n].download ELSE d[n].name
    OBVIOUS
  <2>3. PICK b : b = IF renamed THEN Absent ELSE d[n].download
    OBVIOUS
  <2>4. PICK c : c = IF removed THEN NoDigest ELSE d[n].digest
    OBVIOUS
  <2>5. e = Changed(d, n, a, b, c)
    BY <2>1, <2>2, <2>3, <2>4 DEF modify_time, Changed
  <2>6. /\ IsDisk(e) /\ e[n].name = a /\ e[n].download = b /\ e[n].digest = c
        /\ \A f \in Files : f # n => e[f] = d[f]
    BY <2>5, DiskChanged
  <2> QED BY <2>1, <2>2, <2>3, <2>4, <2>6
<1> QED BY <1>1, <1>2

\* The disk with a new and empty name.download of digest v, as TransferJob::write opens it.
Created(d, n, v) == [d EXCEPT ![n].download = Data(<<>>), ![n].digest = v]

\* Creating a partial file leaves the file itself and all others alone.
LEMMA DiskCreated ==
  ASSUME NEW d, IsDisk(d), NEW n \in Files, NEW v, NEW e, e = Created(d, n, v)
  PROVE  /\ IsDisk(e) /\ e[n].name = d[n].name /\ e[n].download = Data(<<>>) /\ e[n].digest = v
         /\ \A f \in Files : f # n => e[f] = d[f]
<1>1. PICK r : r = d[n]
  OBVIOUS
<1>2. r = [name |-> r.name, download |-> r.download, digest |-> r.digest]
  BY <1>1 DEF IsDisk
<1>3. [[r EXCEPT !.download = Data(<<>>)] EXCEPT !.digest = v]
        = [name |-> r.name, download |-> Data(<<>>), digest |-> v]
  <2>1. PICK q : q = [r EXCEPT !.download = Data(<<>>)]
    OBVIOUS
  <2>2. q = [name |-> r.name, download |-> Data(<<>>), digest |-> r.digest]
    BY <1>2, <2>1
  <2>3. [q EXCEPT !.digest = v] = [name |-> r.name, download |-> Data(<<>>), digest |-> v]
    BY <2>2
  <2> QED BY <2>1, <2>3
<1>4. d = [f \in Files |-> d[f]]
  BY DEF IsDisk
<1>5. e = Changed(d, n, r.name, Data(<<>>), v)
  BY <1>1, <1>3, <1>4 DEF Created, Changed
<1> QED BY <1>1, <1>5, DiskChanged

\* The disk with digest v beside file n.
Noted(d, n, v) == [d EXCEPT ![n].digest = v]

\* Writing the digest beside a file leaves the file alone.
LEMMA DiskNoted ==
  ASSUME NEW d, IsDisk(d), NEW n \in Files, NEW v, NEW e, e = Noted(d, n, v)
  PROVE  IsDisk(e) /\ \A f \in Files : e[f].name = d[f].name /\ (f # n => e[f] = d[f])
<1>1. PICK r : r = d[n]
  OBVIOUS
<1>2. r = [name |-> r.name, download |-> r.download, digest |-> r.digest]
  BY <1>1 DEF IsDisk
<1>3. [r EXCEPT !.digest = v] = [name |-> r.name, download |-> r.download, digest |-> v]
  BY <1>2
<1>4. d = [f \in Files |-> d[f]]
  BY DEF IsDisk
<1>5. e = Changed(d, n, r.name, r.download, v)
  BY <1>1, <1>3, <1>4 DEF Noted, Changed
<1>6. IsDisk(e) /\ e[n].name = r.name /\ \A f \in Files : f # n => e[f] = d[f]
  BY ONLY IsDisk(d), n \in Files, <1>5, DiskChanged
<1> QED BY ONLY <1>1, <1>6

\* A disk is itself with the digest it has.
LEMMA DiskSame ==
  ASSUME NEW d, IsDisk(d), NEW n \in Files
  PROVE  \E v : d = Noted(d, n, v)
<1>1. PICK r : r = d[n]
  OBVIOUS
<1>2. r = [name |-> r.name, download |-> r.download, digest |-> r.digest]
  BY <1>1 DEF IsDisk
<1>3. [r EXCEPT !.digest = r.digest] = r
  BY <1>2
<1>4. d = [f \in Files |-> d[f]]
  BY DEF IsDisk
<1>5. d = [d EXCEPT ![n] = r]
  BY <1>1, <1>4
<1>6. d = Noted(d, n, r.digest)
  BY <1>1, <1>3, <1>5 DEF Noted
<1> QED BY <1>6

\* Writing a block changes the partial file of n from the place on, and nothing else.
LEMMA DiskWritten ==
  ASSUME NEW d, IsDisk(d), NEW n \in Files, NEW p, NEW data, NEW e, e = Written(d, n, p, data)
  PROVE  /\ IsDisk(e) /\ e[n].digest = d[n].digest
         /\ d[n].download # Absent =>
              e[n].name = d[n].name /\ e[n].download = Patched(d[n].download, p, data)
         /\ \A f \in Files : f # n => e[f] = d[f]
<1>1. PICK r : r = d[n]
  OBVIOUS
<1>2. r = [name |-> r.name, download |-> r.download, digest |-> r.digest]
  BY <1>1 DEF IsDisk
<1>3. d = [f \in Files |-> d[f]]
  BY DEF IsDisk
<1>4. CASE d[n].download # Absent
  <2>1. PICK x : x = Patched(d[n].download, p, data)
    OBVIOUS
  <2>2. e = [d EXCEPT ![n].download = x]
    BY <1>4, <2>1 DEF Written
  <2>3. [r EXCEPT !.download = x] = [name |-> r.name, download |-> x, digest |-> r.digest]
    BY <1>2
  <2>4. e = Changed(d, n, r.name, x, r.digest)
    BY <1>1, <1>3, <2>2, <2>3 DEF Changed
  <2> QED BY <1>1, <2>1, <2>4, DiskChanged
<1>5. CASE d[n].download = Absent
  <2>1. PICK x : x = Patched(d[n].name, p, data)
    OBVIOUS
  <2>2. e = [d EXCEPT ![n].name = x]
    BY <1>5, <2>1 DEF Written
  <2>3. [r EXCEPT !.name = x] = [name |-> x, download |-> r.download, digest |-> r.digest]
    BY <1>2
  <2>4. e = Changed(d, n, x, r.download, r.digest)
    BY <1>1, <1>3, <2>2, <2>3 DEF Changed
  <2> QED BY <1>1, <1>5, <2>4, DiskChanged
<1> QED BY <1>4, <1>5

\* Parts of a version: their length, and that the empty and the whole file are parts.
LEMMA PartFacts ==
  /\ \A v, p : Part(v, p) # Absent /\ Part(v, p).blocks = [i \in 1 .. p |-> <<v, i>>]
  /\ \A v : \A p \in Nat : Len([i \in 1 .. p |-> <<v, i>>]) = p
  /\ \A v : Data(<<>>) = Part(v, 0)
  /\ \A v, f : Whole(v, f) = Part(v, Size[f])
  /\ \A x : Data(x) # Absent
<1>1. ASSUME NEW v PROVE Data(<<>>) = Part(v, 0)
  <2>1. [i \in 1 .. 0 |-> <<v, i>>] = <<>>
    OBVIOUS
  <2> QED BY <2>1 DEF Part
<1>2. ASSUME NEW v, NEW p \in Nat PROVE Len([i \in 1 .. p |-> <<v, i>>]) = p
  OBVIOUS
<1>3. \A v, p : Part(v, p) # Absent /\ Part(v, p).blocks = [i \in 1 .. p |-> <<v, i>>]
  BY DEF Part, Data, Absent
<1> QED BY <1>1, <1>2, <1>3 DEF Whole, Part, Data, Absent

\* The next block of a part makes the next part.
LEMMA PartGrows ==
  ASSUME NEW v, NEW p \in Nat, NEW q, q = [i \in 1 .. p |-> <<v, i>>], NEW data
  PROVE  /\ data = << <<v, p + 1>> >> =>
              SubSeq(q, 1, p) \o data \o SubSeq(q, p + Len(data) + 1, Len(q))
                = [i \in 1 .. p + 1 |-> <<v, i>>]
         /\ data = <<>> => SubSeq(q, 1, p) \o data \o SubSeq(q, p + Len(data) + 1, Len(q)) = q
<1> DEFINE S == {v} \X Nat
<1>1. q \in Seq(S) /\ Len(q) = p
  <2>1. q \in [1 .. p -> S]
    OBVIOUS
  <2> QED BY <2>1, SeqDef
<1>2. SubSeq(q, 1, p) = q
  BY <1>1
<1>3. SubSeq(q, p + 1, p) = <<>> /\ SubSeq(q, p + 2, p) = <<>>
  BY <1>1
<1>4. Len(<< <<v, p + 1>> >>) = 1 /\ Len(<<>>) = 0
  OBVIOUS
<1>5. << <<v, p + 1>> >> \in Seq(S)
  OBVIOUS
<1>6. q \o << <<v, p + 1>> >> \o <<>> = [i \in 1 .. p + 1 |-> <<v, i>>]
  <2>1. PICK b : b = <<v, p + 1>>
    OBVIOUS
  <2>2. b \in S
    BY <2>1
  <2> HIDE DEF S
  <2>3. q \o <<b>> = Append(q, b)
    BY <1>1, <2>2
  <2>4. Append(q, b) \in Seq(S) /\ Len(Append(q, b)) = p + 1
    BY <1>1, <2>2
  <2>5. \A i \in 1 .. p + 1 : Append(q, b)[i] = <<v, i>>
    BY <1>1, <2>1, <2>2
  <2>6. Append(q, b) = [i \in 1 .. p + 1 |-> <<v, i>>]
    BY <2>4, <2>5
  <2>7. Append(q, b) \o <<>> = Append(q, b)
    BY <2>4
  <2> QED BY <2>1, <2>3, <2>6, <2>7
<1>7. q \o <<>> \o <<>> = q
  BY <1>1
<1>8. ASSUME data = << <<v, p + 1>> >>
      PROVE  SubSeq(q, 1, p) \o data \o SubSeq(q, p + Len(data) + 1, Len(q))
               = [i \in 1 .. p + 1 |-> <<v, i>>]
  <2>1. Len(data) = 1 /\ p + Len(data) + 1 = p + 2
    BY <1>4, <1>8
  <2>2. q \o data \o <<>> = [i \in 1 .. p + 1 |-> <<v, i>>]
    BY ONLY <1>6, <1>8, Zenon
  <2> QED BY ONLY <1>1, <1>2, <1>3, <2>1, <2>2, Zenon
<1>9. ASSUME data = <<>>
      PROVE  SubSeq(q, 1, p) \o data \o SubSeq(q, p + Len(data) + 1, Len(q)) = q
  <2>1. Len(data) = 0 /\ p + Len(data) + 1 = p + 1
    BY <1>4, <1>9
  <2> QED BY ONLY <1>1, <1>2, <1>3, <1>7, <1>9, <2>1, Zenon
<1> QED BY <1>8, <1>9

\* What Written makes of a part, for the block after it or an empty one.
LEMMA PartExtended ==
  ASSUME NEW v, NEW p \in Nat, NEW data,
         data = <<>> \/ data = << <<v, p + 1>> >>
  PROVE  /\ Patched(Part(v, p), p, data) = Part(v, p + Len(data))
         /\ data = <<>> => Len(data) = 0
         /\ data # <<>> => Len(data) = 1
<1>1. PICK q : q = Part(v, p).blocks
  OBVIOUS
<1>2. q = [i \in 1 .. p |-> <<v, i>>]
  BY <1>1 DEF Part, Data
<1>3. CASE data = <<>>
  <2>1. SubSeq(q, 1, p) \o data \o SubSeq(q, p + Len(data) + 1, Len(q)) = q
    BY <1>2, <1>3, PartGrows
  <2>2. Len(data) = 0 /\ p + Len(data) = p
    BY <1>3
  <2> QED BY <1>1, <1>2, <1>3, <2>1, <2>2 DEF Part, Patched
<1>4. CASE data = << <<v, p + 1>> >>
  <2>1. SubSeq(q, 1, p) \o data \o SubSeq(q, p + Len(data) + 1, Len(q)) = [i \in 1 .. p + 1 |-> <<v, i>>]
    BY <1>2, <1>4, PartGrows
  <2>2. Len(data) = 1 /\ data # <<>>
    BY <1>4
  <2> QED BY <1>1, <2>1, <2>2 DEF Part, Patched
<1> QED BY <1>3, <1>4

\* DigestOK when the writer's side takes a message and the reader does nothing.
LEMMA DigestPopped ==
  ASSUME IInv, Popped(toWriter, toWriter'), UNCHANGED <<source, reader, direction>>,
         direction = "download" /\ writer = NoJob => writer' = NoJob
  PROVE  DigestOK'
<1> SUFFICES ASSUME NEW i \in Indices(toWriter'), toWriter'[i].type = "digest"
             PROVE  /\ \A j \in Indices(toWriter') : i < j => toWriter'[j].type = "cancel"
                    /\ reader' # NoJob => /\ i = Len(toWriter')
                                          /\ reader'.stream # Closed /\ ~reader'.file_confirmed
                                          /\ toWriter'[i].file_num = reader'.file_num
                                          /\ toWriter'[i].version = source'
                    /\ reader' = NoJob /\ direction' = "download" => writer' = NoJob
  BY DEF DigestOK
<1>1. /\ Len(toWriter) \in Nat /\ Len(toWriter) = Len(toWriter') + 1 /\ Len(toWriter') \in Nat
      /\ i + 1 \in Indices(toWriter) /\ toWriter[i + 1] = toWriter'[i] /\ i \in Nat
  BY QueuesThere DEF Popped, Indices, IsQueue
<1>2. ASSUME NEW j \in Indices(toWriter'), i < j PROVE toWriter'[j].type = "cancel"
  <2>1. /\ j + 1 \in Indices(toWriter) /\ toWriter[j + 1] = toWriter'[j] /\ j \in Nat
        /\ i + 1 < j + 1
    BY <1>1, <1>2 DEF Popped, Indices
  <2> QED BY <1>1, <2>1 DEF IInv, Protocol, DigestOK
<1>3. reader # NoJob => /\ i + 1 = Len(toWriter)
                        /\ reader.stream # Closed /\ ~reader.file_confirmed
                        /\ toWriter'[i].file_num = reader.file_num
                        /\ toWriter'[i].version = source
  BY <1>1 DEF IInv, Protocol, DigestOK
<1>4. reader = NoJob /\ direction = "download" => writer = NoJob
  BY <1>1 DEF IInv, Protocol, DigestOK
<1>5. reader # NoJob => i = Len(toWriter')
  BY ONLY <1>1, <1>3
<1> QED BY <1>2, <1>3, <1>4, <1>5

\* ReaderOK when the writer's side takes a message and the reader does nothing.
LEMMA ReaderPopped ==
  ASSUME IInv, Popped(toWriter, toWriter'), UNCHANGED reader
  PROVE  ReaderOK'
<1>0. /\ Len(toWriter) \in Nat /\ Len(toWriter) = Len(toWriter') + 1 /\ Len(toWriter') \in Nat
  BY QueuesThere DEF Popped, IsQueue
<1>1. Waiting' => Len(toWriter') = 0
  <2> SUFFICES ASSUME ReaderOpen, ~reader.file_confirmed, ~Has(toWriter, "digest")'
               PROVE  Len(toWriter') = 0
    BY DEF Waiting, ReaderOpen
  <2>1. CASE Has(toWriter, "digest")
    <3>1. PICK i \in Indices(toWriter) : toWriter[i].type = "digest"
      BY <2>1 DEF Has
    <3>2. i = Len(toWriter)
      BY <3>1 DEF IInv, Protocol, DigestOK, ReaderOpen
    <3>3. ASSUME i # 1 PROVE FALSE
      <4>1. i - 1 \in Indices(toWriter') /\ toWriter'[i - 1] = toWriter[i]
        BY <1>0, <3>3 DEF Popped, Indices
      <4> QED BY <3>1, <4>1 DEF Has
    <3> QED BY <1>0, <3>2, <3>3
  <2>2. CASE ~Has(toWriter, "digest")
    BY <1>0, <2>2 DEF IInv, Protocol, ReaderOK, Waiting
  <2> QED BY <2>1, <2>2
<1>2. ASSUME Confirmed, NEW i \in Indices(toWriter')
      PROVE  /\ toWriter'[i].file_num = reader.file_num
             /\ toWriter'[i].type = "block" /\ toWriter'[i].data # <<>>
  <2>1. i + 1 \in Indices(toWriter) /\ toWriter[i + 1] = toWriter'[i] /\ i + 1 # 1
    BY <1>0 DEF Popped, Indices
  <2> QED BY <1>2, <2>1 DEF IInv, Protocol, ReaderOK
<1>3. /\ ReaderOpen => reader.file_num \in Files
      /\ ReaderOpen /\ ~reader.file_confirmed => reader.stream = StreamAt(0)
      /\ Confirmed => reader.stream # Closed
  BY DEF IInv, Protocol, ReaderOK
<1> QED BY <1>1, <1>2, <1>3 DEF ReaderOK, ReaderOpen, Confirmed

\* A last block under way is still under way unless it is the message taken.
LEMMA ComingPopped ==
  ASSUME IInv, Popped(toWriter, toWriter'), NEW f, Coming(f)
  PROVE  Coming(f)' \/ LastBlock(toWriter[1], f)
<1>1. PICK i \in Indices(toWriter) : LastBlock(toWriter[i], f)
  BY DEF Coming
<1>2. CASE i = 1
  BY <1>1, <1>2
<1>3. CASE i # 1
  <2>1. Len(toWriter) \in Nat /\ Len(toWriter) = Len(toWriter') + 1 /\ Len(toWriter') \in Nat
    BY QueuesThere DEF Popped, IsQueue
  <2>2. i - 1 \in Indices(toWriter') /\ toWriter'[i - 1] = toWriter[i]
    BY <1>3, <2>1 DEF Popped, Indices
  <2>3. LastBlock(toWriter'[i - 1], f)
    BY <1>1, <2>2
  <2> QED BY <2>2, <2>3 DEF Coming
<1> QED BY <1>2, <1>3

\* is_write_need_confirmation offers to go on only with a part of the announced version.
LEMMA OfferedPart ==
  ASSUME IInv, NEW n \in Files, NEW v, v # NoDigest, NEW readable,
         NEW k \in NeedConfirm(n, v, readable), k # 0, n \notin torn
  PROVE  Holds(n, v, k)
<1>1. disk[n].digest = v /\ disk[n].download # Absent /\ k = Len(disk[n].download.blocks)
  BY DEF NeedConfirm
<1>2. PICK p \in Nat : Holds(n, disk[n].digest, p)
  BY <1>1 DEF IInv, Contents, PartsOK
<1>3. disk[n].download = Part(v, p) /\ p <= Size[n]
  BY <1>1, <1>2 DEF Holds
<1>4. k = p
  <2>1. disk[n].download.blocks = [i \in 1 .. p |-> <<v, i>>]
    BY <1>3, PartFacts
  <2>2. Len([i \in 1 .. p |-> <<v, i>>]) = p
    BY PartFacts
  <2> QED BY <1>1, <2>1, <2>2
<1> QED BY <1>1, <1>3, <1>4 DEF Holds

\* When the reader has nothing more for the writer, modify_time settles all files.
LEMMA AllNamed ==
  ASSUME IInv, writer # NoJob, ReaderAt = NFiles, \A g : ~Coming(g), NEW f \in Files,
         NEW renamed, NEW removed, disk' = modify_time(disk, writer, renamed, removed),
         torn \subseteq torn', failed' = failed \cup Unnamed(writer, renamed),
         UNCHANGED <<skips, lost, first, source>>
  PROVE  Settled(f)'
<1>n. PICK n : n = writer.file_num
  OBVIOUS
<1>0. /\ n \in Nat /\ f \in Nat /\ NFiles \in Nat /\ f < NFiles
      /\ source \in Nat /\ first \in Nat /\ first <= source
  BY <1>n, WriterThere, FilesNat DEF IInv, Shapes, NumbersOK
<1>1. /\ \A g \in Files : g # n => disk'[g] = disk[g]
      /\ n \in Files /\ renamed =>
           disk'[n].name = IF disk[n].download # Absent THEN disk[n].download ELSE disk[n].name
  <2>1. IsDisk(disk)
    BY DEF IInv, Shapes, JobsOK
  <2> QED BY <1>n, <2>1, Renamed
<1>2. Excused \subseteq Excused'
  BY DEF Excused
<1>3. CASE f < n
  <2>1. Settled(f)
    BY <1>n, <1>3 DEF IInv, Owed, PassedOK
  <2>2. disk'[f] = disk[f]
    BY <1>0, <1>1, <1>3
  <2> QED BY <1>2, <2>1, <2>2 DEF Settled, Arrived
<1>4. CASE f >= n
  <2>1. f \in Excused \/ (f = n /\ writer.stream # Closed /\ writer.stream.pos = Size[f])
    BY <1>n, <1>0, <1>4 DEF IInv, Owed, PassedOK
  <2>2. CASE f \in Excused
    BY <1>2, <2>2 DEF Settled
  <2>3. CASE f = n /\ writer.stream # Closed /\ writer.stream.pos = Size[f] /\ f \notin Excused
    <3>1. Holds(f, source, Size[f])
      BY <1>n, <2>3 DEF IInv, Contents, OpenOK, WriterOpen, Excused
    <3>2. disk[f].download = Whole(source, f) /\ Whole(source, f) # Absent
      BY <3>1, PartFacts DEF Holds
    <3>3. CASE renamed
      <4>1. disk'[f].name = Whole(source, f)
        BY <1>1, <2>3, <3>2, <3>3
      <4>2. source \in first .. source
        BY <1>0
      <4> QED BY <4>1, <4>2 DEF Settled, Arrived
    <3>4. CASE ~renamed
      <4>1. f \in failed'
        BY <1>n, <2>3, <3>2, <3>4 DEF Unnamed, PartOf
      <4> QED BY <4>1 DEF Settled, Excused
    <3> QED BY <3>3, <3>4
  <2> QED BY <2>1, <2>2, <2>3
<1> QED BY <1>0, <1>3, <1>4

\* init_data_stream: the reader opens its file, announces its digest and waits.
LEMMA OpenFileStep ==
  ASSUME IInv, OpenFile
  PROVE  IInv'
<1> DEFINE m == [type |-> "digest", file_num |-> reader.file_num, version |-> source]
<1>1. /\ reader # NoJob /\ reader.file_num < NFiles /\ reader.stream = Closed
      /\ UNCHANGED <<source, disk, writer, asked, toReader, status, direction, resume, strategy,
                     saved, jobs, first, skips, lost, torn, failed>>
  BY DEF OpenFile, uiVars, history
<1>2. /\ IsReader(reader') /\ reader' # NoJob /\ reader'.file_num = reader.file_num
      /\ reader'.stream = StreamAt(0) /\ reader'.stream # Closed /\ ~reader'.file_confirmed
  <2>1. IsStream(StreamAt(0))
    BY StreamFacts
  <2>2. MadeReader(reader', reader.file_num, StreamAt(0), FALSE)
    BY <1>1, <2>1, ReaderThere, ReaderUpdates, Zenon DEF OpenFile
  <2> QED BY <2>2, StreamFacts DEF MadeReader
<1>3. Grown(toWriter, toWriter', m)
  BY SendOne, QueuesThere DEF OpenFile, ReaderSends
<1>4. /\ m.type = "digest" /\ m.file_num = reader.file_num /\ m.version = source
      /\ m.file_num \in Files
  BY <1>1, ReaderThere, QueuesThere
<1>0. /\ Len(toWriter) \in Nat /\ Len(toReader) \in Nat /\ reader.file_num \in Nat
      /\ writer # NoJob => writer.file_num \in Nat
  BY <1>1, QueuesThere, ReaderThere, WriterThere
<1> HIDE DEF m
<1> USE <1>0, <1>1, <1>2, <1>3, <1>4
<1>a. Shapes'
  <2>1. JobsOK'
    BY DEF IInv, Shapes, JobsOK, Grown
  <2>2. MessagesOK'
    BY DEF IInv, Shapes, MessagesOK, Grown, Indices, IsMessage, ToWriterTypes,
       ToReaderTypes
  <2>3. NumbersOK'
    BY DEF IInv, Shapes, NumbersOK
  <2> QED BY <2>1, <2>2, <2>3 DEF Shapes
<1>b. Protocol'
  <2> USE DEF Grown, Indices, Has, ReaderOpen, Confirmed, WriterOpen, Waiting
  <2>1. IdleOK'
    BY DEF IInv, Protocol, IdleOK, Idle
  <2>2. ReceiveOK'
    BY DEF IInv, Protocol, ReceiveOK
  <2>3. SendOK'
    BY DEF IInv, Protocol, SendOK
  <2>4. DigestOK'
    BY DEF IInv, Protocol, DigestOK
  <2>5. AnswersOK'
    BY DEF IInv, Protocol, AnswersOK, Answer
  <2>6. ReaderOK'
    BY DEF IInv, Protocol, ReaderOK
  <2>7. BlocksOK'
    BY DEF IInv, Protocol, BlocksOK, ReaderOK
  <2>8. ConfirmOK'
    BY DEF IInv, Protocol, ConfirmOK, ReaderOK
  <2>9. WriterOK'
    BY DEF IInv, Protocol, WriterOK, Deserted, Answer, ReaderOK
  <2>10. EndOK'
    BY DEF IInv, Protocol, EndOK
  <2> QED BY <2>1, <2>2, <2>3, <2>4, <2>5, <2>6, <2>7, <2>8, <2>9, <2>10 DEF Protocol
<1>c. Contents'
  <2> USE DEF Grown, Indices, Has, ReaderOpen, Confirmed, WriterOpen, Waiting
  <2>1. PartsOK'
    BY DEF IInv, Contents, PartsOK, Holds
  <2>2. OpenOK'
    BY DEF IInv, Contents, OpenOK, Holds
  <2>3. OffersOK'
    BY DEF IInv, Contents, OffersOK, Holds
  <2>4. StreamOK'
    BY DEF IInv, Contents, StreamOK, Base
  <2> QED BY <2>1, <2>2, <2>3, <2>4 DEF Contents
<1>d. Owed'
  <2> USE DEF Grown, Indices, Has, ReaderOpen, Confirmed, WriterOpen, Waiting
  <2>1. SkipsOK'
    BY DEF IInv, Owed, SkipsOK
  <2>2. PassedOK'
    BY FilesNat DEF IInv, Owed, PassedOK, ReaderAt, SendPending, Settled, Arrived,
       Excused, Coming
  <2>3. PendingOK'
    BY FilesNat DEF IInv, Owed, PendingOK, ReaderAt, SendPending, Settled, Arrived,
       Excused, Coming
  <2>4. ErrorOK'
    BY FilesNat DEF IInv, Owed, ErrorOK, ReaderAt, SendPending, Settled, Arrived,
       Excused, Coming
  <2>5. OverOK'
    BY FilesNat DEF IInv, Owed, OverOK, ReaderAt, SendPending, Settled, Arrived,
       Excused, Coming
  <2> QED BY <2>1, <2>2, <2>3, <2>4, <2>5 DEF Owed
<1> QED BY <1>a, <1>b, <1>c, <1>d DEF IInv

\* TransferJob::read: the next block of the file is sent.
LEMMA ReadBlockStep ==
  ASSUME IInv, NEW pos, pos = reader.stream.pos, pos < Size[reader.file_num],
         reader # NoJob, reader.file_confirmed, reader.stream # Closed,
         reader' = [reader EXCEPT !.stream = StreamAt(pos + 1)],
         ReaderSends(<<[type |-> "block", file_num |-> reader.file_num,
                        data |-> << <<source, pos + 1>> >>]>>),
         UNCHANGED <<source, disk, writer, asked, toReader, status, uiVars, history>>
  PROVE  IInv'
<1> DEFINE m == [type |-> "block", file_num |-> reader.file_num, data |-> << <<source, pos + 1>> >>]
<1>1. UNCHANGED <<source, disk, writer, asked, toReader, status, direction, resume, strategy,
                     saved, jobs, first, skips, lost, torn, failed>>
  BY DEF uiVars, history
<1>2. /\ IsReader(reader') /\ reader' # NoJob /\ reader'.file_num = reader.file_num
      /\ reader'.stream.pos = pos + 1 /\ reader'.stream # Closed /\ reader'.file_confirmed
  <2>1. IsStream(StreamAt(pos + 1))
    BY StreamFacts
  <2>2. MadeReader(reader', reader.file_num, StreamAt(pos + 1), TRUE)
    BY <2>1, ReaderThere, ReaderUpdates, Zenon
  <2> QED BY <2>2, StreamFacts DEF MadeReader
<1>3. Grown(toWriter, toWriter', m)
  BY SendOne, QueuesThere DEF ReaderSends
<1>4. /\ m.type = "block" /\ m.file_num = reader.file_num /\ m.file_num \in Files
      /\ m.data = << <<source, pos + 1>> >> /\ m.data # <<>>
  BY DEF IInv, Protocol, ReaderOK, ReaderOpen
<1>0. /\ Len(toWriter) \in Nat /\ Len(toReader) \in Nat /\ reader.file_num \in Nat
      /\ writer # NoJob => writer.file_num \in Nat
  BY <1>1, QueuesThere, ReaderThere, WriterThere
<1> HIDE DEF m
<1> USE <1>0, <1>1, <1>2, <1>3, <1>4
<1>a. Shapes'
  <2>1. JobsOK'
    BY DEF IInv, Shapes, JobsOK, Grown
  <2>2. MessagesOK'
    BY DEF IInv, Shapes, MessagesOK, Grown, Indices, IsMessage, ToWriterTypes,
       ToReaderTypes
  <2>3. NumbersOK'
    BY DEF IInv, Shapes, NumbersOK
  <2> QED BY <2>1, <2>2, <2>3 DEF Shapes
<1>b. Protocol'
  <2> USE DEF Grown, Indices, Has, ReaderOpen, Confirmed, WriterOpen, Waiting
  <2>1. IdleOK'
    BY DEF IInv, Protocol, IdleOK, Idle
  <2>2. ReceiveOK'
    BY DEF IInv, Protocol, ReceiveOK
  <2>3. SendOK'
    BY DEF IInv, Protocol, SendOK
  <2>4. DigestOK'
    BY DEF IInv, Protocol, DigestOK
  <2>5. AnswersOK'
    BY DEF IInv, Protocol, AnswersOK, Answer
  <2>6. ReaderOK'
    <3>1. reader.file_num \in Files
      BY DEF IInv, Protocol, ReaderOK
    <3>2. \A i \in Indices(toWriter') :
            /\ toWriter'[i].file_num = reader.file_num
            /\ \/ toWriter'[i].type = "confirm" /\ i = 1 /\ ~toWriter'[i].skip
               \/ toWriter'[i].type = "block" /\ toWriter'[i].data # <<>>
      <4> TAKE i \in Indices(toWriter')
      <4>1. CASE i \in Indices(toWriter)
        BY <4>1 DEF IInv, Protocol, ReaderOK
      <4>2. CASE i = Len(toWriter) + 1
        BY <4>2
      <4> QED BY <4>1, <4>2
    <3> QED BY <3>1, <3>2 DEF ReaderOK
  <2>7. BlocksOK'
    <3>1. \A i \in Indices(toWriter') :
            /\ toWriter'[i].file_num = reader.file_num
            /\ \/ toWriter'[i].type = "confirm" /\ i = 1 /\ ~toWriter'[i].skip
               \/ toWriter'[i].type = "block" /\ toWriter'[i].data # <<>>
      BY ONLY <2>6, <1>2 DEF ReaderOK
    <3>2. writer # NoJob => writer.file_num <= reader.file_num /\ writer.digest = source
      BY DEF IInv, Protocol, ReaderOK, AnswersOK, Answer, WriterOK, Deserted
    <3> HIDE DEF Indices, Grown, Has
    <3> QED BY ONLY <1>1, <1>2, <3>1, <3>2 DEF BlocksOK
  <2>8. ConfirmOK'
    BY DEF IInv, Protocol, ConfirmOK
  <2>9. WriterOK'
    BY DEF IInv, Protocol, WriterOK, Deserted, Answer
  <2>10. EndOK'
    BY DEF IInv, Protocol, EndOK
  <2> QED BY <2>1, <2>2, <2>3, <2>4, <2>5, <2>6, <2>7, <2>8, <2>9, <2>10 DEF Protocol
<1>c. Contents'
  <2> USE DEF Grown, Indices, Has, ReaderOpen, Confirmed, WriterOpen, Waiting
  <2>1. PartsOK'
    BY DEF IInv, Contents, PartsOK, Holds
  <2>2. OpenOK'
    BY DEF IInv, Contents, OpenOK, Holds
  <2>3. OffersOK'
    BY DEF IInv, Contents, OffersOK, Holds
  <2>4. StreamOK'
    <3> SUFFICES ASSUME writer # NoJob PROVE StreamOK'
      BY DEF StreamOK
    <3>1. \A f : Base(f)' = Base(f)
      BY DEF Base
    <3>2. \A i \in Indices(toWriter) : toWriter[i].file_num = reader.file_num
      BY DEF IInv, Protocol, ReaderOK
    <3>3. reader.file_num \notin torn =>
            /\ Base(reader.file_num) \in Int /\ pos = Base(reader.file_num) + Len(toWriter)
            /\ Size[reader.file_num] \in Nat
      <4> HAVE reader.file_num \notin torn
      <4>1. Base(reader.file_num) \in Int
        <5>1. Len(toWriter) > 0 => toWriter[1].file_num = reader.file_num
          BY <3>2
        <5> QED BY ONLY <5>1, IInv, writer # NoJob, reader.file_num \notin torn, BaseNumber
      <4>2. pos = Base(reader.file_num) + Len(toWriter)
        BY DEF IInv, Contents, StreamOK
      <4> QED BY <4>1, <4>2, QueuesThere
    <3>4. ASSUME NEW i \in Indices(toWriter'), toWriter'[i].type = "block",
                 toWriter'[i].file_num \notin torn'
          PROVE  /\ toWriter'[i].data # <<>> =>
                      /\ toWriter'[i].data = << <<source, Base(toWriter'[i].file_num) + i>> >>
                      /\ Base(toWriter'[i].file_num) + i <= Size[toWriter'[i].file_num]
                 /\ toWriter'[i].data = <<>> =>
                      Base(toWriter'[i].file_num) + i = Size[toWriter'[i].file_num] + 1
      <4>1. CASE i \in Indices(toWriter)
        BY <3>4, <4>1 DEF IInv, Contents, StreamOK
      <4>2. CASE i = Len(toWriter) + 1
        <5>1. toWriter'[i] = m /\ reader.file_num \notin torn
          BY <3>4, <4>2
        <5>2. Base(reader.file_num) + i = pos + 1 /\ pos + 1 <= Size[reader.file_num]
          <6>1. /\ Base(reader.file_num) \in Int /\ pos = Base(reader.file_num) + Len(toWriter)
                /\ Size[reader.file_num] \in Nat
            BY ONLY <3>3, <5>1
          <6> QED BY ONLY <6>1, <4>2, <1>0, pos < Size[reader.file_num]
        <5> QED BY ONLY <5>1, <5>2, <1>4
      <4> QED BY <4>1, <4>2
    <3>5. reader'.file_num \notin torn' =>
            /\ reader'.stream.pos = Base(reader'.file_num) + Len(toWriter')
            /\ reader'.stream.pos <= Size[reader'.file_num]
      BY <3>3
    <3> QED BY ONLY <3>1, <3>4, <3>5, <1>1 DEF StreamOK
  <2> QED BY <2>1, <2>2, <2>3, <2>4 DEF Contents
<1>d. Owed'
  <2> USE DEF Grown, Indices, Has, ReaderOpen, Confirmed, WriterOpen, Waiting
  <2>1. SkipsOK'
    BY DEF IInv, Owed, SkipsOK
  <2>2. PassedOK'
    BY FilesNat DEF IInv, Owed, PassedOK, ReaderAt, SendPending, Settled, Arrived,
       Excused, Coming
  <2>3. PendingOK'
    BY FilesNat DEF IInv, Owed, PendingOK, ReaderAt, SendPending, Settled, Arrived,
       Excused, Coming
  <2>4. ErrorOK'
    BY FilesNat DEF IInv, Owed, ErrorOK, ReaderAt, SendPending, Settled, Arrived,
       Excused, Coming
  <2>5. OverOK'
    BY FilesNat DEF IInv, Owed, OverOK, ReaderAt, SendPending, Settled, Arrived,
       Excused, Coming
  <2> QED BY <2>1, <2>2, <2>3, <2>4, <2>5 DEF Owed
<1> QED BY <1>a, <1>b, <1>c, <1>d DEF IInv

\* TransferJob::read at the end of the file: an empty block is sent, and the next file is due.
LEMMA ReadEndStep ==
  ASSUME IInv, NEW pos, pos = reader.stream.pos, pos >= Size[reader.file_num],
         reader # NoJob, reader.file_confirmed, reader.stream # Closed,
         reader' = [reader EXCEPT !.stream = Closed, !.file_confirmed = FALSE,
                                  !.file_is_waiting = FALSE, !.file_num = reader.file_num + 1],
         ReaderSends(<<[type |-> "block", file_num |-> reader.file_num, data |-> <<>>]>>),
         UNCHANGED <<source, disk, writer, asked, toReader, status, uiVars, history>>
  PROVE  IInv'
<1> DEFINE m == [type |-> "block", file_num |-> reader.file_num, data |-> <<>>]
<1>1. UNCHANGED <<source, disk, writer, asked, toReader, status, direction, resume, strategy,
                     saved, jobs, first, skips, lost, torn, failed>>
  BY DEF uiVars, history
<1>2. /\ IsReader(reader') /\ reader' # NoJob /\ reader'.file_num = reader.file_num + 1
      /\ reader'.stream = Closed /\ ~reader'.file_confirmed
      /\ reader.file_num \in Files
  <2>1. IsStream(Closed) /\ reader.file_num \in Files
    BY DEF IsStream, IInv, Protocol, ReaderOK, ReaderOpen
  <2>2. reader.file_num + 1 \in Nums
    BY <2>1, QueuesThere
  <2>3. MadeReader(reader', reader.file_num + 1, Closed, FALSE)
    BY <2>1, <2>2, ReaderThere, ReaderUpdates, Zenon
  <2> QED BY <2>1, <2>3 DEF MadeReader
<1>3. Grown(toWriter, toWriter', m)
  BY SendOne, QueuesThere DEF ReaderSends
<1>4. /\ m.type = "block" /\ m.file_num = reader.file_num /\ m.file_num \in Files
      /\ m.data = <<>> /\ LastBlock(m, reader.file_num)
  BY <1>2 DEF LastBlock
<1>0. /\ Len(toWriter) \in Nat /\ Len(toReader) \in Nat /\ reader.file_num \in Nat
      /\ writer # NoJob => writer.file_num \in Nat
  BY <1>1, QueuesThere, ReaderThere, WriterThere
<1> HIDE DEF m
<1> USE <1>0, <1>1, <1>2, <1>3, <1>4
<1>a. Shapes'
  <2>1. JobsOK'
    BY DEF IInv, Shapes, JobsOK, Grown
  <2>2. MessagesOK'
    BY DEF IInv, Shapes, MessagesOK, Grown, Indices, IsMessage, ToWriterTypes,
       ToReaderTypes
  <2>3. NumbersOK'
    BY DEF IInv, Shapes, NumbersOK
  <2> QED BY <2>1, <2>2, <2>3 DEF Shapes
<1>b. Protocol'
  <2> USE DEF Grown, Indices, Has, ReaderOpen, Confirmed, WriterOpen, Waiting
  <2>1. IdleOK'
    BY DEF IInv, Protocol, IdleOK, Idle
  <2>2. ReceiveOK'
    BY DEF IInv, Protocol, ReceiveOK
  <2>3. SendOK'
    BY DEF IInv, Protocol, SendOK
  <2>4. DigestOK'
    BY DEF IInv, Protocol, DigestOK, ReaderOK
  <2>5. AnswersOK'
    BY DEF IInv, Protocol, AnswersOK, Answer
  <2>6. ReaderOK'
    BY DEF IInv, Protocol, ReaderOK
  <2>7. BlocksOK'
    BY DEF IInv, Protocol, BlocksOK, ReaderOK, AnswersOK, Answer, WriterOK, Deserted
  <2>8. ConfirmOK'
    BY DEF IInv, Protocol, ConfirmOK, ReaderOK
  <2>9. WriterOK'
    BY DEF IInv, Protocol, WriterOK, Deserted, Answer, AnswersOK
  <2>10. EndOK'
    BY DEF IInv, Protocol, EndOK
  <2> QED BY <2>1, <2>2, <2>3, <2>4, <2>5, <2>6, <2>7, <2>8, <2>9, <2>10 DEF Protocol
<1>c. Contents'
  <2> USE DEF Grown, Indices, Has, ReaderOpen, Confirmed, WriterOpen, Waiting
  <2>1. PartsOK'
    BY DEF IInv, Contents, PartsOK, Holds
  <2>2. OpenOK'
    BY DEF IInv, Contents, OpenOK, Holds
  <2>3. OffersOK'
    BY DEF IInv, Contents, OffersOK, Holds
  <2>4. StreamOK'
    <3> SUFFICES ASSUME writer # NoJob PROVE StreamOK'
      BY DEF StreamOK
    <3>1. \A f : Base(f)' = Base(f)
      BY DEF Base
    <3>2. \A i \in Indices(toWriter) : toWriter[i].file_num = reader.file_num
      BY DEF IInv, Protocol, ReaderOK
    <3>3. ASSUME NEW i \in Indices(toWriter'), toWriter'[i].type = "block",
                 toWriter'[i].file_num \notin torn'
          PROVE  /\ toWriter'[i].data # <<>> =>
                      /\ toWriter'[i].data = << <<source, Base(toWriter'[i].file_num) + i>> >>
                      /\ Base(toWriter'[i].file_num) + i <= Size[toWriter'[i].file_num]
                 /\ toWriter'[i].data = <<>> =>
                      Base(toWriter'[i].file_num) + i = Size[toWriter'[i].file_num] + 1
      <4>1. CASE i \in Indices(toWriter)
        BY <3>3, <4>1 DEF IInv, Contents, StreamOK
      <4>2. CASE i = Len(toWriter) + 1
        <5>1. toWriter'[i] = m /\ reader.file_num \notin torn
          BY <3>3, <4>2
        <5>2. Len(toWriter) > 0 => toWriter[1].file_num = reader.file_num
          BY <3>2
        <5>3. Base(reader.file_num) \in Int
          BY ONLY <5>1, <5>2, IInv, writer # NoJob, BaseNumber
        <5>4. pos = Base(reader.file_num) + Len(toWriter) /\ pos <= Size[reader.file_num]
          BY <5>1 DEF IInv, Contents, StreamOK
        <5>5. Base(reader.file_num) + i = Size[reader.file_num] + 1
          <6>1. Size[reader.file_num] \in Nat
            BY QueuesThere
          <6> QED BY ONLY <5>3, <5>4, <6>1, <4>2, <1>0, pos >= Size[reader.file_num]
        <5> QED BY ONLY <5>1, <5>5, <1>4
      <4> QED BY <4>1, <4>2
    <3> QED BY ONLY <3>1, <3>3, <1>1, <1>2 DEF StreamOK, Confirmed
  <2> QED BY <2>1, <2>2, <2>3, <2>4 DEF Contents
<1>d. Owed'
  <2> USE DEF Grown, Indices, Has, ReaderOpen, Confirmed, WriterOpen, Waiting
  <2>1. SkipsOK'
    BY DEF IInv, Owed, SkipsOK
  <2>2. PassedOK'
    BY FilesNat DEF IInv, Owed, PassedOK, ReaderAt, SendPending, Settled, Arrived,
       Excused, Coming
  <2>3. PendingOK'
    BY FilesNat DEF IInv, Owed, PendingOK, ReaderAt, SendPending, Settled, Arrived,
       Excused, Coming, Protocol, ReaderOK
  <2>4. ErrorOK'
    BY FilesNat DEF IInv, Owed, ErrorOK, ReaderAt, SendPending, Settled, Arrived,
       Excused, Coming, Protocol, ReaderOK
  <2>5. OverOK'
    BY FilesNat DEF IInv, Owed, OverOK, ReaderAt, SendPending, Settled, Arrived,
       Excused, Coming
  <2> QED BY <2>1, <2>2, <2>3, <2>4, <2>5 DEF Owed
<1> QED BY <1>a, <1>b, <1>c, <1>d DEF IInv

\* TransferJob::read fails: the file is given up, and the next one is due.
LEMMA ReadFailsStep ==
  ASSUME IInv, reader # NoJob, reader.file_confirmed, reader.stream # Closed,
         reader' = [reader EXCEPT !.stream = Closed, !.file_confirmed = FALSE,
                                  !.file_is_waiting = FALSE, !.file_num = reader.file_num + 1],
         ReaderSends(<<[type |-> "error"]>>),
         failed' = failed \cup {f \in Files : f >= reader.file_num},
         UNCHANGED <<source, disk, writer, asked, toReader, status, uiVars, first, skips,
                     lost, torn>>
  PROVE  IInv'
<1> DEFINE m == [type |-> "error"]
<1>1. UNCHANGED <<source, disk, writer, asked, toReader, status, direction, resume, strategy,
                     saved, jobs, first, skips, lost, torn>>
  BY DEF uiVars
<1>2. /\ IsReader(reader') /\ reader' # NoJob /\ reader'.file_num = reader.file_num + 1
      /\ reader'.stream = Closed /\ ~reader'.file_confirmed
      /\ reader.file_num \in Files
  <2>1. IsStream(Closed) /\ reader.file_num \in Files
    BY DEF IsStream, IInv, Protocol, ReaderOK, ReaderOpen
  <2>2. reader.file_num + 1 \in Nums
    BY <2>1, QueuesThere
  <2>3. MadeReader(reader', reader.file_num + 1, Closed, FALSE)
    BY <2>1, <2>2, ReaderThere, ReaderUpdates, Zenon
  <2> QED BY <2>1, <2>3 DEF MadeReader
<1>3. Grown(toWriter, toWriter', m)
  BY SendOne, QueuesThere DEF ReaderSends
<1>4. m.type = "error"
  OBVIOUS
<1>0. /\ Len(toWriter) \in Nat /\ Len(toReader) \in Nat /\ reader.file_num \in Nat
      /\ writer # NoJob => writer.file_num \in Nat
  BY <1>1, QueuesThere, ReaderThere, WriterThere
<1> HIDE DEF m
<1> USE <1>0, <1>1, <1>2, <1>3, <1>4
<1>a. Shapes'
  <2>1. JobsOK'
    BY DEF IInv, Shapes, JobsOK, Grown
  <2>2. MessagesOK'
    BY DEF IInv, Shapes, MessagesOK, Grown, Indices, IsMessage, ToWriterTypes,
       ToReaderTypes
  <2>3. NumbersOK'
    BY DEF IInv, Shapes, NumbersOK
  <2> QED BY <2>1, <2>2, <2>3 DEF Shapes
<1>b. Protocol'
  <2> USE DEF Grown, Indices, Has, ReaderOpen, Confirmed, WriterOpen, Waiting
  <2>1. IdleOK'
    BY DEF IInv, Protocol, IdleOK, Idle
  <2>2. ReceiveOK'
    BY DEF IInv, Protocol, ReceiveOK
  <2>3. SendOK'
    BY DEF IInv, Protocol, SendOK
  <2>4. DigestOK'
    BY DEF IInv, Protocol, DigestOK, ReaderOK
  <2>5. AnswersOK'
    BY DEF IInv, Protocol, AnswersOK, Answer
  <2>6. ReaderOK'
    BY DEF IInv, Protocol, ReaderOK
  <2>7. BlocksOK'
    BY DEF IInv, Protocol, BlocksOK, ReaderOK, AnswersOK, Answer, WriterOK, Deserted
  <2>8. ConfirmOK'
    BY DEF IInv, Protocol, ConfirmOK, ReaderOK
  <2>9. WriterOK'
    BY DEF IInv, Protocol, WriterOK, Deserted, Answer, AnswersOK
  <2>10. EndOK'
    BY DEF IInv, Protocol, EndOK
  <2> QED BY <2>1, <2>2, <2>3, <2>4, <2>5, <2>6, <2>7, <2>8, <2>9, <2>10 DEF Protocol
<1>c. Contents'
  <2> USE DEF Grown, Indices, Has, ReaderOpen, Confirmed, WriterOpen, Waiting
  <2>1. PartsOK'
    BY DEF IInv, Contents, PartsOK, Holds
  <2>2. OpenOK'
    BY DEF IInv, Contents, OpenOK, Holds
  <2>3. OffersOK'
    BY DEF IInv, Contents, OffersOK, Holds
  <2>4. StreamOK'
    BY DEF IInv, Contents, StreamOK, Base, Protocol, ReaderOK
  <2> QED BY <2>1, <2>2, <2>3, <2>4 DEF Contents
<1>d. Owed'
  <2> USE DEF Grown, Indices, Has, ReaderOpen, Confirmed, WriterOpen, Waiting
  <2>1. SkipsOK'
    BY DEF IInv, Owed, SkipsOK
  <2>2. PassedOK'
    BY FilesNat DEF IInv, Owed, PassedOK, ReaderAt, SendPending, Settled, Arrived,
       Excused, Coming
  <2>3. PendingOK'
    BY FilesNat DEF IInv, Owed, PendingOK, ReaderAt, SendPending, Settled, Arrived,
       Excused, Coming, Protocol, ReaderOK
  <2>4. ErrorOK'
    BY FilesNat DEF IInv, Owed, ErrorOK, ReaderAt, SendPending, Settled, Arrived,
       Excused, Coming, Protocol, ReaderOK
  <2>5. OverOK'
    BY FilesNat DEF IInv, Owed, OverOK, ReaderAt, SendPending, Settled, Arrived,
       Excused, Coming
  <2> QED BY <2>1, <2>2, <2>3, <2>4, <2>5 DEF Owed
<1> QED BY <1>a, <1>b, <1>c, <1>d DEF IInv

\* handle_read_jobs after the last file: done is sent and the job removed.
LEMMA JobCompletedStep ==
  ASSUME IInv, reader # NoJob, reader.file_num >= NFiles, NEW t \in {"error", "done"},
         ReaderSends(<<[type |-> t]>>), reader' = NoJob,
         UNCHANGED <<source, disk, writer, asked, toReader, status, uiVars, history>>
  PROVE  IInv'
<1> DEFINE m == [type |-> t]
<1>1. UNCHANGED <<source, disk, writer, asked, toReader, status, direction, resume, strategy,
                     saved, jobs, first, skips, lost, torn, failed>>
  BY DEF uiVars, history
<1>2. reader' = NoJob
  OBVIOUS
<1>3. Grown(toWriter, toWriter', m)
  BY SendOne, QueuesThere DEF ReaderSends
<1>4. m.type = t
  OBVIOUS
<1>0. /\ Len(toWriter) \in Nat /\ Len(toReader) \in Nat /\ reader.file_num \in Nat
      /\ writer # NoJob => writer.file_num \in Nat
      /\ reader.file_num = NFiles /\ reader.file_num \notin Files
  BY <1>1, QueuesThere, ReaderThere, WriterThere DEF Nums, Files
<1> HIDE DEF m
<1> USE <1>0, <1>1, <1>2, <1>3, <1>4
<1>a. Shapes'
  <2>1. JobsOK'
    BY DEF IInv, Shapes, JobsOK, Grown
  <2>2. MessagesOK'
    BY DEF IInv, Shapes, MessagesOK, Grown, Indices, IsMessage, ToWriterTypes,
       ToReaderTypes
  <2>3. NumbersOK'
    BY DEF IInv, Shapes, NumbersOK
  <2> QED BY <2>1, <2>2, <2>3 DEF Shapes
<1>b. Protocol'
  <2> USE DEF Grown, Indices, Has, ReaderOpen, Confirmed, WriterOpen, Waiting
  <2>1. IdleOK'
    BY DEF IInv, Protocol, IdleOK, Idle
  <2>2. ReceiveOK'
    BY DEF IInv, Protocol, ReceiveOK
  <2>3. SendOK'
    BY DEF IInv, Protocol, SendOK
  <2>4. DigestOK'
    BY DEF IInv, Protocol, DigestOK, ReaderOK
  <2>5. AnswersOK'
    BY DEF IInv, Protocol, AnswersOK, Answer, ReaderOK
  <2>6. ReaderOK'
    BY DEF IInv, Protocol, ReaderOK
  <2>7. BlocksOK'
    BY DEF IInv, Protocol, BlocksOK, ReaderOK
  <2>8. ConfirmOK'
    BY DEF IInv, Protocol, ConfirmOK
  <2>9. WriterOK'
    BY DEF IInv, Protocol, WriterOK, Deserted, Answer
  <2>10. EndOK'
    BY DEF IInv, Protocol, EndOK
  <2> QED BY <2>1, <2>2, <2>3, <2>4, <2>5, <2>6, <2>7, <2>8, <2>9, <2>10 DEF Protocol
<1>c. Contents'
  <2> USE DEF Grown, Indices, Has, ReaderOpen, Confirmed, WriterOpen, Waiting
  <2>1. PartsOK'
    BY DEF IInv, Contents, PartsOK, Holds
  <2>2. OpenOK'
    BY DEF IInv, Contents, OpenOK, Holds
  <2>3. OffersOK'
    BY DEF IInv, Contents, OffersOK, Holds
  <2>4. StreamOK'
    BY DEF IInv, Contents, StreamOK, Base, Protocol, ReaderOK
  <2> QED BY <2>1, <2>2, <2>3, <2>4 DEF Contents
<1>d. Owed'
  <2> USE DEF Grown, Indices, Has, ReaderOpen, Confirmed, WriterOpen, Waiting
  <2>1. SkipsOK'
    BY DEF IInv, Owed, SkipsOK
  <2>2. PassedOK'
    BY FilesNat DEF IInv, Owed, PassedOK, ReaderAt, SendPending, Settled, Arrived,
       Excused, Coming, Protocol, SendOK
  <2>3. PendingOK'
    BY FilesNat DEF IInv, Owed, PendingOK, ReaderAt, SendPending, Settled, Arrived,
       Excused, Coming, Protocol, SendOK
  <2>4. ErrorOK'
    BY FilesNat DEF IInv, Owed, ErrorOK, ReaderAt, SendPending, Settled, Arrived,
       Excused, Coming, Protocol, SendOK
  <2>5. OverOK'
    BY FilesNat DEF IInv, Owed, OverOK, ReaderAt, SendPending, Settled, Arrived,
       Excused, Coming, Protocol, SendOK
  <2> QED BY <2>1, <2>2, <2>3, <2>4, <2>5 DEF Owed
<1> QED BY <1>a, <1>b, <1>c, <1>d DEF IInv

\* A file cannot be opened: an error and done are sent and the job removed.
LEMMA OpenFailsStep ==
  ASSUME IInv, reader # NoJob, reader.file_num < NFiles, reader.stream = Closed,
         ReaderSends(<<[type |-> "error"], [type |-> "done"]>>), reader' = NoJob,
         failed' = failed \cup {f \in Files : f >= reader.file_num},
         UNCHANGED <<source, disk, writer, asked, toReader, status, uiVars, first, skips,
                     lost, torn>>
  PROVE  IInv'
<1>1. UNCHANGED <<source, disk, writer, asked, toReader, status, direction, resume, strategy,
                     saved, jobs, first, skips, lost, torn>>
  BY DEF uiVars
<1>2. reader' = NoJob
  OBVIOUS
<1>3. /\ IsQueue(toWriter') /\ Len(toWriter') = Len(toWriter) + 2
      /\ \A i \in Indices(toWriter) : toWriter'[i] = toWriter[i]
      /\ toWriter'[Len(toWriter) + 1].type = "error" /\ toWriter'[Len(toWriter) + 2].type = "done"
  <2>1. toWriter' = toWriter \o <<[type |-> "error"], [type |-> "done"]>>
    BY DEF ReaderSends
  <2> DEFINE m == [type |-> "error"]
             n == [type |-> "done"]
             q == Append(toWriter, m)
  <2>2. Grown(q, toWriter', n) /\ Grown(toWriter, q, m)
    BY <2>1, SendTwo, QueuesThere
  <2>3. m.type = "error" /\ n.type = "done" /\ Len(toWriter) \in Nat
    BY QueuesThere
  <2> HIDE DEF m, n, q
  <2> QED BY <2>2, <2>3 DEF Grown, Indices
<1>0. /\ Len(toWriter) \in Nat /\ Len(toReader) \in Nat /\ reader.file_num \in Nat
      /\ writer # NoJob => writer.file_num \in Nat
      /\ ~reader.file_confirmed
  BY <1>1, QueuesThere, ReaderThere, WriterThere DEF IInv, Protocol, ReaderOK, Confirmed
<1> USE <1>0, <1>1, <1>2, <1>3
<1>a. Shapes'
  <2>1. JobsOK'
    BY DEF IInv, Shapes, JobsOK
  <2>2. MessagesOK'
    BY DEF IInv, Shapes, MessagesOK, Indices, IsMessage, ToWriterTypes, ToReaderTypes
  <2>3. NumbersOK'
    BY DEF IInv, Shapes, NumbersOK
  <2> QED BY <2>1, <2>2, <2>3 DEF Shapes
<1>b. Protocol'
  <2> USE DEF Indices, Has, ReaderOpen, Confirmed, WriterOpen, Waiting
  <2>1. IdleOK'
    BY DEF IInv, Protocol, IdleOK, Idle
  <2>2. ReceiveOK'
    BY DEF IInv, Protocol, ReceiveOK
  <2>3. SendOK'
    BY DEF IInv, Protocol, SendOK
  <2>4. DigestOK'
    BY DEF IInv, Protocol, DigestOK, ReaderOK
  <2>5. AnswersOK'
    BY DEF IInv, Protocol, AnswersOK, Answer, ReaderOK
  <2>6. ReaderOK'
    BY DEF IInv, Protocol, ReaderOK
  <2>7. BlocksOK'
    <3>1. \A i \in Indices(toWriter') : toWriter'[i].type = "block" => i \in Indices(toWriter)
      OBVIOUS
    <3>2. \A j \in Indices(toWriter') :
            j \in Indices(toWriter) \/ toWriter'[j].type \in {"error", "done"}
      OBVIOUS
    <3> QED BY ONLY <3>1, <3>2, <1>0, <1>1, <1>2, <1>3, IInv DEF IInv, Protocol, BlocksOK, Indices
  <2>8. ConfirmOK'
    BY DEF IInv, Protocol, ConfirmOK
  <2>9. WriterOK'
    BY DEF IInv, Protocol, WriterOK, Deserted, Answer
  <2>10. EndOK'
    <3>1. Has(toWriter, "cancel")' => Has(toWriter, "cancel")
      BY ONLY <1>0, <1>3 DEF Indices, Has
    <3>2. UNCHANGED <<writer, toReader, skips>>
      BY <1>1
    <3> HIDE DEF Has, Indices
    <3> QED BY ONLY IInv, <1>2, <3>1, <3>2 DEF IInv, Protocol, EndOK
  <2> QED BY <2>1, <2>2, <2>3, <2>4, <2>5, <2>6, <2>7, <2>8, <2>9, <2>10 DEF Protocol
<1>c. Contents'
  <2> USE DEF Indices, Has, ReaderOpen, Confirmed, WriterOpen, Waiting
  <2>1. PartsOK'
    BY DEF IInv, Contents, PartsOK, Holds
  <2>2. OpenOK'
    BY DEF IInv, Contents, OpenOK, Holds
  <2>3. OffersOK'
    <3>1. \A i \in Indices(toWriter') :
            toWriter'[i].type = "confirm" => i \in Indices(toWriter) /\ toWriter'[i] = toWriter[i]
      BY ONLY <1>0, <1>3 DEF Indices
    <3> HIDE DEF Indices, Has
    <3> QED BY ONLY <1>1, <1>2, <3>1, IInv DEF IInv, Contents, OffersOK, Holds
  <2>4. StreamOK'
    BY DEF IInv, Contents, StreamOK, Base, Protocol, ReaderOK
  <2> QED BY <2>1, <2>2, <2>3, <2>4 DEF Contents
<1>d. Owed'
  <2> USE DEF Indices, Has, ReaderOpen, Confirmed, WriterOpen, Waiting
  <2>1. SkipsOK'
    BY DEF IInv, Owed, SkipsOK
  <2>2. PassedOK'
    BY FilesNat DEF IInv, Owed, PassedOK, ReaderAt, SendPending, Settled, Arrived,
       Excused, Coming, Protocol, SendOK
  <2>3. PendingOK'
    <3>1. \A i \in Indices(toWriter') :
            toWriter'[i].type = "receive" => i \in Indices(toWriter) /\ toWriter'[i] = toWriter[i]
      BY ONLY <1>0, <1>3 DEF Indices
    <3>2. Excused \subseteq Excused' /\ \A f \in Files : f >= reader.file_num => f \in Excused'
      BY DEF Excused
    <3>3. \A f : Settled(f) => Settled(f)'
      BY <3>2 DEF Settled, Arrived
    <3>4. ReaderAt = reader.file_num
      BY DEF ReaderAt
    <3>5. \A i \in Indices(toWriter) : toWriter[i].type = "receive" =>
            \A f \in Files : /\ f < toWriter[i].file_num => Settled(f)
                             /\ f < reader.file_num /\ f >= toWriter[i].file_num => f \in Excused
      BY ONLY <3>4, IInv DEF IInv, Owed, PendingOK
    <3>6. \A f \in Files : f \in Nat
      BY FilesNat
    <3> HIDE DEF Indices
    <3> QED BY ONLY <1>0, <3>1, <3>2, <3>3, <3>5, <3>6 DEF PendingOK
  <2>4. ErrorOK'
    BY FilesNat DEF IInv, Owed, ErrorOK, ReaderAt, SendPending, Settled, Arrived,
       Excused, Coming, Protocol, SendOK
  <2>5. OverOK'
    BY FilesNat DEF IInv, Owed, OverOK, ReaderAt, SendPending, Settled, Arrived,
       Excused, Coming, Protocol, SendOK
  <2> QED BY <2>1, <2>2, <2>3, <2>4, <2>5 DEF Owed
<1> QED BY <1>a, <1>b, <1>c, <1>d DEF IInv

\* The reader's side takes a message that finds no job or changes nothing.
LEMMA ReaderTakesStep ==
  ASSUME IInv, toReader # <<>>, NEW m, m = Head(toReader), toReader' = Tail(toReader),
         (reader = NoJob /\ m.type \in {"confirm", "digest"}) \/ m.type \in {"done", "error"},
         status' \in {status, "done", "error"},
         UNCHANGED <<source, disk, reader, writer, asked, toWriter, direction, strategy, saved, first,
                     skips, lost, torn, failed>>
  PROVE  IInv'
<1>0. /\ Len(toWriter) \in Nat /\ Len(toReader) \in Nat
      /\ reader # NoJob => reader.file_num \in Nat
      /\ writer # NoJob => writer.file_num \in Nat
  BY QueuesThere, ReaderThere, WriterThere
<1>3. Popped(toReader, toReader') /\ m = toReader[1] /\ 1 \in Indices(toReader)
  BY TakeHead, QueuesThere
<1>1. m.type \in {"confirm", "digest", "done", "error"} /\ m.type # "send" /\ m.type # "cancel"
  OBVIOUS
<1>4. SendPending' = SendPending
  BY <1>0, <1>1, <1>3 DEF IInv, Protocol, SendOK, SendPending, Popped, Indices
<1> USE <1>0, <1>1, <1>3, <1>4
<1>a. Shapes'
  <2>1. JobsOK'
    BY DEF IInv, Shapes, JobsOK, Popped
  <2>2. MessagesOK'
    BY DEF IInv, Shapes, MessagesOK, Popped, Indices, IsMessage, ToWriterTypes,
       ToReaderTypes
  <2>3. NumbersOK'
    BY DEF IInv, Shapes, NumbersOK
  <2> QED BY <2>1, <2>2, <2>3 DEF Shapes
<1>b. Protocol'
  <2> USE DEF Popped, Indices, Has, ReaderOpen, Confirmed, WriterOpen, Waiting
  <2>1. IdleOK'
    BY DEF IInv, Protocol, IdleOK, Idle
  <2>2. ReceiveOK'
    BY DEF IInv, Protocol, ReceiveOK
  <2>3. SendOK'
    BY DEF IInv, Protocol, SendOK
  <2>4. DigestOK'
    BY DEF IInv, Protocol, DigestOK
  <2>5. AnswersOK'
    BY DEF IInv, Protocol, AnswersOK, Answer
  <2>6. ReaderOK'
    BY DEF IInv, Protocol, ReaderOK
  <2>7. BlocksOK'
    BY DEF IInv, Protocol, BlocksOK
  <2>8. ConfirmOK'
    BY DEF IInv, Protocol, ConfirmOK
  <2>9. WriterOK'
    <3>1. ASSUME reader # NoJob, NEW i \in Indices(toReader), toReader[i].type = "confirm"
          PROVE  i - 1 \in Indices(toReader') /\ toReader'[i - 1] = toReader[i]
      BY <3>1
    <3>2. reader # NoJob =>
            /\ (\E i \in Indices(toReader) : toReader[i].type = "confirm" /\ toReader[i].skip) =>
                 \E i \in Indices(toReader') : toReader'[i].type = "confirm" /\ toReader'[i].skip
            /\ \A p : (\E i \in Indices(toReader) : toReader[i].type = "confirm"
                                                  /\ toReader[i].offset = p /\ toReader[i].offset > 0) =>
                 \E i \in Indices(toReader') : toReader'[i].type = "confirm"
                                                  /\ toReader'[i].offset = p /\ toReader'[i].offset > 0
      BY ONLY <3>1
    <3>3. Deserted => Deserted'
      BY DEF Deserted, Answer
    <3> QED BY ONLY <3>2, <3>3, IInv, UNCHANGED <<reader, writer, toWriter, direction, source>>
            DEF IInv, Protocol, WriterOK, WriterOpen, ReaderOpen, Has
  <2>10. EndOK'
    BY DEF IInv, Protocol, EndOK
  <2> QED BY <2>1, <2>2, <2>3, <2>4, <2>5, <2>6, <2>7, <2>8, <2>9, <2>10 DEF Protocol
<1>c. Contents'
  <2> USE DEF Popped, Indices, Has, ReaderOpen, Confirmed, WriterOpen, Waiting
  <2>1. PartsOK'
    BY DEF IInv, Contents, PartsOK, Holds
  <2>2. OpenOK'
    BY DEF IInv, Contents, OpenOK, Holds
  <2>3. OffersOK'
    BY DEF IInv, Contents, OffersOK, Holds
  <2>4. StreamOK'
    BY DEF IInv, Contents, StreamOK, Base
  <2> QED BY <2>1, <2>2, <2>3, <2>4 DEF Contents
<1>d. Owed'
  <2> USE DEF Popped, Indices, Has, ReaderOpen, Confirmed, WriterOpen, Waiting
  <2>1. SkipsOK'
    BY DEF IInv, Owed, SkipsOK
  <2>2. PassedOK'
    BY FilesNat DEF IInv, Owed, PassedOK, ReaderAt, SendPending, Settled, Arrived,
       Excused, Coming
  <2>3. PendingOK'
    BY FilesNat DEF IInv, Owed, PendingOK, ReaderAt, SendPending, Settled, Arrived,
       Excused, Coming
  <2>4. ErrorOK'
    BY FilesNat DEF IInv, Owed, ErrorOK, ReaderAt, SendPending, Settled, Arrived,
       Excused, Coming
  <2>5. OverOK'
    BY FilesNat DEF IInv, Owed, OverOK, ReaderAt, SendPending, Settled, Arrived,
       Excused, Coming
  <2> QED BY <2>1, <2>2, <2>3, <2>4, <2>5 DEF Owed
<1> QED BY <1>a, <1>b, <1>c, <1>d DEF IInv

\* file_action::Union::Send: the reader of a download starts.
LEMMA ReaderStartsStep ==
  ASSUME IInv, toReader # <<>>, NEW m, m = Head(toReader), toReader' = Tail(toReader), m.type = "send",
         reader' = NewReader(m.file_num),
         UNCHANGED <<source, disk, writer, asked, toWriter, status, direction, strategy, saved, first,
                     skips, lost, torn, failed>>
  PROVE  IInv'
<1>0. /\ Len(toWriter) \in Nat /\ Len(toReader) \in Nat
      /\ reader # NoJob => reader.file_num \in Nat
      /\ writer # NoJob => writer.file_num \in Nat
  BY QueuesThere, ReaderThere, WriterThere
<1>3. Popped(toReader, toReader') /\ m = toReader[1] /\ 1 \in Indices(toReader)
  BY TakeHead, QueuesThere
<1>1. /\ reader = NoJob /\ Len(toWriter) = 0 /\ asked = {} /\ m.file_num \in Nums /\ m.file_num \in Nat
      /\ \A j \in Indices(toReader') : toReader'[j].type = "cancel"
      /\ writer # NoJob => writer.stream = Closed /\ writer.file_num = m.file_num
      /\ SendPending
  <2>1. m.file_num \in Nums /\ m.file_num \in Nat
    BY <1>3, NFilesAssumption DEF IInv, Shapes, MessagesOK, IsMessage, Nums
  <2> QED BY <1>0, <1>3, <2>1 DEF IInv, Protocol, SendOK, SendPending, Popped, Indices
<1>2. /\ IsReader(reader') /\ reader' # NoJob /\ reader'.file_num = m.file_num
      /\ reader'.stream = Closed /\ ~reader'.file_confirmed
  <2>1. MadeReader(reader', m.file_num, Closed, FALSE)
    BY <1>1, MakeReader DEF NewReader, IsStream
  <2> QED BY <2>1 DEF MadeReader
<1> USE <1>0, <1>1, <1>2, <1>3
<1>a. Shapes'
  <2>1. JobsOK'
    BY DEF IInv, Shapes, JobsOK, Popped
  <2>2. MessagesOK'
    BY DEF IInv, Shapes, MessagesOK, Popped, Indices, IsMessage, ToWriterTypes,
       ToReaderTypes
  <2>3. NumbersOK'
    BY DEF IInv, Shapes, NumbersOK
  <2> QED BY <2>1, <2>2, <2>3 DEF Shapes
<1>b. Protocol'
  <2> USE DEF Popped, Indices, Has, ReaderOpen, Confirmed, WriterOpen, Waiting
  <2>1. IdleOK'
    BY DEF IInv, Protocol, IdleOK, Idle
  <2>2. ReceiveOK'
    BY DEF IInv, Protocol, ReceiveOK
  <2>3. SendOK'
    BY DEF IInv, Protocol, SendOK
  <2>4. DigestOK'
    BY DEF IInv, Protocol, DigestOK
  <2>5. AnswersOK'
    BY DEF IInv, Protocol, AnswersOK, Answer
  <2>6. ReaderOK'
    BY DEF IInv, Protocol, ReaderOK
  <2>7. BlocksOK'
    BY DEF IInv, Protocol, BlocksOK
  <2>8. ConfirmOK'
    BY DEF IInv, Protocol, ConfirmOK
  <2>9. WriterOK'
    BY DEF IInv, Protocol, WriterOK, Deserted, Answer
  <2>10. EndOK'
    BY DEF IInv, Protocol, EndOK
  <2> QED BY <2>1, <2>2, <2>3, <2>4, <2>5, <2>6, <2>7, <2>8, <2>9, <2>10 DEF Protocol
<1>c. Contents'
  <2> USE DEF Popped, Indices, Has, ReaderOpen, Confirmed, WriterOpen, Waiting
  <2>1. PartsOK'
    BY DEF IInv, Contents, PartsOK, Holds
  <2>2. OpenOK'
    BY DEF IInv, Contents, OpenOK, Holds
  <2>3. OffersOK'
    BY DEF IInv, Contents, OffersOK, Holds
  <2>4. StreamOK'
    BY DEF IInv, Contents, StreamOK, Base
  <2> QED BY <2>1, <2>2, <2>3, <2>4 DEF Contents
<1>d. Owed'
  <2> USE DEF Popped, Indices, Has, ReaderOpen, Confirmed, WriterOpen, Waiting
  <2>1. SkipsOK'
    BY DEF IInv, Owed, SkipsOK
  <2>2. PassedOK'
    BY FilesNat DEF IInv, Owed, PassedOK, ReaderAt, SendPending, Settled, Arrived,
       Excused, Coming
  <2>3. PendingOK'
    BY FilesNat DEF IInv, Owed, PendingOK, ReaderAt, SendPending, Settled, Arrived,
       Excused, Coming
  <2>4. ErrorOK'
    BY FilesNat DEF IInv, Owed, ErrorOK, ReaderAt, SendPending, Settled, Arrived,
       Excused, Coming
  <2>5. OverOK'
    BY FilesNat DEF IInv, Owed, OverOK, ReaderAt, SendPending, Settled, Arrived,
       Excused, Coming
  <2> QED BY <2>1, <2>2, <2>3, <2>4, <2>5 DEF Owed
<1> QED BY <1>a, <1>b, <1>c, <1>d DEF IInv

\* file_action::Union::Cancel: the reader of a download is removed.
LEMMA ReaderCancelledStep ==
  ASSUME IInv, toReader # <<>>, NEW m, m = Head(toReader), toReader' = Tail(toReader),
         m.type = "cancel",
         reader' = NoJob,
         UNCHANGED <<source, disk, writer, asked, toWriter, status, direction, strategy, saved, first,
                     skips, lost, torn, failed>>
  PROVE  IInv'
<1>0. /\ Len(toWriter) \in Nat /\ Len(toReader) \in Nat
      /\ reader # NoJob => reader.file_num \in Nat
      /\ writer # NoJob => writer.file_num \in Nat
  BY QueuesThere, ReaderThere, WriterThere
<1>3. Popped(toReader, toReader') /\ m = toReader[1] /\ 1 \in Indices(toReader)
  BY TakeHead, QueuesThere
<1>1. writer = NoJob /\ skips = Files
  BY <1>3 DEF IInv, Protocol, EndOK, Has
<1> USE <1>0, <1>1, <1>3
<1>a. Shapes'
  <2>1. JobsOK'
    BY DEF IInv, Shapes, JobsOK, Popped
  <2>2. MessagesOK'
    BY DEF IInv, Shapes, MessagesOK, Popped, Indices, IsMessage, ToWriterTypes,
       ToReaderTypes
  <2>3. NumbersOK'
    BY DEF IInv, Shapes, NumbersOK
  <2> QED BY <2>1, <2>2, <2>3 DEF Shapes
<1>b. Protocol'
  <2> USE DEF Popped, Indices, Has, ReaderOpen, Confirmed, WriterOpen, Waiting
  <2>1. IdleOK'
    BY DEF IInv, Protocol, IdleOK, Idle
  <2>2. ReceiveOK'
    BY DEF IInv, Protocol, ReceiveOK
  <2>3. SendOK'
    BY DEF IInv, Protocol, SendOK
  <2>4. DigestOK'
    BY DEF IInv, Protocol, DigestOK
  <2>5. AnswersOK'
    BY DEF IInv, Protocol, AnswersOK, Answer
  <2>6. ReaderOK'
    BY DEF IInv, Protocol, ReaderOK
  <2>7. BlocksOK'
    BY DEF IInv, Protocol, BlocksOK
  <2>8. ConfirmOK'
    BY DEF IInv, Protocol, ConfirmOK
  <2>9. WriterOK'
    BY DEF IInv, Protocol, WriterOK, Deserted, Answer
  <2>10. EndOK'
    BY DEF IInv, Protocol, EndOK
  <2> QED BY <2>1, <2>2, <2>3, <2>4, <2>5, <2>6, <2>7, <2>8, <2>9, <2>10 DEF Protocol
<1>c. Contents'
  <2> USE DEF Popped, Indices, Has, ReaderOpen, Confirmed, WriterOpen, Waiting
  <2>1. PartsOK'
    BY DEF IInv, Contents, PartsOK, Holds
  <2>2. OpenOK'
    BY DEF IInv, Contents, OpenOK, Holds
  <2>3. OffersOK'
    BY DEF IInv, Contents, OffersOK, Holds
  <2>4. StreamOK'
    BY DEF IInv, Contents, StreamOK, Base
  <2> QED BY <2>1, <2>2, <2>3, <2>4 DEF Contents
<1>d. Owed'
  <2> USE DEF Popped, Indices, Has, ReaderOpen, Confirmed, WriterOpen, Waiting
  <2>1. SkipsOK'
    BY DEF IInv, Owed, SkipsOK
  <2>2. PassedOK'
    BY FilesNat DEF IInv, Owed, PassedOK, ReaderAt, SendPending, Settled, Arrived,
       Excused, Coming
  <2>3. PendingOK'
    BY FilesNat DEF IInv, Owed, PendingOK, ReaderAt, SendPending, Settled, Arrived,
       Excused, Coming
  <2>4. ErrorOK'
    BY FilesNat DEF IInv, Owed, ErrorOK, ReaderAt, SendPending, Settled, Arrived,
       Excused, Coming
  <2>5. OverOK'
    BY FilesNat DEF IInv, Owed, OverOK, ReaderAt, SendPending, Settled, Arrived,
       Excused, Coming
  <2> QED BY <2>1, <2>2, <2>3, <2>4, <2>5 DEF Owed
<1> QED BY <1>a, <1>b, <1>c, <1>d DEF IInv

\* TransferJob::confirm at the reader: the file is skipped.
LEMMA ReaderSkipsStep ==
  ASSUME IInv, toReader # <<>>, NEW m, m = Head(toReader), toReader' = Tail(toReader),
         m.type = "confirm", m.skip, NEW sought,
         reader # NoJob, reader' = ReaderConfirmed(reader, m, sought),
         torn' = torn \cup Astray(reader', m),
         UNCHANGED <<source, disk, writer, asked, toWriter, status, direction, strategy, saved, first,
                     skips, lost, failed>>
  PROVE  IInv'
<1>0. /\ Len(toWriter) \in Nat /\ Len(toReader) \in Nat
      /\ reader # NoJob => reader.file_num \in Nat
      /\ writer # NoJob => writer.file_num \in Nat
  BY QueuesThere, ReaderThere, WriterThere
<1>3. Popped(toReader, toReader') /\ m = toReader[1] /\ 1 \in Indices(toReader)
  BY TakeHead, QueuesThere
<1>4. IsConfirm(m) /\ m.file_num \in Files /\ (m.skip => m.offset = 0) /\ m.type = "confirm"
  <2>1. IsMessage(m) /\ m.type = "confirm"
    BY <1>3 DEF IInv, Shapes, MessagesOK
  <2> QED BY ONLY <2>1 DEF IsMessage, IsConfirm
<1>5. /\ reader.file_num = m.file_num /\ Waiting /\ asked = {} /\ Len(toWriter) = 0
      /\ \A j \in Indices(toReader') : ~Answer(toReader'[j])
      /\ reader.file_num \in Files /\ reader.stream = StreamAt(0) /\ ~reader.file_confirmed
      /\ \A j \in Indices(toReader) : toReader[j].type # "send"
  <2>1. Answer(m)
    BY DEF Answer
  <2>2. reader.file_num = m.file_num /\ Waiting /\ asked = {}
    BY <1>3, <2>1 DEF IInv, Protocol, AnswersOK
  <2>3. \A j \in Indices(toReader') : ~Answer(toReader'[j])
    BY <1>0, <1>3, <2>1 DEF IInv, Protocol, AnswersOK, Popped, Indices
  <2>4. \A j \in Indices(toReader) : toReader[j].type # "send"
    BY DEF IInv, Protocol, SendOK
  <2> QED BY <2>2, <2>3, <2>4 DEF IInv, Protocol, ReaderOK, Waiting, ReaderOpen
<1>2. /\ IsReader(reader') /\ reader' # NoJob /\ reader'.file_num = reader.file_num + 1
      /\ reader'.stream = Closed /\ ~reader'.file_confirmed /\ torn' = torn
  <2>1. IsReader(reader)
    BY ReaderThere
  <2>2. MadeReader(reader', reader.file_num + 1, Closed, FALSE) /\ torn' = torn
    BY <1>4, <1>5, <2>1, ReaderGoesOn
  <2> QED BY <2>2 DEF MadeReader
<1> USE <1>0, <1>2, <1>3, <1>4, <1>5
<1>a. Shapes'
  <2>1. JobsOK'
    BY DEF IInv, Shapes, JobsOK, Popped
  <2>2. MessagesOK'
    BY DEF IInv, Shapes, MessagesOK, Popped, Indices, IsMessage, ToWriterTypes,
       ToReaderTypes
  <2>3. NumbersOK'
    BY DEF IInv, Shapes, NumbersOK
  <2> QED BY <2>1, <2>2, <2>3 DEF Shapes
<1>b. Protocol'
  <2> USE DEF Popped, Indices, Has, ReaderOpen, Confirmed, WriterOpen, Waiting, Answer
  <2>1. IdleOK'
    BY DEF IInv, Protocol, IdleOK, Idle
  <2>2. ReceiveOK'
    BY DEF IInv, Protocol, ReceiveOK
  <2>3. SendOK'
    BY DEF IInv, Protocol, SendOK
  <2>4. DigestOK'
    BY DEF IInv, Protocol, DigestOK
  <2>5. AnswersOK'
    BY DEF IInv, Protocol, AnswersOK, Answer
  <2>6. ReaderOK'
    BY DEF IInv, Protocol, ReaderOK
  <2>7. BlocksOK'
    BY DEF IInv, Protocol, BlocksOK
  <2>8. ConfirmOK'
    BY DEF IInv, Protocol, ConfirmOK
  <2>9. WriterOK'
    BY DEF IInv, Protocol, WriterOK, Deserted, Answer
  <2>10. EndOK'
    BY DEF IInv, Protocol, EndOK
  <2> QED BY <2>1, <2>2, <2>3, <2>4, <2>5, <2>6, <2>7, <2>8, <2>9, <2>10 DEF Protocol
<1>c. Contents'
  <2> USE DEF Popped, Indices, Has, ReaderOpen, Confirmed, WriterOpen, Waiting, Answer
  <2>1. PartsOK'
    BY DEF IInv, Contents, PartsOK, Holds
  <2>2. OpenOK'
    BY DEF IInv, Contents, OpenOK, Holds
  <2>3. OffersOK'
    BY DEF IInv, Contents, OffersOK, Holds
  <2>4. StreamOK'
    BY DEF IInv, Contents, StreamOK, Base
  <2> QED BY <2>1, <2>2, <2>3, <2>4 DEF Contents
<1>d. Owed'
  <2> USE DEF Popped, Indices, Has, ReaderOpen, Confirmed, WriterOpen, Waiting, Answer
  <2>1. SkipsOK'
    BY DEF IInv, Owed, SkipsOK
  <2>2. PassedOK'
    BY FilesNat DEF IInv, Owed, PassedOK, ReaderAt, SendPending, Settled, Arrived,
       Excused, Coming, SkipsOK
  <2>3. PendingOK'
    BY FilesNat DEF IInv, Owed, PendingOK, ReaderAt, SendPending, Settled, Arrived,
       Excused, Coming
  <2>4. ErrorOK'
    BY FilesNat DEF IInv, Owed, ErrorOK, ReaderAt, SendPending, Settled, Arrived,
       Excused, Coming
  <2>5. OverOK'
    BY FilesNat DEF IInv, Owed, OverOK, ReaderAt, SendPending, Settled, Arrived,
       Excused, Coming, Protocol, SendOK
  <2> QED BY <2>1, <2>2, <2>3, <2>4, <2>5 DEF Owed
<1> QED BY <1>a, <1>b, <1>c, <1>d DEF IInv

\* TransferJob::confirm at the reader: the file is sent.
LEMMA ReaderConfirmedStep ==
  ASSUME IInv, toReader # <<>>, NEW m, m = Head(toReader), toReader' = Tail(toReader),
         m.type = "confirm", ~m.skip, NEW sought,
         reader # NoJob, reader' = ReaderConfirmed(reader, m, sought),
         torn' = torn \cup Astray(reader', m),
         UNCHANGED <<source, disk, writer, asked, toWriter, status, direction, strategy, saved, first,
                     skips, lost, failed>>
  PROVE  IInv'
<1>0. /\ Len(toWriter) \in Nat /\ Len(toReader) \in Nat
      /\ reader # NoJob => reader.file_num \in Nat
      /\ writer # NoJob => writer.file_num \in Nat
  BY QueuesThere, ReaderThere, WriterThere
<1>3. Popped(toReader, toReader') /\ m = toReader[1] /\ 1 \in Indices(toReader)
  BY TakeHead, QueuesThere
<1>4. IsConfirm(m) /\ m.file_num \in Files /\ (m.skip => m.offset = 0) /\ m.type = "confirm"
  <2>1. IsMessage(m) /\ m.type = "confirm"
    BY <1>3 DEF IInv, Shapes, MessagesOK
  <2> QED BY ONLY <2>1 DEF IsMessage, IsConfirm
<1>5. /\ reader.file_num = m.file_num /\ Waiting /\ asked = {} /\ Len(toWriter) = 0
      /\ \A j \in Indices(toReader') : ~Answer(toReader'[j])
      /\ reader.file_num \in Files /\ reader.stream = StreamAt(0) /\ ~reader.file_confirmed
      /\ \A j \in Indices(toReader) : toReader[j].type # "send"
  <2>1. Answer(m)
    BY DEF Answer
  <2>2. reader.file_num = m.file_num /\ Waiting /\ asked = {}
    BY <1>3, <2>1 DEF IInv, Protocol, AnswersOK
  <2>3. \A j \in Indices(toReader') : ~Answer(toReader'[j])
    BY <1>0, <1>3, <2>1 DEF IInv, Protocol, AnswersOK, Popped, Indices
  <2>4. \A j \in Indices(toReader) : toReader[j].type # "send"
    BY DEF IInv, Protocol, SendOK
  <2> QED BY <2>2, <2>3, <2>4 DEF IInv, Protocol, ReaderOK, Waiting, ReaderOpen
<1>2. /\ IsReader(reader') /\ reader' # NoJob /\ reader'.file_num = reader.file_num
      /\ reader'.file_confirmed /\ reader'.stream # Closed
      /\ reader'.stream = StreamAt(reader'.stream.pos)
      /\ torn \subseteq torn' /\ torn' \subseteq torn \cup {reader.file_num}
      /\ reader.file_num \notin torn' /\ m.offset \in Nat => reader'.stream.pos = m.offset
  <2>1. IsReader(reader)
    BY ReaderThere
  <2>0. /\ m.file_num = reader.file_num /\ reader.file_num \in Files /\ ~m.skip
        /\ reader.stream = StreamAt(0)
    BY ONLY <1>4, <1>5, ~m.skip
  <2>a. /\ MadeReader(reader', reader.file_num, Seek(reader.stream, m.offset, sought), TRUE)
        /\ Astray(reader', m) \in {{}, {reader.file_num}}
        /\ m.offset > 0 /\ Astray(reader', m) = {} => reader'.stream = StreamAt(m.offset)
    BY ONLY <2>0, <2>1, reader' = ReaderConfirmed(reader, m, sought), ReaderGoesOn
  <2>2. /\ MadeReader(reader', reader.file_num, Seek(StreamAt(0), m.offset, sought), TRUE)
        /\ Astray(reader', m) \in {{}, {reader.file_num}}
        /\ m.offset > 0 /\ Astray(reader', m) = {} => reader'.stream = StreamAt(m.offset)
    BY ONLY <2>0, <2>a
  <2>3. /\ IsReader(reader') /\ reader' # NoJob /\ reader'.file_num = reader.file_num
        /\ reader'.file_confirmed /\ reader'.stream = Seek(StreamAt(0), m.offset, sought)
    BY <2>2 DEF MadeReader
  <2>4. \/ reader'.stream = StreamAt(0) /\ (m.offset = 0 \/ ~sought)
        \/ reader'.stream = StreamAt(m.offset)
    BY <2>3 DEF Seek
  <2>5. reader'.stream # Closed /\ reader'.stream = StreamAt(reader'.stream.pos)
    BY <2>4, StreamFacts
  <2>6. m.offset = 0 => reader'.stream.pos = m.offset
    BY <2>4, StreamFacts
  <2> QED BY <2>2, <2>3, <2>5, <2>6, StreamFacts
<1>6. writer # NoJob /\ writer.file_num = reader.file_num /\ writer.stream # Closed =>
        writer.stream.pos = m.offset
  <2> SUFFICES ASSUME writer # NoJob, writer.file_num = reader.file_num, writer.stream # Closed
               PROVE  writer.stream.pos = m.offset
    OBVIOUS
  <2>1. PICK i \in Indices(toReader) : toReader[i].type = "confirm"
          /\ toReader[i].offset = writer.stream.pos
    BY <1>0, <1>5 DEF IInv, Protocol, WriterOK, WriterOpen
  <2>2. i = 1
    BY <1>3, <1>4, <2>1 DEF IInv, Protocol, AnswersOK, Answer
  <2> QED BY <1>3, <2>1, <2>2
<1>7. writer # NoJob => writer.file_num <= reader.file_num
  <2>1. ASSUME NEW i \in Indices(toReader), toReader[i].type = "confirm", toReader[i].skip PROVE FALSE
    <3>1. i = 1
      BY <1>3, <1>4, <2>1 DEF IInv, Protocol, AnswersOK, Answer
    <3> QED BY <1>3, <2>1, <3>1
  <2> QED BY <2>1, <1>0 DEF IInv, Protocol, WriterOK
<1> USE <1>0, <1>2, <1>3, <1>4, <1>5, <1>6, <1>7
<1>a. Shapes'
  <2>1. JobsOK'
    BY DEF IInv, Shapes, JobsOK, Popped
  <2>2. MessagesOK'
    BY DEF IInv, Shapes, MessagesOK, Popped, Indices, IsMessage, ToWriterTypes,
       ToReaderTypes
  <2>3. NumbersOK'
    BY DEF IInv, Shapes, NumbersOK
  <2> QED BY <2>1, <2>2, <2>3 DEF Shapes
<1>b. Protocol'
  <2> USE DEF Popped, Indices, Has, ReaderOpen, Confirmed, WriterOpen, Waiting, Answer
  <2>1. IdleOK'
    BY DEF IInv, Protocol, IdleOK, Idle
  <2>2. ReceiveOK'
    BY DEF IInv, Protocol, ReceiveOK
  <2>3. SendOK'
    BY DEF IInv, Protocol, SendOK
  <2>4. DigestOK'
    BY DEF IInv, Protocol, DigestOK
  <2>5. AnswersOK'
    BY DEF IInv, Protocol, AnswersOK, Answer
  <2>6. ReaderOK'
    BY DEF IInv, Protocol, ReaderOK
  <2>7. BlocksOK'
    BY DEF IInv, Protocol, BlocksOK
  <2>8. ConfirmOK'
    BY DEF IInv, Protocol, ConfirmOK
  <2>9. WriterOK'
    BY DEF IInv, Protocol, WriterOK, Deserted, Answer
  <2>10. EndOK'
    BY DEF IInv, Protocol, EndOK
  <2> QED BY <2>1, <2>2, <2>3, <2>4, <2>5, <2>6, <2>7, <2>8, <2>9, <2>10 DEF Protocol
<1>c. Contents'
  <2> USE DEF Popped, Indices, Has, ReaderOpen, Confirmed, WriterOpen, Waiting, Answer
  <2>1. PartsOK'
    BY DEF IInv, Contents, PartsOK, Holds
  <2>2. OpenOK'
    BY DEF IInv, Contents, OpenOK, Holds
  <2>3. OffersOK'
    BY DEF IInv, Contents, OffersOK, Holds
  <2>4. StreamOK'
    <3> SUFFICES ASSUME writer # NoJob, reader.file_num \notin torn'
                 PROVE  m.offset = Base(reader.file_num)' /\ m.offset \in Nat
                        /\ m.offset <= Size[reader.file_num]
      BY DEF StreamOK
    <3>1. CASE m.offset = 0
      BY <3>1, QueuesThere DEF Base
    <3>2. CASE m.offset # 0
      <4>1. writer.file_num = m.file_num /\ writer.stream = StreamAt(m.offset)
        BY <3>2 DEF IInv, Contents, OffersOK
      <4>2. writer.stream # Closed /\ writer.stream.pos = m.offset
        BY <4>1, StreamFacts
      <4>3. m.offset \in Nat /\ m.offset <= Size[m.file_num]
        BY <4>1, <4>2 DEF IInv, Contents, OpenOK, Holds
      <4> QED BY <4>1, <4>2, <4>3 DEF Base
    <3> QED BY <3>1, <3>2
  <2> QED BY <2>1, <2>2, <2>3, <2>4 DEF Contents
<1>d. Owed'
  <2> USE DEF Popped, Indices, Has, ReaderOpen, Confirmed, WriterOpen, Waiting, Answer
  <2>1. SkipsOK'
    BY DEF IInv, Owed, SkipsOK
  <2>2. PassedOK'
    BY FilesNat DEF IInv, Owed, PassedOK, ReaderAt, SendPending, Settled, Arrived,
       Excused, Coming, Protocol, SendOK
  <2>3. PendingOK'
    BY FilesNat DEF IInv, Owed, PendingOK, ReaderAt, SendPending, Settled, Arrived,
       Excused, Coming
  <2>4. ErrorOK'
    BY FilesNat DEF IInv, Owed, ErrorOK, ReaderAt, SendPending, Settled, Arrived,
       Excused, Coming
  <2>5. OverOK'
    BY FilesNat DEF IInv, Owed, OverOK, ReaderAt, SendPending, Settled, Arrived,
       Excused, Coming, Protocol, SendOK
  <2> QED BY <2>1, <2>2, <2>3, <2>4, <2>5 DEF Owed
<1> QED BY <1>a, <1>b, <1>c, <1>d DEF IInv

\* The answer to a digest of an upload: the user is asked about a file that is there.
LEMMA ReaderAsksStep ==
  ASSUME IInv, toReader # <<>>, NEW m, m = Head(toReader), toReader' = Tail(toReader),
         m.type = "digest",
         reader # NoJob, asked' = asked \cup {m.file_num},
         UNCHANGED <<source, disk, reader, writer, toWriter, status, direction, strategy, saved, first,
                     skips, lost, torn, failed>>
  PROVE  IInv'
<1>0. /\ Len(toWriter) \in Nat /\ Len(toReader) \in Nat
      /\ reader # NoJob => reader.file_num \in Nat
      /\ writer # NoJob => writer.file_num \in Nat
  BY QueuesThere, ReaderThere, WriterThere
<1>3. Popped(toReader, toReader') /\ m = toReader[1] /\ 1 \in Indices(toReader)
  BY TakeHead, QueuesThere
<1>4. m.file_num \in Files
  BY <1>3 DEF IInv, Shapes, MessagesOK, IsMessage
<1>6. direction = "upload"
  BY <1>3 DEF IInv, Shapes, MessagesOK, NumbersOK
<1>5. /\ reader.file_num = m.file_num /\ Waiting /\ asked = {} /\ Len(toWriter) = 0
      /\ \A j \in Indices(toReader') : ~Answer(toReader'[j])
      /\ reader.file_num \in Files /\ reader.stream = StreamAt(0) /\ ~reader.file_confirmed
      /\ \A j \in Indices(toReader) : toReader[j].type # "send"
  <2>1. Answer(m)
    BY DEF Answer
  <2>2. reader.file_num = m.file_num /\ Waiting /\ asked = {}
    BY <1>3, <2>1 DEF IInv, Protocol, AnswersOK
  <2>3. \A j \in Indices(toReader') : ~Answer(toReader'[j])
    BY <1>0, <1>3, <2>1 DEF IInv, Protocol, AnswersOK, Popped, Indices
  <2>4. \A j \in Indices(toReader) : toReader[j].type # "send"
    BY DEF IInv, Protocol, SendOK
  <2> QED BY <2>2, <2>3, <2>4 DEF IInv, Protocol, ReaderOK, Waiting, ReaderOpen
<1>7. \A i \in Indices(toReader) : toReader[i].type # "confirm"
  <2> SUFFICES ASSUME NEW i \in Indices(toReader), toReader[i].type = "confirm" PROVE FALSE
    OBVIOUS
  <2>1. i = 1
    BY <1>3 DEF IInv, Protocol, AnswersOK, Answer
  <2> QED BY <1>3, <2>1
<1> USE <1>0, <1>3, <1>4, <1>5, <1>6, <1>7
<1>a. Shapes'
  <2>1. JobsOK'
    BY DEF IInv, Shapes, JobsOK, Popped
  <2>2. MessagesOK'
    BY DEF IInv, Shapes, MessagesOK, Popped, Indices, IsMessage, ToWriterTypes,
       ToReaderTypes
  <2>3. NumbersOK'
    BY DEF IInv, Shapes, NumbersOK
  <2> QED BY <2>1, <2>2, <2>3 DEF Shapes
<1>b. Protocol'
  <2> USE DEF Popped, Indices, Has, ReaderOpen, Confirmed, WriterOpen, Waiting, Answer
  <2>1. IdleOK'
    BY DEF IInv, Protocol, IdleOK, Idle
  <2>2. ReceiveOK'
    BY DEF IInv, Protocol, ReceiveOK
  <2>3. SendOK'
    BY DEF IInv, Protocol, SendOK
  <2>4. DigestOK'
    BY DEF IInv, Protocol, DigestOK
  <2>5. AnswersOK'
    BY DEF IInv, Protocol, AnswersOK, Answer
  <2>6. ReaderOK'
    BY DEF IInv, Protocol, ReaderOK
  <2>7. BlocksOK'
    BY DEF IInv, Protocol, BlocksOK
  <2>8. ConfirmOK'
    BY DEF IInv, Protocol, ConfirmOK
  <2>9. WriterOK'
    BY DEF IInv, Protocol, WriterOK, Deserted, Answer
  <2>10. EndOK'
    BY DEF IInv, Protocol, EndOK
  <2> QED BY <2>1, <2>2, <2>3, <2>4, <2>5, <2>6, <2>7, <2>8, <2>9, <2>10 DEF Protocol
<1>c. Contents'
  <2> USE DEF Popped, Indices, Has, ReaderOpen, Confirmed, WriterOpen, Waiting, Answer
  <2>1. PartsOK'
    BY DEF IInv, Contents, PartsOK, Holds
  <2>2. OpenOK'
    BY DEF IInv, Contents, OpenOK, Holds
  <2>3. OffersOK'
    BY DEF IInv, Contents, OffersOK, Holds
  <2>4. StreamOK'
    BY DEF IInv, Contents, StreamOK, Base
  <2> QED BY <2>1, <2>2, <2>3, <2>4 DEF Contents
<1>d. Owed'
  <2> USE DEF Popped, Indices, Has, ReaderOpen, Confirmed, WriterOpen, Waiting, Answer
  <2>1. SkipsOK'
    BY DEF IInv, Owed, SkipsOK
  <2>2. PassedOK'
    BY FilesNat DEF IInv, Owed, PassedOK, ReaderAt, SendPending, Settled, Arrived,
       Excused, Coming, Protocol, SendOK
  <2>3. PendingOK'
    BY FilesNat DEF IInv, Owed, PendingOK, ReaderAt, SendPending, Settled, Arrived,
       Excused, Coming
  <2>4. ErrorOK'
    BY FilesNat DEF IInv, Owed, ErrorOK, ReaderAt, SendPending, Settled, Arrived,
       Excused, Coming
  <2>5. OverOK'
    BY FilesNat DEF IInv, Owed, OverOK, ReaderAt, SendPending, Settled, Arrived,
       Excused, Coming, Protocol, SendOK
  <2> QED BY <2>1, <2>2, <2>3, <2>4, <2>5 DEF Owed
<1> QED BY <1>a, <1>b, <1>c, <1>d DEF IInv

\* The answer to a digest of an upload: the client skips a file that is there.
LEMMA ReaderAgreesToSkipStep ==
  ASSUME IInv, toReader # <<>>, NEW m, m = Head(toReader), toReader' = Tail(toReader),
         m.type = "digest", reader # NoJob,
         NEW c, c \in {OffsetBlk(m.file_num, m.transferred), OffsetBlk(m.file_num, 0), Skip(m.file_num)}, c.skip,
         NEW sought, reader' = ReaderConfirmed(reader, c, sought), ReaderSends(<<c>>),
         skips' = skips \cup Skipped(c),
         torn' = torn \cup Astray(reader', c),
         UNCHANGED <<source, disk, writer, asked, status, direction, strategy, saved, first,
                     lost, failed>>
  PROVE  IInv'
<1>0. /\ Len(toWriter) \in Nat /\ Len(toReader) \in Nat
      /\ reader # NoJob => reader.file_num \in Nat
      /\ writer # NoJob => writer.file_num \in Nat
  BY QueuesThere, ReaderThere, WriterThere
<1>3. Popped(toReader, toReader') /\ m = toReader[1] /\ 1 \in Indices(toReader)
  BY TakeHead, QueuesThere
<1>4. /\ m.file_num \in Files /\ IsConfirm(c) /\ c.file_num = m.file_num /\ c.type = "confirm"
      /\ (c.skip => c.offset = 0) /\ (c.offset = 0 \/ c.offset = m.transferred)
  <2>1. m.file_num \in Files
    BY <1>3 DEF IInv, Shapes, MessagesOK, IsMessage
  <2> QED BY <2>1, RequestFacts
<1>6. direction = "upload"
  BY <1>3 DEF IInv, Shapes, MessagesOK, NumbersOK
<1>5. /\ reader.file_num = m.file_num /\ Waiting /\ asked = {} /\ Len(toWriter) = 0
      /\ \A j \in Indices(toReader') : ~Answer(toReader'[j])
      /\ reader.file_num \in Files /\ reader.stream = StreamAt(0) /\ ~reader.file_confirmed
      /\ \A j \in Indices(toReader) : toReader[j].type # "send"
  <2>1. Answer(m)
    BY DEF Answer
  <2>2. reader.file_num = m.file_num /\ Waiting /\ asked = {}
    BY <1>3, <2>1 DEF IInv, Protocol, AnswersOK
  <2>3. \A j \in Indices(toReader') : ~Answer(toReader'[j])
    BY <1>0, <1>3, <2>1 DEF IInv, Protocol, AnswersOK, Popped, Indices
  <2>4. \A j \in Indices(toReader) : toReader[j].type # "send"
    BY DEF IInv, Protocol, SendOK
  <2> QED BY <2>2, <2>3, <2>4 DEF IInv, Protocol, ReaderOK, Waiting, ReaderOpen
<1>7. \A i \in Indices(toReader) : toReader[i].type # "confirm"
  <2> SUFFICES ASSUME NEW i \in Indices(toReader), toReader[i].type = "confirm" PROVE FALSE
    OBVIOUS
  <2>1. i = 1
    BY <1>3 DEF IInv, Protocol, AnswersOK, Answer
  <2> QED BY <1>3, <2>1
<1>8. /\ IsQueue(toWriter') /\ Len(toWriter') = 1 /\ Indices(toWriter') = {1} /\ toWriter'[1] = c
  <2>1. Grown(toWriter, toWriter', c)
    BY SendOne, QueuesThere DEF ReaderSends
  <2> QED BY <1>5, <2>1 DEF Grown, Indices
<1>9. /\ writer # NoJob => writer.file_num <= reader.file_num
      /\ WriterOpen => writer.file_num < reader.file_num
  BY <1>0, <1>5, <1>6, <1>7 DEF IInv, Protocol, WriterOK, WriterOpen
<1>2. /\ IsReader(reader') /\ reader' # NoJob /\ reader'.file_num = reader.file_num + 1
      /\ reader'.stream = Closed /\ ~reader'.file_confirmed /\ torn' = torn
  <2>1. IsReader(reader)
    BY ReaderThere
  <2>2. MadeReader(reader', reader.file_num + 1, Closed, FALSE) /\ torn' = torn
    BY <1>4, <1>5, <2>1, ReaderGoesOn
  <2> QED BY <2>2 DEF MadeReader
<1>10. skips' = skips \cup {c.file_num}
  BY DEF Skipped
<1> USE <1>0, <1>2, <1>3, <1>4, <1>5, <1>6, <1>7, <1>8, <1>9, <1>10
<1>a. Shapes'
  <2>1. JobsOK'
    BY DEF IInv, Shapes, JobsOK, Popped
  <2>2. MessagesOK'
    BY DEF IInv, Shapes, MessagesOK, Popped, Indices, IsMessage, ToWriterTypes,
       ToReaderTypes
  <2>3. NumbersOK'
    BY DEF IInv, Shapes, NumbersOK
  <2> QED BY <2>1, <2>2, <2>3 DEF Shapes
<1>b. Protocol'
  <2> USE DEF Popped, Indices, Has, ReaderOpen, Confirmed, WriterOpen, Waiting, Answer
  <2>1. IdleOK'
    BY DEF IInv, Protocol, IdleOK, Idle
  <2>2. ReceiveOK'
    BY DEF IInv, Protocol, ReceiveOK
  <2>3. SendOK'
    BY DEF IInv, Protocol, SendOK
  <2>4. DigestOK'
    BY DEF IInv, Protocol, DigestOK
  <2>5. AnswersOK'
    BY DEF IInv, Protocol, AnswersOK, Answer
  <2>6. ReaderOK'
    BY DEF IInv, Protocol, ReaderOK
  <2>7. BlocksOK'
    BY DEF IInv, Protocol, BlocksOK
  <2>8. ConfirmOK'
    BY DEF IInv, Protocol, ConfirmOK
  <2>9. WriterOK'
    BY DEF IInv, Protocol, WriterOK, Deserted, Answer
  <2>10. EndOK'
    BY DEF IInv, Protocol, EndOK
  <2> QED BY <2>1, <2>2, <2>3, <2>4, <2>5, <2>6, <2>7, <2>8, <2>9, <2>10 DEF Protocol
<1>c. Contents'
  <2> USE DEF Popped, Indices, Has, ReaderOpen, Confirmed, WriterOpen, Waiting, Answer
  <2>1. PartsOK'
    BY DEF IInv, Contents, PartsOK, Holds
  <2>2. OpenOK'
    BY DEF IInv, Contents, OpenOK, Holds
  <2>3. OffersOK'
    BY DEF IInv, Contents, OffersOK, Holds
  <2>4. StreamOK'
    BY DEF IInv, Contents, StreamOK, Base
  <2> QED BY <2>1, <2>2, <2>3, <2>4 DEF Contents
<1>d. Owed'
  <2> USE DEF Popped, Indices, Has, ReaderOpen, Confirmed, WriterOpen, Waiting, Answer
  <2>1. SkipsOK'
    BY DEF IInv, Owed, SkipsOK
  <2>2. PassedOK'
    BY FilesNat DEF IInv, Owed, PassedOK, ReaderAt, SendPending, Settled, Arrived,
       Excused, Coming, Protocol, SendOK
  <2>3. PendingOK'
    BY FilesNat DEF IInv, Owed, PendingOK, ReaderAt, SendPending, Settled, Arrived,
       Excused, Coming
  <2>4. ErrorOK'
    BY FilesNat DEF IInv, Owed, ErrorOK, ReaderAt, SendPending, Settled, Arrived,
       Excused, Coming
  <2>5. OverOK'
    BY FilesNat DEF IInv, Owed, OverOK, ReaderAt, SendPending, Settled, Arrived,
       Excused, Coming, Protocol, SendOK
  <2> QED BY <2>1, <2>2, <2>3, <2>4, <2>5 DEF Owed
<1> QED BY <1>a, <1>b, <1>c, <1>d DEF IInv

\* The answer to a digest of an upload: the client sends the file, or the rest of it.
LEMMA ReaderAgreesStep ==
  ASSUME IInv, toReader # <<>>, NEW m, m = Head(toReader), toReader' = Tail(toReader),
         m.type = "digest", reader # NoJob,
         NEW c, c \in {OffsetBlk(m.file_num, m.transferred), OffsetBlk(m.file_num, 0), Skip(m.file_num)}, ~c.skip,
         NEW sought, reader' = ReaderConfirmed(reader, c, sought), ReaderSends(<<c>>),
         skips' = skips \cup Skipped(c),
         torn' = torn \cup Astray(reader', c),
         UNCHANGED <<source, disk, writer, asked, status, direction, strategy, saved, first,
                     lost, failed>>
  PROVE  IInv'
<1>0. /\ Len(toWriter) \in Nat /\ Len(toReader) \in Nat
      /\ reader # NoJob => reader.file_num \in Nat
      /\ writer # NoJob => writer.file_num \in Nat
  BY QueuesThere, ReaderThere, WriterThere
<1>3. Popped(toReader, toReader') /\ m = toReader[1] /\ 1 \in Indices(toReader)
  BY TakeHead, QueuesThere
<1>4. /\ m.file_num \in Files /\ IsConfirm(c) /\ c.file_num = m.file_num /\ c.type = "confirm"
      /\ (c.skip => c.offset = 0) /\ (c.offset = 0 \/ c.offset = m.transferred)
  <2>1. m.file_num \in Files
    BY <1>3 DEF IInv, Shapes, MessagesOK, IsMessage
  <2> QED BY <2>1, RequestFacts
<1>6. direction = "upload"
  BY <1>3 DEF IInv, Shapes, MessagesOK, NumbersOK
<1>5. /\ reader.file_num = m.file_num /\ Waiting /\ asked = {} /\ Len(toWriter) = 0
      /\ \A j \in Indices(toReader') : ~Answer(toReader'[j])
      /\ reader.file_num \in Files /\ reader.stream = StreamAt(0) /\ ~reader.file_confirmed
      /\ \A j \in Indices(toReader) : toReader[j].type # "send"
  <2>1. Answer(m)
    BY DEF Answer
  <2>2. reader.file_num = m.file_num /\ Waiting /\ asked = {}
    BY <1>3, <2>1 DEF IInv, Protocol, AnswersOK
  <2>3. \A j \in Indices(toReader') : ~Answer(toReader'[j])
    BY <1>0, <1>3, <2>1 DEF IInv, Protocol, AnswersOK, Popped, Indices
  <2>4. \A j \in Indices(toReader) : toReader[j].type # "send"
    BY DEF IInv, Protocol, SendOK
  <2> QED BY <2>2, <2>3, <2>4 DEF IInv, Protocol, ReaderOK, Waiting, ReaderOpen
<1>7. \A i \in Indices(toReader) : toReader[i].type # "confirm"
  <2> SUFFICES ASSUME NEW i \in Indices(toReader), toReader[i].type = "confirm" PROVE FALSE
    OBVIOUS
  <2>1. i = 1
    BY <1>3 DEF IInv, Protocol, AnswersOK, Answer
  <2> QED BY <1>3, <2>1
<1>8. /\ IsQueue(toWriter') /\ Len(toWriter') = 1 /\ Indices(toWriter') = {1} /\ toWriter'[1] = c
  <2>1. Grown(toWriter, toWriter', c)
    BY SendOne, QueuesThere DEF ReaderSends
  <2> QED BY <1>5, <2>1 DEF Grown, Indices
<1>9. /\ writer # NoJob => writer.file_num <= reader.file_num
      /\ WriterOpen => writer.file_num < reader.file_num
  BY <1>0, <1>5, <1>6, <1>7 DEF IInv, Protocol, WriterOK, WriterOpen
<1>2. /\ IsReader(reader') /\ reader' # NoJob /\ reader'.file_num = reader.file_num
      /\ reader'.file_confirmed /\ reader'.stream # Closed
      /\ reader'.stream = StreamAt(reader'.stream.pos)
      /\ torn \subseteq torn' /\ torn' \subseteq torn \cup {reader.file_num}
      /\ reader.file_num \notin torn' /\ c.offset \in Nat => reader'.stream.pos = c.offset
  <2>1. IsReader(reader)
    BY ReaderThere
  <2>0. /\ c.file_num = reader.file_num /\ reader.file_num \in Files /\ ~c.skip
        /\ reader.stream = StreamAt(0)
    BY ONLY <1>4, <1>5, ~c.skip
  <2>a. /\ MadeReader(reader', reader.file_num, Seek(reader.stream, c.offset, sought), TRUE)
        /\ Astray(reader', c) \in {{}, {reader.file_num}}
        /\ c.offset > 0 /\ Astray(reader', c) = {} => reader'.stream = StreamAt(c.offset)
    BY ONLY <2>0, <2>1, reader' = ReaderConfirmed(reader, c, sought), ReaderGoesOn
  <2>2. /\ MadeReader(reader', reader.file_num, Seek(StreamAt(0), c.offset, sought), TRUE)
        /\ Astray(reader', c) \in {{}, {reader.file_num}}
        /\ c.offset > 0 /\ Astray(reader', c) = {} => reader'.stream = StreamAt(c.offset)
    BY ONLY <2>0, <2>a
  <2>3. /\ IsReader(reader') /\ reader' # NoJob /\ reader'.file_num = reader.file_num
        /\ reader'.file_confirmed /\ reader'.stream = Seek(StreamAt(0), c.offset, sought)
    BY <2>2 DEF MadeReader
  <2>4. \/ reader'.stream = StreamAt(0) /\ (c.offset = 0 \/ ~sought)
        \/ reader'.stream = StreamAt(c.offset)
    BY <2>3 DEF Seek
  <2>5. reader'.stream # Closed /\ reader'.stream = StreamAt(reader'.stream.pos)
    BY <2>4, StreamFacts
  <2>6. c.offset = 0 => reader'.stream.pos = c.offset
    BY <2>4, StreamFacts
  <2> QED BY <2>2, <2>3, <2>5, <2>6, StreamFacts
<1>10. skips' = skips
  BY DEF Skipped
<1> USE <1>0, <1>2, <1>3, <1>4, <1>5, <1>6, <1>7, <1>8, <1>9, <1>10
<1>a. Shapes'
  <2>1. JobsOK'
    BY DEF IInv, Shapes, JobsOK, Popped
  <2>2. MessagesOK'
    BY DEF IInv, Shapes, MessagesOK, Popped, Indices, IsMessage, ToWriterTypes,
       ToReaderTypes
  <2>3. NumbersOK'
    BY DEF IInv, Shapes, NumbersOK
  <2> QED BY <2>1, <2>2, <2>3 DEF Shapes
<1>b. Protocol'
  <2> USE DEF Popped, Indices, Has, ReaderOpen, Confirmed, WriterOpen, Waiting, Answer
  <2>1. IdleOK'
    BY DEF IInv, Protocol, IdleOK, Idle
  <2>2. ReceiveOK'
    BY DEF IInv, Protocol, ReceiveOK
  <2>3. SendOK'
    BY DEF IInv, Protocol, SendOK
  <2>4. DigestOK'
    BY DEF IInv, Protocol, DigestOK
  <2>5. AnswersOK'
    BY DEF IInv, Protocol, AnswersOK, Answer
  <2>6. ReaderOK'
    BY DEF IInv, Protocol, ReaderOK
  <2>7. BlocksOK'
    BY DEF IInv, Protocol, BlocksOK
  <2>8. ConfirmOK'
    BY DEF IInv, Protocol, ConfirmOK
  <2>9. WriterOK'
    BY DEF IInv, Protocol, WriterOK, Deserted, Answer
  <2>10. EndOK'
    BY DEF IInv, Protocol, EndOK
  <2> QED BY <2>1, <2>2, <2>3, <2>4, <2>5, <2>6, <2>7, <2>8, <2>9, <2>10 DEF Protocol
<1>c. Contents'
  <2> USE DEF Popped, Indices, Has, ReaderOpen, Confirmed, WriterOpen, Waiting, Answer
  <2>1. PartsOK'
    BY DEF IInv, Contents, PartsOK, Holds
  <2>2. OpenOK'
    BY DEF IInv, Contents, OpenOK, Holds
  <2>3. OffersOK'
    BY DEF IInv, Contents, OffersOK, Holds
  <2>4. StreamOK'
    <3> SUFFICES ASSUME writer # NoJob, reader.file_num \notin torn'
                 PROVE  /\ reader'.stream.pos = Base(reader.file_num)' + 1
                        /\ reader'.stream.pos <= Size[reader.file_num]
      BY DEF StreamOK
    <3>1. c.offset \in Nat /\ c.offset <= Size[reader.file_num]
      BY QueuesThere DEF IInv, Contents, OffersOK, Holds
    <3>2. Base(reader.file_num)' = c.offset - 1
      BY DEF Base
    <3>3. reader'.stream.pos = c.offset
      BY ONLY <3>1, <1>2, reader.file_num \notin torn'
    <3> QED BY ONLY <3>1, <3>2, <3>3
  <2> QED BY <2>1, <2>2, <2>3, <2>4 DEF Contents
<1>d. Owed'
  <2> USE DEF Popped, Indices, Has, ReaderOpen, Confirmed, WriterOpen, Waiting, Answer
  <2>1. SkipsOK'
    BY DEF IInv, Owed, SkipsOK
  <2>2. PassedOK'
    BY FilesNat DEF IInv, Owed, PassedOK, ReaderAt, SendPending, Settled, Arrived,
       Excused, Coming, Protocol, SendOK
  <2>3. PendingOK'
    BY FilesNat DEF IInv, Owed, PendingOK, ReaderAt, SendPending, Settled, Arrived,
       Excused, Coming
  <2>4. ErrorOK'
    BY FilesNat DEF IInv, Owed, ErrorOK, ReaderAt, SendPending, Settled, Arrived,
       Excused, Coming
  <2>5. OverOK'
    <3>1. Has(toReader, "done")' => Has(toReader, "done")
      BY ONLY <1>0, <1>3 DEF Popped, Indices, Has
    <3>2. \A f : Settled(f) => Settled(f)'
      BY <1>2, <1>10 DEF Settled, Arrived, Excused
    <3>3. direction # "download"
      BY <1>6
    <3> HIDE DEF Has, Indices, Popped
    <3> QED BY ONLY IInv, <3>1, <3>2, <3>3, UNCHANGED <<direction, saved>> DEF IInv, Owed, OverOK
  <2> QED BY <2>1, <2>2, <2>3, <2>4, <2>5 DEF Owed
<1> QED BY <1>a, <1>b, <1>c, <1>d DEF IInv

\* Data::SendFiles and ResumeJob of an upload: its reader starts, and the writer is asked for.
LEMMA BeginUploadStep ==
  ASSUME IInv, NEW n \in Nums, Idle, direction = "upload",
         reader' = NewReader(n), toWriter' = <<[type |-> "receive", file_num |-> n]>>,
         UNCHANGED <<source, disk, direction, writer, toReader>>,
         asked' = {}, saved' = NotSaved, status' = "running", strategy' = "ask",
         first' \in {first, source},
         skips' \subseteq Files, lost' \subseteq Files, torn' \subseteq Files, failed' \subseteq Files,
         PartsOK', \A f \in Files : f < n => Settled(f)' 
  PROVE  IInv'
<1> DEFINE m == [type |-> "receive", file_num |-> n]
<1>1. /\ reader = NoJob /\ writer = NoJob /\ writer' = NoJob
      /\ Len(toReader) = 0 /\ toReader' = toReader /\ n \in Nat
  BY QueuesThere DEF Idle
<1>2. /\ IsReader(reader') /\ reader' # NoJob /\ reader'.file_num = n
      /\ reader'.stream = Closed /\ ~reader'.file_confirmed
  <2>1. MadeReader(reader', n, Closed, FALSE)
    BY MakeReader DEF NewReader, IsStream
  <2> QED BY <2>1 DEF MadeReader
<1>3. /\ IsQueue(toWriter') /\ Len(toWriter') = 1 /\ toWriter'[1] = m
      /\ m.type = "receive" /\ m.file_num = n
  BY ShortQueues
<1> HIDE DEF m
<1> USE <1>1, <1>2, <1>3
<1>a. Shapes'
  <2>1. JobsOK'
    BY DEF IInv, Shapes, JobsOK
  <2>2. MessagesOK'
    BY DEF IInv, Shapes, MessagesOK, Indices, IsMessage, ToWriterTypes, ToReaderTypes
  <2>3. NumbersOK'
    BY NFilesAssumption DEF IInv, Shapes, NumbersOK, NotSaved
  <2> QED BY <2>1, <2>2, <2>3 DEF Shapes
<1>b. Protocol'
  <2> USE DEF Indices, Has, ReaderOpen, Confirmed, WriterOpen, Waiting
  <2>1. IdleOK'
    BY DEF IInv, Protocol, IdleOK, Idle
  <2>2. ReceiveOK'
    BY DEF IInv, Protocol, ReceiveOK
  <2>3. SendOK'
    BY DEF IInv, Protocol, SendOK
  <2>4. DigestOK'
    BY DEF IInv, Protocol, DigestOK
  <2>5. AnswersOK'
    BY DEF IInv, Protocol, AnswersOK, Answer
  <2>6. ReaderOK'
    BY DEF IInv, Protocol, ReaderOK
  <2>7. BlocksOK'
    BY DEF IInv, Protocol, BlocksOK
  <2>8. ConfirmOK'
    BY DEF IInv, Protocol, ConfirmOK
  <2>9. WriterOK'
    BY DEF IInv, Protocol, WriterOK, Deserted, Answer
  <2>10. EndOK'
    BY DEF IInv, Protocol, EndOK
  <2> QED BY <2>1, <2>2, <2>3, <2>4, <2>5, <2>6, <2>7, <2>8, <2>9, <2>10 DEF Protocol
<1>c. Contents'
  <2> USE DEF Indices, Has, ReaderOpen, Confirmed, WriterOpen, Waiting
  <2>1. PartsOK'
    OBVIOUS
  <2>2. OpenOK'
    BY DEF IInv, Contents, OpenOK, Holds
  <2>3. OffersOK'
    BY DEF IInv, Contents, OffersOK, Holds
  <2>4. StreamOK'
    BY DEF IInv, Contents, StreamOK, Base
  <2> QED BY <2>1, <2>2, <2>3, <2>4 DEF Contents
<1>d. Owed'
  <2> USE DEF Indices, Has, ReaderOpen, Confirmed, WriterOpen, Waiting
  <2>1. SkipsOK'
    BY DEF IInv, Owed, SkipsOK
  <2>2. PassedOK'
    BY FilesNat DEF IInv, Owed, PassedOK, ReaderAt, SendPending, Settled, Arrived,
       Excused, Coming
  <2>3. PendingOK'
    BY FilesNat DEF PendingOK, ReaderAt
  <2>4. ErrorOK'
    BY FilesNat DEF IInv, Owed, ErrorOK, ReaderAt, SendPending, Settled, Arrived,
       Excused, Coming
  <2>5. OverOK'
    BY FilesNat DEF IInv, Owed, OverOK, ReaderAt, SendPending, Settled, Arrived,
       Excused, Coming
  <2> QED BY <2>1, <2>2, <2>3, <2>4, <2>5 DEF Owed
<1> QED BY <1>a, <1>b, <1>c, <1>d DEF IInv

\* Data::SendFiles and ResumeJob of a download: its writer starts, and the reader is asked for.
LEMMA BeginDownloadStep ==
  ASSUME IInv, NEW n \in Nums, Idle, direction = "download",
         writer' = NewWriter(n), toReader' = <<[type |-> "send", file_num |-> n]>>,
         UNCHANGED <<source, disk, direction, reader, toWriter>>,
         asked' = {}, saved' = NotSaved, status' = "running", strategy' = "ask",
         first' \in {first, source},
         skips' \subseteq Files, lost' \subseteq Files, torn' \subseteq Files, failed' \subseteq Files,
         PartsOK', \A f \in Files : f < n => Settled(f)' 
  PROVE  IInv'
<1> DEFINE m == [type |-> "send", file_num |-> n]
<1>1. /\ reader = NoJob /\ writer = NoJob /\ reader' = NoJob
      /\ Len(toWriter) = 0 /\ toWriter' = toWriter /\ n \in Nat
  BY QueuesThere DEF Idle
<1>2. /\ IsWriter(writer') /\ writer' # NoJob /\ writer'.file_num = n /\ writer'.stream = Closed
  <2>1. MadeWriter(writer', n, Closed, n, NoDigest)
    BY MakeWriter DEF NewWriter, IsStream
  <2> QED BY <2>1 DEF MadeWriter
<1>3. /\ IsQueue(toReader') /\ Len(toReader') = 1 /\ toReader'[1] = m
      /\ m.type = "send" /\ m.file_num = n
  BY ShortQueues
<1> HIDE DEF m
<1> USE <1>1, <1>2, <1>3
<1>a. Shapes'
  <2>1. JobsOK'
    BY DEF IInv, Shapes, JobsOK
  <2>2. MessagesOK'
    BY DEF IInv, Shapes, MessagesOK, Indices, IsMessage, ToWriterTypes, ToReaderTypes
  <2>3. NumbersOK'
    BY NFilesAssumption DEF IInv, Shapes, NumbersOK, NotSaved
  <2> QED BY <2>1, <2>2, <2>3 DEF Shapes
<1>b. Protocol'
  <2> USE DEF Indices, Has, ReaderOpen, Confirmed, WriterOpen, Waiting
  <2>1. IdleOK'
    BY DEF IInv, Protocol, IdleOK, Idle
  <2>2. ReceiveOK'
    BY DEF IInv, Protocol, ReceiveOK
  <2>3. SendOK'
    BY DEF IInv, Protocol, SendOK
  <2>4. DigestOK'
    BY DEF IInv, Protocol, DigestOK
  <2>5. AnswersOK'
    BY DEF IInv, Protocol, AnswersOK, Answer
  <2>6. ReaderOK'
    BY DEF IInv, Protocol, ReaderOK
  <2>7. BlocksOK'
    BY DEF IInv, Protocol, BlocksOK
  <2>8. ConfirmOK'
    BY DEF IInv, Protocol, ConfirmOK
  <2>9. WriterOK'
    BY DEF IInv, Protocol, WriterOK, Deserted, Answer
  <2>10. EndOK'
    BY DEF IInv, Protocol, EndOK
  <2> QED BY <2>1, <2>2, <2>3, <2>4, <2>5, <2>6, <2>7, <2>8, <2>9, <2>10 DEF Protocol
<1>c. Contents'
  <2> USE DEF Indices, Has, ReaderOpen, Confirmed, WriterOpen, Waiting
  <2>1. PartsOK'
    OBVIOUS
  <2>2. OpenOK'
    BY DEF IInv, Contents, OpenOK, Holds
  <2>3. OffersOK'
    BY DEF IInv, Contents, OffersOK, Holds
  <2>4. StreamOK'
    BY DEF IInv, Contents, StreamOK, Base
  <2> QED BY <2>1, <2>2, <2>3, <2>4 DEF Contents
<1>d. Owed'
  <2> USE DEF Indices, Has, ReaderOpen, Confirmed, WriterOpen, Waiting
  <2>1. SkipsOK'
    BY DEF IInv, Owed, SkipsOK
  <2>2. PassedOK'
    BY FilesNat DEF PassedOK, ReaderAt, SendPending
  <2>3. PendingOK'
    BY FilesNat DEF IInv, Owed, PendingOK, ReaderAt, SendPending, Settled, Arrived,
       Excused, Coming
  <2>4. ErrorOK'
    BY FilesNat DEF IInv, Owed, ErrorOK, ReaderAt, SendPending, Settled, Arrived,
       Excused, Coming
  <2>5. OverOK'
    BY FilesNat DEF IInv, Owed, OverOK, ReaderAt, SendPending, Settled, Arrived,
       Excused, Coming
  <2> QED BY <2>1, <2>2, <2>3, <2>4, <2>5 DEF Owed
<1> QED BY <1>a, <1>b, <1>c, <1>d DEF IInv

\* Data::CancelJob of an upload: the reader is removed and the writer told.
LEMMA CancelUploadStep ==
  ASSUME IInv, status = "running", direction = "upload",
         toWriter' = Append(toWriter, [type |-> "cancel"]), reader' = NoJob,
         UNCHANGED <<disk, writer, toReader>>,
         asked' = {}, skips' = Files, status' = "error",
         UNCHANGED <<source, uiVars, first, lost, torn, failed>>
  PROVE  IInv'
<1> DEFINE m == [type |-> "cancel"]
<1>1. /\ UNCHANGED <<source, disk, writer, toReader, direction, strategy, saved, first, lost, torn, failed>>
      /\ saved = NotSaved
  BY DEF uiVars, IInv, Protocol, IdleOK
<1>3. Grown(toWriter, toWriter', m)
  BY SendOne, QueuesThere
<1>4. m.type = "cancel"
  OBVIOUS
<1>0. Len(toWriter) \in Nat /\ Len(toReader) \in Nat
  BY QueuesThere
<1>9. \A f \in Files : f \in Excused'
  BY DEF Excused
<1> HIDE DEF m
<1> USE <1>0, <1>1, <1>3, <1>4
<1>a. Shapes'
  <2>1. JobsOK'
    BY DEF IInv, Shapes, JobsOK, Grown
  <2>2. MessagesOK'
    BY DEF IInv, Shapes, MessagesOK, Grown, Indices, IsMessage, ToWriterTypes,
       ToReaderTypes
  <2>3. NumbersOK'
    BY DEF IInv, Shapes, NumbersOK
  <2> QED BY <2>1, <2>2, <2>3 DEF Shapes
<1>b. Protocol'
  <2> USE DEF Grown, Indices, Has, ReaderOpen, Confirmed, WriterOpen, Waiting
  <2>1. IdleOK'
    BY DEF IInv, Protocol, IdleOK, Idle
  <2>2. ReceiveOK'
    BY DEF IInv, Protocol, ReceiveOK
  <2>3. SendOK'
    BY DEF IInv, Protocol, SendOK, Shapes, MessagesOK, Grown, Popped, Indices,
       IsMessage, ToWriterTypes, ToReaderTypes
  <2>4. DigestOK'
    BY DEF IInv, Protocol, DigestOK, ReaderOK
  <2>5. AnswersOK'
    BY DEF IInv, Protocol, AnswersOK, Answer
  <2>6. ReaderOK'
    BY DEF IInv, Protocol, ReaderOK
  <2>7. BlocksOK'
    BY DEF IInv, Protocol, BlocksOK
  <2>8. ConfirmOK'
    BY DEF IInv, Protocol, ConfirmOK
  <2>9. WriterOK'
    BY DEF IInv, Protocol, WriterOK, Deserted, Answer
  <2>10. EndOK'
    BY DEF IInv, Protocol, EndOK
  <2> QED BY <2>1, <2>2, <2>3, <2>4, <2>5, <2>6, <2>7, <2>8, <2>9, <2>10 DEF Protocol
<1>c. Contents'
  <2> USE DEF Grown, Indices, Has, ReaderOpen, Confirmed, WriterOpen, Waiting
  <2>1. PartsOK'
    BY DEF IInv, Contents, PartsOK, Holds
  <2>2. OpenOK'
    BY DEF IInv, Contents, OpenOK, Holds
  <2>3. OffersOK'
    BY DEF IInv, Contents, OffersOK, Holds
  <2>4. StreamOK'
    BY DEF IInv, Contents, StreamOK, Base
  <2> QED BY <2>1, <2>2, <2>3, <2>4 DEF Contents
<1>d. Owed'
  <2> USE DEF Grown, Indices, Has, ReaderOpen, Confirmed, WriterOpen, Waiting
  <2>1. SkipsOK'
    BY DEF IInv, Owed, SkipsOK, Shapes, MessagesOK, Grown, Popped, Indices, IsMessage,
       ToWriterTypes, ToReaderTypes
  <2>2. PassedOK'
    BY <1>9 DEF PassedOK, Settled
  <2>3. PendingOK'
    BY <1>9 DEF PendingOK, Settled
  <2>4. ErrorOK'
    BY <1>9 DEF ErrorOK, Settled
  <2>5. OverOK'
    BY <1>9 DEF OverOK, Settled
  <2> QED BY <2>1, <2>2, <2>3, <2>4, <2>5 DEF Owed
<1> QED BY <1>a, <1>b, <1>c, <1>d DEF IInv

\* Data::CancelJob of a download: the writer is removed and the reader told.
LEMMA CancelDownloadStep ==
  ASSUME IInv, status = "running", direction = "download",
         toReader' = Append(toReader, [type |-> "cancel"]), writer' = NoJob,
         NEW part, NEW digest, disk' = remove_download_file(disk, writer, part, digest),
         UNCHANGED <<reader, toWriter>>,
         asked' = {}, skips' = Files, status' = "error",
         UNCHANGED <<source, uiVars, first, lost, torn, failed>>
  PROVE  IInv'
<1> DEFINE m == [type |-> "cancel"]
<1>1. /\ UNCHANGED <<source, reader, toWriter, direction, strategy, saved, first, lost, torn, failed>>
      /\ saved = NotSaved
  BY DEF uiVars, IInv, Protocol, IdleOK
<1>2. /\ IsDisk(disk')
      /\ \A f \in Files : \/ disk'[f] = disk[f]
                          \/ disk'[f].download = Absent
                          \/ disk'[f].digest = NoDigest
                          \/ disk'[f].download = disk[f].download /\ disk'[f].digest = disk[f].digest
  <2>1. IsDisk(disk)
    BY DEF IInv, Shapes, JobsOK
  <2>2. CASE writer # NoJob
    <3>1. /\ IsDisk(disk')
          /\ \A f \in Files : f # writer.file_num => disk'[f] = disk[f]
          /\ writer.file_num \in Files =>
               /\ disk'[writer.file_num].download \in {Absent, disk[writer.file_num].download}
               /\ disk'[writer.file_num].digest \in {NoDigest, disk[writer.file_num].digest}
      BY <2>1, <2>2, DiskCleared
    <3> QED BY ONLY <3>1
  <2>3. CASE writer = NoJob
    BY <2>1, <2>3 DEF remove_download_file
  <2> QED BY <2>2, <2>3
<1>3. Grown(toReader, toReader', m)
  BY SendOne, QueuesThere
<1>4. m.type = "cancel"
  OBVIOUS
<1>0. Len(toWriter) \in Nat /\ Len(toReader) \in Nat
  BY QueuesThere
<1>9. \A f \in Files : f \in Excused'
  BY DEF Excused
<1> HIDE DEF m
<1> USE <1>0, <1>1, <1>2, <1>3, <1>4
<1>a. Shapes'
  <2>1. JobsOK'
    BY DEF IInv, Shapes, JobsOK, Grown
  <2>2. MessagesOK'
    BY DEF IInv, Shapes, MessagesOK, Grown, Indices, IsMessage, ToWriterTypes,
       ToReaderTypes
  <2>3. NumbersOK'
    BY DEF IInv, Shapes, NumbersOK
  <2> QED BY <2>1, <2>2, <2>3 DEF Shapes
<1>b. Protocol'
  <2> USE DEF Grown, Indices, Has, ReaderOpen, Confirmed, WriterOpen, Waiting
  <2>1. IdleOK'
    BY DEF IInv, Protocol, IdleOK, Idle
  <2>2. ReceiveOK'
    BY DEF IInv, Protocol, ReceiveOK, Shapes, MessagesOK, Grown, Popped, Indices,
       IsMessage, ToWriterTypes, ToReaderTypes
  <2>3. SendOK'
    BY DEF IInv, Protocol, SendOK
  <2>4. DigestOK'
    BY DEF IInv, Protocol, DigestOK
  <2>5. AnswersOK'
    BY DEF IInv, Protocol, AnswersOK, Answer
  <2>6. ReaderOK'
    BY DEF IInv, Protocol, ReaderOK
  <2>7. BlocksOK'
    BY DEF IInv, Protocol, BlocksOK
  <2>8. ConfirmOK'
    BY DEF IInv, Protocol, ConfirmOK
  <2>9. WriterOK'
    BY DEF IInv, Protocol, WriterOK, Deserted, Answer
  <2>10. EndOK'
    BY DEF IInv, Protocol, EndOK
  <2> QED BY <2>1, <2>2, <2>3, <2>4, <2>5, <2>6, <2>7, <2>8, <2>9, <2>10 DEF Protocol
<1>c. Contents'
  <2> USE DEF Grown, Indices, Has, ReaderOpen, Confirmed, WriterOpen, Waiting
  <2>1. PartsOK'
    BY DEF IInv, Contents, PartsOK, Holds
  <2>2. OpenOK'
    BY DEF IInv, Contents, OpenOK, Holds
  <2>3. OffersOK'
    BY DEF IInv, Contents, OffersOK, Holds
  <2>4. StreamOK'
    BY DEF IInv, Contents, StreamOK, Base
  <2> QED BY <2>1, <2>2, <2>3, <2>4 DEF Contents
<1>d. Owed'
  <2> USE DEF Grown, Indices, Has, ReaderOpen, Confirmed, WriterOpen, Waiting
  <2>1. SkipsOK'
    BY DEF IInv, Owed, SkipsOK, Shapes, MessagesOK, Grown, Popped, Indices, IsMessage,
       ToWriterTypes, ToReaderTypes
  <2>2. PassedOK'
    BY <1>9 DEF PassedOK, Settled
  <2>3. PendingOK'
    BY <1>9 DEF PendingOK, Settled
  <2>4. ErrorOK'
    BY <1>9 DEF ErrorOK, Settled
  <2>5. OverOK'
    BY <1>9 DEF OverOK, Settled
  <2> QED BY <2>1, <2>2, <2>3, <2>4, <2>5 DEF Owed
<1> QED BY <1>a, <1>b, <1>c, <1>d DEF IInv

\* The connection is lost: both jobs and all messages are gone, the client's place is saved.
LEMMA DisconnectStep ==
  ASSUME IInv, Disconnect
  PROVE  IInv'
<1>1. /\ reader' = NoJob /\ writer' = NoJob /\ asked' = {} /\ status' = "error"
      /\ UNCHANGED <<source, disk, direction, strategy, first, skips, torn, failed>>
  BY DEF Disconnect
<1>2. IsQueue(toWriter') /\ Len(toWriter') = 0 /\ IsQueue(toReader') /\ Len(toReader') = 0
  BY ShortQueues DEF Disconnect
<1>3. saved' \in 0 .. NFiles + 1
  BY ReaderThere, WriterThere, NFilesAssumption DEF Disconnect, Nums, NotSaved
<1>4. lost \subseteq lost' /\ lost' \subseteq Files
  BY DEF Disconnect, IInv, Shapes, NumbersOK
<1>5. saved' # NotSaved => \A f \in Files : f < saved' => Settled(f)'
  <2> SUFFICES ASSUME saved' # NotSaved, NEW f \in Files, f < saved' PROVE Settled(f)'
    OBVIOUS
  <2>1. Settled(f) => Settled(f)'
    BY <1>1, <1>4 DEF Settled, Excused, Arrived
  <2>2. CASE direction = "upload"
    <3>1. reader # NoJob /\ f < reader.file_num
      BY <2>2 DEF Disconnect
    <3>2. f \in skips \/ disk[f].name = Whole(source, f) \/ f \in lost'
      BY <2>2, <3>1 DEF Disconnect
    <3>3. source \in first .. source
      BY DEF IInv, Shapes, NumbersOK
    <3> QED BY <1>1, <3>2, <3>3 DEF Settled, Excused, Arrived
  <2>3. CASE direction # "upload"
    <3>1. writer # NoJob /\ f < writer.file_num
      BY <2>3 DEF Disconnect
    <3> QED BY <2>1, <3>1 DEF IInv, Owed, PassedOK
  <2> QED BY <2>2, <2>3
<1> USE <1>1, <1>2, <1>3, <1>4
<1>a. Shapes'
  <2>1. JobsOK'
    BY DEF IInv, Shapes, JobsOK
  <2>2. MessagesOK'
    BY DEF IInv, Shapes, MessagesOK, Indices, IsMessage, ToWriterTypes, ToReaderTypes
  <2>3. NumbersOK'
    BY DEF IInv, Shapes, NumbersOK
  <2> QED BY <2>1, <2>2, <2>3 DEF Shapes
<1>b. Protocol'
  <2> USE DEF Indices, Has, ReaderOpen, Confirmed, WriterOpen, Waiting
  <2>1. IdleOK'
    BY DEF IInv, Protocol, IdleOK, Idle
  <2>2. ReceiveOK'
    BY DEF IInv, Protocol, ReceiveOK
  <2>3. SendOK'
    BY DEF IInv, Protocol, SendOK
  <2>4. DigestOK'
    BY DEF IInv, Protocol, DigestOK
  <2>5. AnswersOK'
    BY DEF IInv, Protocol, AnswersOK, Answer
  <2>6. ReaderOK'
    BY DEF IInv, Protocol, ReaderOK
  <2>7. BlocksOK'
    BY DEF IInv, Protocol, BlocksOK
  <2>8. ConfirmOK'
    BY DEF IInv, Protocol, ConfirmOK
  <2>9. WriterOK'
    BY DEF IInv, Protocol, WriterOK, Deserted, Answer
  <2>10. EndOK'
    BY DEF IInv, Protocol, EndOK
  <2> QED BY <2>1, <2>2, <2>3, <2>4, <2>5, <2>6, <2>7, <2>8, <2>9, <2>10 DEF Protocol
<1>c. Contents'
  <2> USE DEF Indices, Has, ReaderOpen, Confirmed, WriterOpen, Waiting
  <2>1. PartsOK'
    BY DEF IInv, Contents, PartsOK, Holds
  <2>2. OpenOK'
    BY DEF IInv, Contents, OpenOK, Holds
  <2>3. OffersOK'
    BY DEF IInv, Contents, OffersOK, Holds
  <2>4. StreamOK'
    BY DEF IInv, Contents, StreamOK, Base
  <2> QED BY <2>1, <2>2, <2>3, <2>4 DEF Contents
<1>d. Owed'
  <2> USE DEF Indices, Has, ReaderOpen, Confirmed, WriterOpen, Waiting
  <2>1. SkipsOK'
    BY DEF IInv, Owed, SkipsOK
  <2>2. PassedOK'
    BY FilesNat DEF IInv, Owed, PassedOK, ReaderAt, SendPending, Settled, Arrived,
       Excused, Coming
  <2>3. PendingOK'
    BY FilesNat DEF IInv, Owed, PendingOK, ReaderAt, SendPending, Settled, Arrived,
       Excused, Coming
  <2>4. ErrorOK'
    BY FilesNat DEF IInv, Owed, ErrorOK, ReaderAt, SendPending, Settled, Arrived,
       Excused, Coming
  <2>5. OverOK'
    BY <1>5 DEF OverOK, SendPending
  <2> QED BY <2>1, <2>2, <2>3, <2>4, <2>5 DEF Owed
<1> QED BY <1>a, <1>b, <1>c, <1>d DEF IInv

\* The files are modified while there is no job.
LEMMA SourceChangesStep ==
  ASSUME IInv, SourceChanges
  PROVE  IInv'
<1>1. /\ reader = NoJob /\ writer = NoJob /\ source' = source + 1
      /\ UNCHANGED <<disk, reader, writer, asked, toWriter, toReader, status, direction, strategy, saved,
                     first, skips, lost, torn, failed>>
  BY DEF SourceChanges, uiVars, history
<1>2. source \in Nat /\ first \in Nat
  BY DEF IInv, Shapes, NumbersOK
<1>3. \A f : Settled(f) => Settled(f)'
  BY <1>1, <1>2 DEF Settled, Excused, Arrived
<1> USE <1>1, <1>2, <1>3
<1>a. Shapes'
  <2>1. JobsOK'
    BY DEF IInv, Shapes, JobsOK
  <2>2. MessagesOK'
    BY DEF IInv, Shapes, MessagesOK, Indices, IsMessage, ToWriterTypes, ToReaderTypes
  <2>3. NumbersOK'
    BY DEF IInv, Shapes, NumbersOK, NoDigest
  <2> QED BY <2>1, <2>2, <2>3 DEF Shapes
<1>b. Protocol'
  <2> USE DEF Indices, Has, ReaderOpen, Confirmed, WriterOpen, Waiting
  <2>1. IdleOK'
    BY DEF IInv, Protocol, IdleOK, Idle
  <2>2. ReceiveOK'
    BY DEF IInv, Protocol, ReceiveOK
  <2>3. SendOK'
    BY DEF IInv, Protocol, SendOK
  <2>4. DigestOK'
    BY DEF IInv, Protocol, DigestOK
  <2>5. AnswersOK'
    BY DEF IInv, Protocol, AnswersOK, Answer
  <2>6. ReaderOK'
    BY DEF IInv, Protocol, ReaderOK
  <2>7. BlocksOK'
    BY DEF IInv, Protocol, BlocksOK
  <2>8. ConfirmOK'
    BY DEF IInv, Protocol, ConfirmOK
  <2>9. WriterOK'
    BY DEF IInv, Protocol, WriterOK, Deserted, Answer
  <2>10. EndOK'
    BY DEF IInv, Protocol, EndOK
  <2> QED BY <2>1, <2>2, <2>3, <2>4, <2>5, <2>6, <2>7, <2>8, <2>9, <2>10 DEF Protocol
<1>c. Contents'
  <2> USE DEF Indices, Has, ReaderOpen, Confirmed, WriterOpen, Waiting
  <2>1. PartsOK'
    BY DEF IInv, Contents, PartsOK, Holds
  <2>2. OpenOK'
    BY DEF IInv, Contents, OpenOK, Holds
  <2>3. OffersOK'
    BY DEF IInv, Contents, OffersOK, Holds
  <2>4. StreamOK'
    BY DEF IInv, Contents, StreamOK, Base
  <2> QED BY <2>1, <2>2, <2>3, <2>4 DEF Contents
<1>d. Owed'
  <2> USE DEF Indices, Has, ReaderOpen, Confirmed, WriterOpen, Waiting
  <2>1. SkipsOK'
    BY DEF IInv, Owed, SkipsOK
  <2>2. PassedOK'
    BY DEF IInv, Owed, PassedOK, ReaderAt, SendPending, Excused, Coming
  <2>3. PendingOK'
    BY DEF IInv, Owed, PendingOK, ReaderAt, SendPending, Excused, Coming
  <2>4. ErrorOK'
    BY DEF IInv, Owed, ErrorOK, ReaderAt, SendPending, Excused, Coming
  <2>5. OverOK'
    BY DEF IInv, Owed, OverOK, ReaderAt, SendPending, Excused, Coming
  <2> QED BY <2>1, <2>2, <2>3, <2>4, <2>5 DEF Owed
<1> QED BY <1>a, <1>b, <1>c, <1>d DEF IInv

\* Data::SetConfirmOverrideFile of an upload: the user skips a file.
LEMMA UserSkipsUploadStep ==
  ASSUME IInv, NEW n \in asked, NEW c, c = Skip(n), asked' = asked \ {n},
         skips' = skips \cup Skipped(c),
         strategy' \in {"ask", "overwrite", "skip"},
         UNCHANGED <<source, disk, direction, resume, toWriter, saved, jobs, status, first,
                     lost, torn, failed>>,
         NEW sought, direction = "upload", reader # NoJob,
         reader' = ReaderConfirmed(reader, c, sought), UNCHANGED <<writer, toReader>>
  PROVE  IInv'
<1>r. reader # NoJob
  OBVIOUS
<1>0. /\ Len(toWriter) \in Nat /\ Len(toReader) \in Nat /\ reader.file_num \in Nat
      /\ writer # NoJob => writer.file_num \in Nat
  BY <1>r, QueuesThere, ReaderThere, WriterThere
<1>5. /\ reader.file_num = n /\ Waiting /\ asked' = {} /\ Len(toWriter) = 0
      /\ \A j \in Indices(toReader) : ~Answer(toReader[j])
      /\ reader.file_num \in Files /\ reader.stream = StreamAt(0) /\ ~reader.file_confirmed
      /\ \A j \in Indices(toReader) : toReader[j].type # "send"
      /\ saved = NotSaved /\ status # "none"
  <2>1. reader.file_num = n /\ Waiting /\ \A j \in Indices(toReader) : ~Answer(toReader[j])
    BY <1>r DEF IInv, Protocol, AnswersOK
  <2>2. \A j \in Indices(toReader) : toReader[j].type # "send"
    BY <1>r DEF IInv, Protocol, SendOK
  <2>3. asked' = {}
    BY <1>r DEF IInv, Protocol, AnswersOK
  <2> QED BY <1>r, <2>1, <2>2, <2>3 DEF IInv, Protocol, ReaderOK, IdleOK, Idle, Waiting, ReaderOpen
<1>9. /\ writer # NoJob => writer.file_num <= reader.file_num
      /\ WriterOpen => writer.file_num < reader.file_num
  BY <1>r, <1>0, <1>5 DEF IInv, Protocol, WriterOK, WriterOpen, Answer
<1>4. /\ c.type = "confirm" /\ c.file_num = n /\ (c.skip => c.offset = 0) /\ c.offset = 0
           /\ IsConfirm(c)
      /\ c.skip /\ skips' = skips \cup {c.file_num}
  BY RequestFacts DEF Skipped
<1>2. /\ IsReader(reader') /\ reader' # NoJob /\ reader'.file_num = reader.file_num + 1
      /\ reader'.stream = Closed /\ ~reader'.file_confirmed
  <2>1. IsReader(reader)
    BY <1>r, ReaderThere
  <2>2. MadeReader(reader', reader.file_num + 1, Closed, FALSE)
    BY <1>r, <1>4, <1>5, <2>1, ReaderGoesOn
  <2> QED BY <2>2 DEF MadeReader
<1> USE <1>r, <1>0, <1>2, <1>4, <1>5, <1>9
<1>a. Shapes'
  <2>1. JobsOK'
    BY QueuesThere DEF IInv, Shapes, JobsOK
  <2>2. MessagesOK'
    BY DEF IInv, Shapes, MessagesOK, Indices, IsMessage, ToWriterTypes, ToReaderTypes
  <2>3. NumbersOK'
    BY DEF IInv, Shapes, NumbersOK
  <2> QED BY <2>1, <2>2, <2>3 DEF Shapes
<1>b. Protocol'
  <2> USE DEF Indices, Has, ReaderOpen, Confirmed, WriterOpen, Waiting, Answer
  <2>1. IdleOK'
    BY DEF IInv, Protocol, IdleOK, Idle
  <2>2. ReceiveOK'
    BY DEF IInv, Protocol, ReceiveOK
  <2>3. SendOK'
    BY DEF IInv, Protocol, SendOK
  <2>4. DigestOK'
    BY DEF IInv, Protocol, DigestOK
  <2>5. AnswersOK'
    BY DEF IInv, Protocol, AnswersOK, Answer
  <2>6. ReaderOK'
    BY DEF IInv, Protocol, ReaderOK
  <2>7. BlocksOK'
    BY DEF IInv, Protocol, BlocksOK
  <2>8. ConfirmOK'
    BY DEF IInv, Protocol, ConfirmOK
  <2>9. WriterOK'
    BY DEF IInv, Protocol, WriterOK, Deserted, Answer
  <2>10. EndOK'
    BY DEF IInv, Protocol, EndOK
  <2> QED BY <2>1, <2>2, <2>3, <2>4, <2>5, <2>6, <2>7, <2>8, <2>9, <2>10 DEF Protocol
<1>c. Contents'
  <2> USE DEF Indices, Has, ReaderOpen, Confirmed, WriterOpen, Waiting, Answer
  <2>1. PartsOK'
    BY DEF IInv, Contents, PartsOK, Holds
  <2>2. OpenOK'
    BY DEF IInv, Contents, OpenOK, Holds
  <2>3. OffersOK'
    BY DEF IInv, Contents, OffersOK, Holds
  <2>4. StreamOK'
    BY DEF IInv, Contents, StreamOK, Base
  <2> QED BY <2>1, <2>2, <2>3, <2>4 DEF Contents
<1>d. Owed'
  <2> USE DEF Indices, Has, ReaderOpen, Confirmed, WriterOpen, Waiting, Answer
  <2>1. SkipsOK'
    BY DEF IInv, Owed, SkipsOK
  <2>2. PassedOK'
    BY FilesNat DEF IInv, Owed, PassedOK, ReaderAt, SendPending, Settled, Arrived,
       Excused, Coming
  <2>3. PendingOK'
    BY FilesNat DEF IInv, Owed, PendingOK, ReaderAt, SendPending, Settled, Arrived,
       Excused, Coming
  <2>4. ErrorOK'
    BY FilesNat DEF IInv, Owed, ErrorOK, ReaderAt, SendPending, Settled, Arrived,
       Excused, Coming
  <2>5. OverOK'
    BY FilesNat DEF IInv, Owed, OverOK, ReaderAt, SendPending, Settled, Arrived,
       Excused, Coming
  <2> QED BY <2>1, <2>2, <2>3, <2>4, <2>5 DEF Owed
<1> QED BY <1>a, <1>b, <1>c, <1>d DEF IInv

\* Data::SetConfirmOverrideFile of an upload: the user has a file sent.
LEMMA UserConfirmsUploadStep ==
  ASSUME IInv, NEW n \in asked, NEW c, c = OffsetBlk(n, 0), asked' = asked \ {n},
         skips' = skips \cup Skipped(c),
         strategy' \in {"ask", "overwrite", "skip"},
         UNCHANGED <<source, disk, direction, resume, toWriter, saved, jobs, status, first,
                     lost, torn, failed>>,
         NEW sought, direction = "upload", reader # NoJob,
         reader' = ReaderConfirmed(reader, c, sought), UNCHANGED <<writer, toReader>>
  PROVE  IInv'
<1>r. reader # NoJob
  OBVIOUS
<1>0. /\ Len(toWriter) \in Nat /\ Len(toReader) \in Nat /\ reader.file_num \in Nat
      /\ writer # NoJob => writer.file_num \in Nat
  BY <1>r, QueuesThere, ReaderThere, WriterThere
<1>5. /\ reader.file_num = n /\ Waiting /\ asked' = {} /\ Len(toWriter) = 0
      /\ \A j \in Indices(toReader) : ~Answer(toReader[j])
      /\ reader.file_num \in Files /\ reader.stream = StreamAt(0) /\ ~reader.file_confirmed
      /\ \A j \in Indices(toReader) : toReader[j].type # "send"
      /\ saved = NotSaved /\ status # "none"
  <2>1. reader.file_num = n /\ Waiting /\ \A j \in Indices(toReader) : ~Answer(toReader[j])
    BY <1>r DEF IInv, Protocol, AnswersOK
  <2>2. \A j \in Indices(toReader) : toReader[j].type # "send"
    BY <1>r DEF IInv, Protocol, SendOK
  <2>3. asked' = {}
    BY <1>r DEF IInv, Protocol, AnswersOK
  <2> QED BY <1>r, <2>1, <2>2, <2>3 DEF IInv, Protocol, ReaderOK, IdleOK, Idle, Waiting, ReaderOpen
<1>9. /\ writer # NoJob => writer.file_num <= reader.file_num
      /\ WriterOpen => writer.file_num < reader.file_num
  BY <1>r, <1>0, <1>5 DEF IInv, Protocol, WriterOK, WriterOpen, Answer
<1>4. /\ c.type = "confirm" /\ c.file_num = n /\ (c.skip => c.offset = 0) /\ c.offset = 0
           /\ IsConfirm(c)
      /\ ~c.skip /\ skips' = skips
  BY RequestFacts DEF Skipped
<1>2. /\ IsReader(reader') /\ reader' # NoJob /\ reader'.file_num = reader.file_num
      /\ reader'.stream # Closed /\ reader'.file_confirmed
      /\ reader'.stream = StreamAt(reader'.stream.pos) /\ reader'.stream.pos = c.offset
  <2>1. IsReader(reader)
    BY <1>r, ReaderThere
  <2>2. MadeReader(reader', reader.file_num, Seek(StreamAt(0), c.offset, sought), TRUE)
    BY <1>r, <1>4, <1>5, <2>1, ReaderGoesOn
  <2> QED BY <1>4, <2>2, StreamFacts DEF MadeReader, Seek
<1> USE <1>r, <1>0, <1>2, <1>4, <1>5, <1>9
<1>a. Shapes'
  <2>1. JobsOK'
    BY DEF IInv, Shapes, JobsOK
  <2>2. MessagesOK'
    BY DEF IInv, Shapes, MessagesOK, Indices, IsMessage, ToWriterTypes, ToReaderTypes
  <2>3. NumbersOK'
    BY DEF IInv, Shapes, NumbersOK
  <2> QED BY <2>1, <2>2, <2>3 DEF Shapes
<1>b. Protocol'
  <2> USE DEF Indices, Has, ReaderOpen, Confirmed, WriterOpen, Waiting, Answer
  <2>1. IdleOK'
    BY DEF IInv, Protocol, IdleOK, Idle
  <2>2. ReceiveOK'
    BY DEF IInv, Protocol, ReceiveOK
  <2>3. SendOK'
    BY DEF IInv, Protocol, SendOK
  <2>4. DigestOK'
    BY DEF IInv, Protocol, DigestOK
  <2>5. AnswersOK'
    BY DEF IInv, Protocol, AnswersOK, Answer
  <2>6. ReaderOK'
    BY DEF IInv, Protocol, ReaderOK
  <2>7. BlocksOK'
    BY DEF IInv, Protocol, BlocksOK
  <2>8. ConfirmOK'
    BY DEF IInv, Protocol, ConfirmOK
  <2>9. WriterOK'
    BY DEF IInv, Protocol, WriterOK, Deserted, Answer
  <2>10. EndOK'
    BY DEF IInv, Protocol, EndOK
  <2> QED BY <2>1, <2>2, <2>3, <2>4, <2>5, <2>6, <2>7, <2>8, <2>9, <2>10 DEF Protocol
<1>c. Contents'
  <2> USE DEF Indices, Has, ReaderOpen, Confirmed, WriterOpen, Waiting, Answer
  <2>1. PartsOK'
    BY DEF IInv, Contents, PartsOK, Holds
  <2>2. OpenOK'
    BY DEF IInv, Contents, OpenOK, Holds
  <2>3. OffersOK'
    BY DEF IInv, Contents, OffersOK, Holds
  <2>4. StreamOK'
    <3>1. writer # NoJob => Base(reader.file_num)' = 0
      BY DEF Base
    <3>2. Size[reader.file_num] \in Nat
      BY QueuesThere
    <3> QED BY <3>1, <3>2 DEF StreamOK
  <2> QED BY <2>1, <2>2, <2>3, <2>4 DEF Contents
<1>d. Owed'
  <2> USE DEF Indices, Has, ReaderOpen, Confirmed, WriterOpen, Waiting, Answer
  <2>1. SkipsOK'
    BY DEF IInv, Owed, SkipsOK
  <2>2. PassedOK'
    BY FilesNat DEF IInv, Owed, PassedOK, ReaderAt, SendPending, Settled, Arrived,
       Excused, Coming
  <2>3. PendingOK'
    BY FilesNat DEF IInv, Owed, PendingOK, ReaderAt, SendPending, Settled, Arrived,
       Excused, Coming
  <2>4. ErrorOK'
    BY FilesNat DEF IInv, Owed, ErrorOK, ReaderAt, SendPending, Settled, Arrived,
       Excused, Coming
  <2>5. OverOK'
    BY FilesNat DEF IInv, Owed, OverOK, ReaderAt, SendPending, Settled, Arrived,
       Excused, Coming
  <2> QED BY <2>1, <2>2, <2>3, <2>4, <2>5 DEF Owed
<1> QED BY <1>a, <1>b, <1>c, <1>d DEF IInv

\* Data::SetConfirmOverrideFile of a download: the user skips a file.
LEMMA UserSkipsDownloadStep ==
  ASSUME IInv, NEW n \in asked, NEW c, c = Skip(n), asked' = asked \ {n},
         skips' = skips \cup Skipped(c),
         strategy' \in {"ask", "overwrite", "skip"},
         UNCHANGED <<source, disk, direction, resume, toWriter, saved, jobs, status, first,
                     lost, torn, failed>>,
         NEW sought, direction = "download", writer # NoJob,
         writer' = WriterConfirmed(writer, c, sought), toReader' = Append(toReader, c), UNCHANGED reader
  PROVE  IInv'
<1>r. reader # NoJob
  BY DEF IInv, Protocol, AnswersOK
<1>0. /\ Len(toWriter) \in Nat /\ Len(toReader) \in Nat /\ reader.file_num \in Nat
      /\ writer # NoJob => writer.file_num \in Nat
  BY <1>r, QueuesThere, ReaderThere, WriterThere
<1>5. /\ reader.file_num = n /\ Waiting /\ asked' = {} /\ Len(toWriter) = 0
      /\ \A j \in Indices(toReader) : ~Answer(toReader[j])
      /\ reader.file_num \in Files /\ reader.stream = StreamAt(0) /\ ~reader.file_confirmed
      /\ \A j \in Indices(toReader) : toReader[j].type # "send"
      /\ saved = NotSaved /\ status # "none"
  <2>1. reader.file_num = n /\ Waiting /\ \A j \in Indices(toReader) : ~Answer(toReader[j])
    BY <1>r DEF IInv, Protocol, AnswersOK
  <2>2. \A j \in Indices(toReader) : toReader[j].type # "send"
    BY <1>r DEF IInv, Protocol, SendOK
  <2>3. asked' = {}
    BY <1>r DEF IInv, Protocol, AnswersOK
  <2> QED BY <1>r, <2>1, <2>2, <2>3 DEF IInv, Protocol, ReaderOK, IdleOK, Idle, Waiting, ReaderOpen
<1>9. /\ writer # NoJob => writer.file_num <= reader.file_num
      /\ WriterOpen => writer.file_num < reader.file_num
  BY <1>r, <1>0, <1>5 DEF IInv, Protocol, WriterOK, WriterOpen, Answer
<1>4. /\ c.type = "confirm" /\ c.file_num = n /\ (c.skip => c.offset = 0) /\ c.offset = 0
           /\ IsConfirm(c)
      /\ c.skip /\ skips' = skips \cup {c.file_num}
  BY RequestFacts DEF Skipped
<1>3. Grown(toReader, toReader', c)
  BY SendOne, QueuesThere
<1>2. /\ IsWriter(writer') /\ writer' # NoJob /\ writer'.digest = writer.digest
      /\ \/ /\ writer.file_num < n /\ writer'.file_num = writer.file_num
            /\ writer'.stream = writer.stream /\ writer'.into = writer.into
         \/ /\ writer.file_num = n /\ writer.stream = Closed
            /\ writer'.file_num = n + 1 /\ writer'.stream = Closed
  <2>1. IsWriter(writer) /\ c.file_num \in Files
    BY <1>4, <1>5, WriterThere
  <2>2. CASE writer.file_num = n
    <3>1. MadeWriter(writer', n + 1, Closed, writer.into, writer.digest)
      BY <1>4, <2>1, <2>2, WriterGoesOn
    <3> QED BY <1>0, <1>5, <1>9, <2>2, <3>1 DEF MadeWriter, WriterOpen
  <2>3. CASE writer.file_num # n
    <3>1. writer' = writer
      BY <1>4, <2>1, <2>3, WriterGoesOn
    <3> QED BY <1>0, <1>5, <1>9, <2>1, <2>3, <3>1
  <2> QED BY <2>2, <2>3
<1> USE <1>r, <1>0, <1>2, <1>3, <1>4, <1>5, <1>9
<1>a. Shapes'
  <2>1. JobsOK'
    BY DEF IInv, Shapes, JobsOK, Grown
  <2>2. MessagesOK'
    BY DEF IInv, Shapes, MessagesOK, Grown, Indices, IsMessage, ToWriterTypes,
       ToReaderTypes
  <2>3. NumbersOK'
    BY DEF IInv, Shapes, NumbersOK
  <2> QED BY <2>1, <2>2, <2>3 DEF Shapes
<1>b. Protocol'
  <2> USE DEF Grown, Indices, Has, ReaderOpen, Confirmed, WriterOpen, Waiting, Answer
  <2>1. IdleOK'
    BY DEF IInv, Protocol, IdleOK, Idle
  <2>2. ReceiveOK'
    BY DEF IInv, Protocol, ReceiveOK
  <2>3. SendOK'
    BY DEF IInv, Protocol, SendOK
  <2>4. DigestOK'
    BY DEF IInv, Protocol, DigestOK
  <2>5. AnswersOK'
    BY DEF IInv, Protocol, AnswersOK, Answer
  <2>6. ReaderOK'
    BY DEF IInv, Protocol, ReaderOK
  <2>7. BlocksOK'
    BY DEF IInv, Protocol, BlocksOK
  <2>8. ConfirmOK'
    BY DEF IInv, Protocol, ConfirmOK
  <2>9. WriterOK'
    BY DEF IInv, Protocol, WriterOK, Deserted, Answer
  <2>10. EndOK'
    BY DEF IInv, Protocol, EndOK
  <2> QED BY <2>1, <2>2, <2>3, <2>4, <2>5, <2>6, <2>7, <2>8, <2>9, <2>10 DEF Protocol
<1>c. Contents'
  <2> USE DEF Grown, Indices, Has, ReaderOpen, Confirmed, WriterOpen, Waiting, Answer
  <2>1. PartsOK'
    BY DEF IInv, Contents, PartsOK, Holds
  <2>2. OpenOK'
    BY DEF IInv, Contents, OpenOK, Holds
  <2>3. OffersOK'
    BY DEF IInv, Contents, OffersOK, Holds
  <2>4. StreamOK'
    BY DEF IInv, Contents, StreamOK, Base
  <2> QED BY <2>1, <2>2, <2>3, <2>4 DEF Contents
<1>d. Owed'
  <2> USE DEF Grown, Indices, Has, ReaderOpen, Confirmed, WriterOpen, Waiting, Answer
  <2>1. SkipsOK'
    BY DEF IInv, Owed, SkipsOK
  <2>2. PassedOK'
    BY FilesNat DEF IInv, Owed, PassedOK, ReaderAt, SendPending, Settled, Arrived,
       Excused, Coming
  <2>3. PendingOK'
    BY FilesNat DEF IInv, Owed, PendingOK, ReaderAt, SendPending, Settled, Arrived,
       Excused, Coming
  <2>4. ErrorOK'
    BY FilesNat DEF IInv, Owed, ErrorOK, ReaderAt, SendPending, Settled, Arrived,
       Excused, Coming
  <2>5. OverOK'
    BY FilesNat DEF IInv, Owed, OverOK, ReaderAt, SendPending, Settled, Arrived,
       Excused, Coming
  <2> QED BY <2>1, <2>2, <2>3, <2>4, <2>5 DEF Owed
<1> QED BY <1>a, <1>b, <1>c, <1>d DEF IInv

\* Data::SetConfirmOverrideFile of a download: the user has a file sent.
LEMMA UserConfirmsDownloadStep ==
  ASSUME IInv, NEW n \in asked, NEW c, c = OffsetBlk(n, 0), asked' = asked \ {n},
         skips' = skips \cup Skipped(c),
         strategy' \in {"ask", "overwrite", "skip"},
         UNCHANGED <<source, disk, direction, resume, toWriter, saved, jobs, status, first,
                     lost, torn, failed>>,
         NEW sought, direction = "download", writer # NoJob,
         writer' = WriterConfirmed(writer, c, sought), toReader' = Append(toReader, c), UNCHANGED reader
  PROVE  IInv'
<1>r. reader # NoJob
  BY DEF IInv, Protocol, AnswersOK
<1>0. /\ Len(toWriter) \in Nat /\ Len(toReader) \in Nat /\ reader.file_num \in Nat
      /\ writer # NoJob => writer.file_num \in Nat
  BY <1>r, QueuesThere, ReaderThere, WriterThere
<1>5. /\ reader.file_num = n /\ Waiting /\ asked' = {} /\ Len(toWriter) = 0
      /\ \A j \in Indices(toReader) : ~Answer(toReader[j])
      /\ reader.file_num \in Files /\ reader.stream = StreamAt(0) /\ ~reader.file_confirmed
      /\ \A j \in Indices(toReader) : toReader[j].type # "send"
      /\ saved = NotSaved /\ status # "none"
  <2>1. reader.file_num = n /\ Waiting /\ \A j \in Indices(toReader) : ~Answer(toReader[j])
    BY <1>r DEF IInv, Protocol, AnswersOK
  <2>2. \A j \in Indices(toReader) : toReader[j].type # "send"
    BY <1>r DEF IInv, Protocol, SendOK
  <2>3. asked' = {}
    BY <1>r DEF IInv, Protocol, AnswersOK
  <2> QED BY <1>r, <2>1, <2>2, <2>3 DEF IInv, Protocol, ReaderOK, IdleOK, Idle, Waiting, ReaderOpen
<1>9. /\ writer # NoJob => writer.file_num <= reader.file_num
      /\ WriterOpen => writer.file_num < reader.file_num
  BY <1>r, <1>0, <1>5 DEF IInv, Protocol, WriterOK, WriterOpen, Answer
<1>4. /\ c.type = "confirm" /\ c.file_num = n /\ (c.skip => c.offset = 0) /\ c.offset = 0
           /\ IsConfirm(c)
      /\ ~c.skip /\ skips' = skips
  BY RequestFacts DEF Skipped
<1>3. Grown(toReader, toReader', c)
  BY SendOne, QueuesThere
<1>2. /\ IsWriter(writer') /\ writer' # NoJob /\ writer'.digest = writer.digest
      /\ writer'.file_num = writer.file_num /\ writer'.stream = writer.stream
      /\ writer'.into = writer.into
  <2>1. IsWriter(writer) /\ c.file_num \in Files
    BY <1>4, <1>5, WriterThere
  <2>2. CASE writer.file_num = n
    <3>1. MadeWriter(writer', n, writer.stream, writer.into, writer.digest)
      BY <1>4, <2>1, <2>2, WriterGoesOn
    <3> QED BY <2>2, <3>1 DEF MadeWriter
  <2>3. CASE writer.file_num # n
    <3>1. writer' = writer
      BY <1>4, <2>1, <2>3, WriterGoesOn
    <3> QED BY <2>1, <3>1
  <2> QED BY <2>2, <2>3
<1> USE <1>r, <1>0, <1>2, <1>3, <1>4, <1>5, <1>9
<1>a. Shapes'
  <2>1. JobsOK'
    BY DEF IInv, Shapes, JobsOK, Grown
  <2>2. MessagesOK'
    BY DEF IInv, Shapes, MessagesOK, Grown, Indices, IsMessage, ToWriterTypes,
       ToReaderTypes
  <2>3. NumbersOK'
    BY DEF IInv, Shapes, NumbersOK
  <2> QED BY <2>1, <2>2, <2>3 DEF Shapes
<1>b. Protocol'
  <2> USE DEF Grown, Indices, Has, ReaderOpen, Confirmed, WriterOpen, Waiting, Answer
  <2>1. IdleOK'
    BY DEF IInv, Protocol, IdleOK, Idle
  <2>2. ReceiveOK'
    BY DEF IInv, Protocol, ReceiveOK
  <2>3. SendOK'
    BY DEF IInv, Protocol, SendOK
  <2>4. DigestOK'
    BY DEF IInv, Protocol, DigestOK
  <2>5. AnswersOK'
    BY DEF IInv, Protocol, AnswersOK, Answer
  <2>6. ReaderOK'
    BY DEF IInv, Protocol, ReaderOK
  <2>7. BlocksOK'
    BY DEF IInv, Protocol, BlocksOK
  <2>8. ConfirmOK'
    BY DEF IInv, Protocol, ConfirmOK
  <2>9. WriterOK'
    BY DEF IInv, Protocol, WriterOK, Deserted, Answer
  <2>10. EndOK'
    BY DEF IInv, Protocol, EndOK
  <2> QED BY <2>1, <2>2, <2>3, <2>4, <2>5, <2>6, <2>7, <2>8, <2>9, <2>10 DEF Protocol
<1>c. Contents'
  <2> USE DEF Grown, Indices, Has, ReaderOpen, Confirmed, WriterOpen, Waiting, Answer
  <2>1. PartsOK'
    BY DEF IInv, Contents, PartsOK, Holds
  <2>2. OpenOK'
    BY DEF IInv, Contents, OpenOK, Holds
  <2>3. OffersOK'
    BY DEF IInv, Contents, OffersOK, Holds
  <2>4. StreamOK'
    BY DEF IInv, Contents, StreamOK, Base
  <2> QED BY <2>1, <2>2, <2>3, <2>4 DEF Contents
<1>d. Owed'
  <2> USE DEF Grown, Indices, Has, ReaderOpen, Confirmed, WriterOpen, Waiting, Answer
  <2>1. SkipsOK'
    BY DEF IInv, Owed, SkipsOK
  <2>2. PassedOK'
    BY FilesNat DEF IInv, Owed, PassedOK, ReaderAt, SendPending, Settled, Arrived,
       Excused, Coming
  <2>3. PendingOK'
    BY FilesNat DEF IInv, Owed, PendingOK, ReaderAt, SendPending, Settled, Arrived,
       Excused, Coming
  <2>4. ErrorOK'
    BY FilesNat DEF IInv, Owed, ErrorOK, ReaderAt, SendPending, Settled, Arrived,
       Excused, Coming
  <2>5. OverOK'
    BY FilesNat DEF IInv, Owed, OverOK, ReaderAt, SendPending, Settled, Arrived,
       Excused, Coming
  <2> QED BY <2>1, <2>2, <2>3, <2>4, <2>5 DEF Owed
<1> QED BY <1>a, <1>b, <1>c, <1>d DEF IInv

\* ipc::FS::NewWrite: the writer of an upload starts where its reader is.
LEMMA WriterStartsStep ==
  ASSUME IInv, toWriter # <<>>, NEW m, m = Head(toWriter), toWriter' = Tail(toWriter),
         m.type = "receive",
         writer' = NewWriter(m.file_num),
         UNCHANGED <<disk, asked, toReader, status, skips, torn, failed>>,
         UNCHANGED <<source, reader, direction, strategy, saved, first, lost>>
  PROVE  IInv'
<1>0. /\ Len(toWriter) \in Nat /\ Len(toReader) \in Nat
      /\ reader # NoJob => reader.file_num \in Nat
      /\ writer # NoJob => writer.file_num \in Nat
  BY QueuesThere, ReaderThere, WriterThere
<1>3. Popped(toWriter, toWriter') /\ m = toWriter[1] /\ 1 \in Indices(toWriter)
  BY TakeHead, QueuesThere
<1>4. saved = NotSaved /\ status # "none" /\ ~SendPending /\ m.type \in ToWriterTypes /\ IsMessage(m)
  BY <1>0, <1>3 DEF IInv, Protocol, IdleOK, Idle, SendOK, SendPending, Indices, Shapes, MessagesOK
<1>1. /\ writer = NoJob /\ Len(toReader) = 0 /\ asked = {} /\ ~Confirmed
      /\ m.file_num \in Nums /\ m.file_num \in Nat
      /\ reader # NoJob => m.file_num <= reader.file_num
      /\ \A j \in Indices(toWriter') : toWriter'[j].type \in {"digest", "cancel", "done", "error"}
      /\ direction = "upload"
  <2>1. m.file_num \in Nums /\ m.file_num \in Nat
    BY <1>4, QueuesThere DEF IsMessage
  <2>2. direction = "upload"
    BY <1>3 DEF IInv, Shapes, MessagesOK, NumbersOK
  <2> QED BY <1>0, <1>3, <2>1, <2>2 DEF IInv, Protocol, ReceiveOK, Popped, Indices
<1>2. /\ IsWriter(writer') /\ writer' # NoJob /\ writer'.file_num = m.file_num
      /\ writer'.stream = Closed
  <2>1. MadeWriter(writer', m.file_num, Closed, m.file_num, NoDigest)
    BY <1>1, MakeWriter DEF NewWriter, IsStream
  <2> QED BY <2>1 DEF MadeWriter
<1> USE <1>0, <1>1, <1>2, <1>3, <1>4
<1>a. Shapes'
  <2>1. JobsOK'
    BY DEF IInv, Shapes, JobsOK, Popped
  <2>2. MessagesOK'
    BY DEF IInv, Shapes, MessagesOK, Popped, Indices, IsMessage, ToWriterTypes,
       ToReaderTypes
  <2>3. NumbersOK'
    BY DEF IInv, Shapes, NumbersOK
  <2> QED BY <2>1, <2>2, <2>3 DEF Shapes
<1>b. Protocol'
  <2> USE DEF Popped, Indices, Has, ReaderOpen, Confirmed, WriterOpen, Waiting
  <2>1. IdleOK'
    BY DEF IInv, Protocol, IdleOK, Idle
  <2>2. ReceiveOK'
    BY DEF IInv, Protocol, ReceiveOK
  <2>3. SendOK'
    BY DEF IInv, Protocol, SendOK
  <2>4. DigestOK'
    BY DigestPopped
  <2>5. AnswersOK'
    BY DEF IInv, Protocol, AnswersOK, Answer
  <2>6. ReaderOK'
    BY ReaderPopped
  <2>7. BlocksOK'
    BY DEF IInv, Protocol, BlocksOK
  <2>8. ConfirmOK'
    BY DEF IInv, Protocol, ConfirmOK
  <2>9. WriterOK'
    BY DEF IInv, Protocol, WriterOK, Deserted, Answer, ReaderOK
  <2>10. EndOK'
    BY DEF IInv, Protocol, EndOK
  <2> QED BY <2>1, <2>2, <2>3, <2>4, <2>5, <2>6, <2>7, <2>8, <2>9, <2>10 DEF Protocol
<1>c. Contents'
  <2> USE DEF Popped, Indices, Has, ReaderOpen, Confirmed, WriterOpen, Waiting
  <2>1. PartsOK'
    BY DEF IInv, Contents, PartsOK, Holds
  <2>2. OpenOK'
    BY DEF IInv, Contents, OpenOK, Holds
  <2>3. OffersOK'
    BY DEF IInv, Contents, OffersOK, Holds
  <2>4. StreamOK'
    BY DEF IInv, Contents, StreamOK, Base
  <2> QED BY <2>1, <2>2, <2>3, <2>4 DEF Contents
<1>d. Owed'
  <2> USE DEF Popped, Indices, Has, ReaderOpen, Confirmed, WriterOpen, Waiting
  <2>1. SkipsOK'
    BY DEF IInv, Owed, SkipsOK
  <2>2. PassedOK'
    BY FilesNat DEF IInv, Owed, PassedOK, ReaderAt, SendPending, Settled, Arrived,
       Excused, Coming, PendingOK
  <2>3. PendingOK'
    BY FilesNat DEF IInv, Owed, PendingOK, ReaderAt, SendPending, Settled, Arrived,
       Excused, Coming
  <2>4. ErrorOK'
    BY FilesNat DEF IInv, Owed, ErrorOK, ReaderAt, SendPending, Settled, Arrived,
       Excused, Coming
  <2>5. OverOK'
    BY FilesNat DEF IInv, Owed, OverOK, ReaderAt, SendPending, Settled, Arrived,
       Excused, Coming
  <2> QED BY <2>1, <2>2, <2>3, <2>4, <2>5 DEF Owed
<1> QED BY <1>a, <1>b, <1>c, <1>d DEF IInv

\* ipc::FS::CancelWrite: the writer is removed, and its partial file with it.
LEMMA WriterCancelledStep ==
  ASSUME IInv, toWriter # <<>>, NEW m, m = Head(toWriter), toWriter' = Tail(toWriter),
         m.type = "cancel", writer # NoJob,
         NEW part, NEW digest, disk' = remove_download_file(disk, writer, part, digest),
         writer' = NoJob, UNCHANGED <<asked, toReader, status, skips, torn, failed>>,
         UNCHANGED <<source, reader, direction, strategy, saved, first, lost>>
  PROVE  IInv'
<1>0. /\ Len(toWriter) \in Nat /\ Len(toReader) \in Nat
      /\ reader # NoJob => reader.file_num \in Nat
      /\ writer # NoJob => writer.file_num \in Nat
  BY QueuesThere, ReaderThere, WriterThere
<1>3. Popped(toWriter, toWriter') /\ m = toWriter[1] /\ 1 \in Indices(toWriter)
  BY TakeHead, QueuesThere
<1>4. saved = NotSaved /\ status # "none" /\ ~SendPending /\ m.type \in ToWriterTypes /\ IsMessage(m)
  BY <1>0, <1>3 DEF IInv, Protocol, IdleOK, Idle, SendOK, SendPending, Indices, Shapes, MessagesOK
<1>1. skips = Files
  BY <1>3 DEF IInv, Protocol, EndOK, Has
<1>2. /\ IsDisk(disk')
      /\ \A f \in Files : \/ disk'[f] = disk[f]
                          \/ disk'[f].download = Absent
                          \/ disk'[f].digest = NoDigest
                          \/ disk'[f].download = disk[f].download /\ disk'[f].digest = disk[f].digest
  <2>1. IsDisk(disk)
    BY DEF IInv, Shapes, JobsOK
  <2>2. /\ IsDisk(disk')
        /\ \A f \in Files : f # writer.file_num => disk'[f] = disk[f]
        /\ writer.file_num \in Files =>
             /\ disk'[writer.file_num].download \in {Absent, disk[writer.file_num].download}
             /\ disk'[writer.file_num].digest \in {NoDigest, disk[writer.file_num].digest}
    BY <2>1, DiskCleared
  <2> QED BY ONLY <2>2
<1>9. \A f \in Files : f \in Excused'
  BY <1>1 DEF Excused
<1> USE <1>0, <1>1, <1>2, <1>3, <1>4
<1>a. Shapes'
  <2>1. JobsOK'
    BY DEF IInv, Shapes, JobsOK, Popped
  <2>2. MessagesOK'
    BY DEF IInv, Shapes, MessagesOK, Popped, Indices, IsMessage, ToWriterTypes,
       ToReaderTypes
  <2>3. NumbersOK'
    BY DEF IInv, Shapes, NumbersOK
  <2> QED BY <2>1, <2>2, <2>3 DEF Shapes
<1>b. Protocol'
  <2> USE DEF Popped, Indices, Has, ReaderOpen, Confirmed, WriterOpen, Waiting
  <2>1. IdleOK'
    BY DEF IInv, Protocol, IdleOK, Idle
  <2>2. ReceiveOK'
    BY DEF IInv, Protocol, ReceiveOK
  <2>3. SendOK'
    BY DEF IInv, Protocol, SendOK
  <2>4. DigestOK'
    BY DigestPopped
  <2>5. AnswersOK'
    BY DEF IInv, Protocol, AnswersOK, Answer
  <2>6. ReaderOK'
    BY ReaderPopped
  <2>7. BlocksOK'
    BY DEF IInv, Protocol, BlocksOK
  <2>8. ConfirmOK'
    BY DEF IInv, Protocol, ConfirmOK
  <2>9. WriterOK'
    BY DEF IInv, Protocol, WriterOK, Deserted, Answer
  <2>10. EndOK'
    BY DEF IInv, Protocol, EndOK
  <2> QED BY <2>1, <2>2, <2>3, <2>4, <2>5, <2>6, <2>7, <2>8, <2>9, <2>10 DEF Protocol
<1>c. Contents'
  <2> USE DEF Popped, Indices, Has, ReaderOpen, Confirmed, WriterOpen, Waiting
  <2>1. PartsOK'
    BY DEF IInv, Contents, PartsOK, Holds
  <2>2. OpenOK'
    BY DEF IInv, Contents, OpenOK, Holds
  <2>3. OffersOK'
    BY DEF IInv, Contents, OffersOK, Holds
  <2>4. StreamOK'
    BY DEF IInv, Contents, StreamOK, Base
  <2> QED BY <2>1, <2>2, <2>3, <2>4 DEF Contents
<1>d. Owed'
  <2> USE DEF Popped, Indices, Has, ReaderOpen, Confirmed, WriterOpen, Waiting
  <2>1. SkipsOK'
    BY DEF IInv, Owed, SkipsOK
  <2>2. PassedOK'
    BY <1>9 DEF PassedOK, Settled
  <2>3. PendingOK'
    BY <1>9 DEF PendingOK, Settled
  <2>4. ErrorOK'
    BY <1>9 DEF ErrorOK, Settled
  <2>5. OverOK'
    BY <1>9 DEF OverOK, Settled
  <2> QED BY <2>1, <2>2, <2>3, <2>4, <2>5 DEF Owed
<1> QED BY <1>a, <1>b, <1>c, <1>d DEF IInv

\* A message for a writer that is gone is dropped.
LEMMA WithoutWriterStep ==
  ASSUME IInv, toWriter # <<>>, NEW m, m = Head(toWriter), toWriter' = Tail(toWriter),
         m.type # "receive", writer = NoJob,
         status' \in {status, "done", "error"},
         UNCHANGED <<disk, writer, asked, toReader, skips, torn, failed>>,
         UNCHANGED <<source, reader, direction, strategy, saved, first, lost>>
  PROVE  IInv'
<1>0. /\ Len(toWriter) \in Nat /\ Len(toReader) \in Nat
      /\ reader # NoJob => reader.file_num \in Nat
      /\ writer # NoJob => writer.file_num \in Nat
  BY QueuesThere, ReaderThere, WriterThere
<1>3. Popped(toWriter, toWriter') /\ m = toWriter[1] /\ 1 \in Indices(toWriter)
  BY TakeHead, QueuesThere
<1>4. saved = NotSaved /\ status # "none" /\ ~SendPending /\ m.type \in ToWriterTypes /\ IsMessage(m)
  BY <1>0, <1>3 DEF IInv, Protocol, IdleOK, Idle, SendOK, SendPending, Indices, Shapes, MessagesOK
<1> USE <1>0, <1>3, <1>4
<1>a. Shapes'
  <2>1. JobsOK'
    BY DEF IInv, Shapes, JobsOK, Popped
  <2>2. MessagesOK'
    BY DEF IInv, Shapes, MessagesOK, Popped, Indices, IsMessage, ToWriterTypes,
       ToReaderTypes
  <2>3. NumbersOK'
    BY DEF IInv, Shapes, NumbersOK
  <2> QED BY <2>1, <2>2, <2>3 DEF Shapes
<1>b. Protocol'
  <2> USE DEF Popped, Indices, Has, ReaderOpen, Confirmed, WriterOpen, Waiting
  <2>1. IdleOK'
    BY DEF IInv, Protocol, IdleOK, Idle
  <2>2. ReceiveOK'
    BY DEF IInv, Protocol, ReceiveOK
  <2>3. SendOK'
    BY DEF IInv, Protocol, SendOK
  <2>4. DigestOK'
    BY DigestPopped
  <2>5. AnswersOK'
    BY DEF IInv, Protocol, AnswersOK, Answer, ReaderOK
  <2>6. ReaderOK'
    BY ReaderPopped
  <2>7. BlocksOK'
    BY DEF IInv, Protocol, BlocksOK
  <2>8. ConfirmOK'
    BY DEF IInv, Protocol, ConfirmOK
  <2>9. WriterOK'
    BY DEF IInv, Protocol, WriterOK, Deserted, Answer
  <2>10. EndOK'
    BY DEF IInv, Protocol, EndOK
  <2> QED BY <2>1, <2>2, <2>3, <2>4, <2>5, <2>6, <2>7, <2>8, <2>9, <2>10 DEF Protocol
<1>c. Contents'
  <2> USE DEF Popped, Indices, Has, ReaderOpen, Confirmed, WriterOpen, Waiting
  <2>1. PartsOK'
    BY DEF IInv, Contents, PartsOK, Holds
  <2>2. OpenOK'
    BY DEF IInv, Contents, OpenOK, Holds
  <2>3. OffersOK'
    BY DEF IInv, Contents, OffersOK, Holds
  <2>4. StreamOK'
    BY DEF IInv, Contents, StreamOK, Base
  <2> QED BY <2>1, <2>2, <2>3, <2>4 DEF Contents
<1>d. Owed'
  <2> USE DEF Popped, Indices, Has, ReaderOpen, Confirmed, WriterOpen, Waiting
  <2>1. SkipsOK'
    BY DEF IInv, Owed, SkipsOK
  <2>2. PassedOK'
    BY FilesNat DEF IInv, Owed, PassedOK, ReaderAt, SendPending, Settled, Arrived,
       Excused, Coming
  <2>3. PendingOK'
    BY FilesNat DEF IInv, Owed, PendingOK, ReaderAt, SendPending, Settled, Arrived,
       Excused, Coming
  <2>4. ErrorOK'
    BY FilesNat DEF IInv, Owed, ErrorOK, ReaderAt, SendPending, Settled, Arrived,
       Excused, Coming
  <2>5. OverOK'
    BY FilesNat DEF IInv, Owed, OverOK, ReaderAt, SendPending, Settled, Arrived,
       Excused, Coming
  <2> QED BY <2>1, <2>2, <2>3, <2>4, <2>5 DEF Owed
<1> QED BY <1>a, <1>b, <1>c, <1>d DEF IInv

\* TransferJob::confirm at the writer, for another file than its own.
LEMMA WriterIgnoresStep ==
  ASSUME IInv, toWriter # <<>>, NEW m, m = Head(toWriter), toWriter' = Tail(toWriter),
         m.type = "confirm", writer # NoJob,
         NEW sought, writer' = WriterConfirmed(writer, m, sought),
         torn' = torn \cup Astray(writer', m), m.file_num # writer.file_num,
         UNCHANGED <<disk, asked, toReader, status, skips, failed>>,
         UNCHANGED <<source, reader, direction, strategy, saved, first, lost>>
  PROVE  IInv'
<1>0. /\ Len(toWriter) \in Nat /\ Len(toReader) \in Nat
      /\ reader # NoJob => reader.file_num \in Nat
      /\ writer # NoJob => writer.file_num \in Nat
  BY QueuesThere, ReaderThere, WriterThere
<1>3. Popped(toWriter, toWriter') /\ m = toWriter[1] /\ 1 \in Indices(toWriter)
  BY TakeHead, QueuesThere
<1>4. saved = NotSaved /\ status # "none" /\ ~SendPending /\ m.type \in ToWriterTypes /\ IsMessage(m)
  BY <1>0, <1>3 DEF IInv, Protocol, IdleOK, Idle, SendOK, SendPending, Indices, Shapes, MessagesOK
<1>5. reader # NoJob => asked = {} /\ \A i \in Indices(toReader) : ~Answer(toReader[i])
  <2>1. ~Waiting
    BY <1>0, <1>3 DEF IInv, Protocol, ReaderOK, Indices
  <2> QED BY <2>1 DEF IInv, Protocol, AnswersOK
<1>1. /\ IsConfirm(m) /\ m.file_num \in Files /\ m.skip \in BOOLEAN /\ (m.skip => m.offset = 0)
      /\ direction = "upload"
      /\ \A i \in Indices(toWriter') : toWriter'[i].type # "confirm"
  <2>1. IsConfirm(m) /\ m.file_num \in Files
    BY <1>4 DEF IsMessage
  <2>2. direction = "upload"
    BY <1>3 DEF IInv, Shapes, MessagesOK, NumbersOK
  <2>3. \A i \in Indices(toWriter') : toWriter'[i].type # "confirm"
    BY <1>0, <1>3 DEF IInv, Protocol, ConfirmOK, Popped, Indices
  <2> QED BY <2>1, <2>2, <2>3 DEF IsConfirm
<1>2. /\ writer' = writer /\ torn \subseteq torn' /\ torn' \subseteq torn \cup {m.file_num}
      /\ m.file_num \notin torn' => m.skip \/ m.offset = 0
  <2>1. writer' = writer
    BY <1>1, WriterThere, WriterGoesOn
  <2>2. m.file_num \notin torn /\ m.offset # 0 => m.offset \in Nat /\ m.offset > 0
    BY <1>3 DEF IInv, Contents, OffersOK, Holds
  <2>3. m.file_num \notin torn /\ m.offset # 0 /\ ~m.skip => Astray(writer', m) = {m.file_num}
    BY <2>1, <2>2 DEF Astray
  <2>4. Astray(writer', m) \subseteq {m.file_num}
    BY DEF Astray
  <2> QED BY <1>1, <2>1, <2>3, <2>4
<1>8. /\ ReaderAt' = ReaderAt /\ Excused \subseteq Excused'
      /\ \A f : (Coming(f) => Coming(f)') /\ (Settled(f) => Settled(f)')
  <2>1. \A f : Coming(f) => Coming(f)'
    BY <1>3, ComingPopped DEF LastBlock
  <2>2. Excused \subseteq Excused'
    BY <1>2 DEF Excused
  <2>3. ReaderAt' = ReaderAt
    BY DEF ReaderAt, SendPending
  <2>4. \A f : Settled(f) => Settled(f)'
    BY <2>2 DEF Settled, Arrived
  <2> QED BY <2>1, <2>2, <2>3, <2>4
<1> USE <1>0, <1>1, <1>2, <1>3, <1>4, <1>5
<1>a. Shapes'
  <2>1. JobsOK'
    BY DEF IInv, Shapes, JobsOK, Popped
  <2>2. MessagesOK'
    BY DEF IInv, Shapes, MessagesOK, Popped, Indices, IsMessage, ToWriterTypes,
       ToReaderTypes
  <2>3. NumbersOK'
    BY DEF IInv, Shapes, NumbersOK
  <2> QED BY <2>1, <2>2, <2>3 DEF Shapes
<1>b. Protocol'
  <2> USE DEF Popped, Indices, Has, ReaderOpen, Confirmed, WriterOpen, Waiting, Answer
  <2>1. IdleOK'
    BY DEF IInv, Protocol, IdleOK, Idle
  <2>2. ReceiveOK'
    BY DEF IInv, Protocol, ReceiveOK
  <2>3. SendOK'
    BY DEF IInv, Protocol, SendOK
  <2>4. DigestOK'
    BY DigestPopped
  <2>5. AnswersOK'
    BY DEF IInv, Protocol, AnswersOK, Answer
  <2>6. ReaderOK'
    BY ReaderPopped
  <2>7. BlocksOK'
    BY DEF IInv, Protocol, BlocksOK
  <2>8. ConfirmOK'
    BY DEF IInv, Protocol, ConfirmOK
  <2>9. WriterOK'
    BY DEF IInv, Protocol, WriterOK, Deserted, Answer
  <2>10. EndOK'
    BY DEF IInv, Protocol, EndOK
  <2> QED BY <2>1, <2>2, <2>3, <2>4, <2>5, <2>6, <2>7, <2>8, <2>9, <2>10 DEF Protocol
<1>c. Contents'
  <2> USE DEF Popped, Indices, Has, ReaderOpen, Confirmed, WriterOpen, Waiting, Answer
  <2>1. PartsOK'
    BY DEF IInv, Contents, PartsOK, Holds
  <2>2. OpenOK'
    BY DEF IInv, Contents, OpenOK, Holds
  <2>3. OffersOK'
    BY DEF IInv, Contents, OffersOK, Holds
  <2>4. StreamOK'
    <3>1. ASSUME NEW f, f = m.file_num, f \notin torn', ~m.skip PROVE Base(f)' = Base(f) + 1
                   /\ Base(f) \in Int
      <4>1. Base(f) = m.offset - 1
        BY <1>0, <1>3 DEF Base
      <4>2. m.offset \in Nat
        BY <3>1 DEF IInv, Contents, OffersOK, Holds
      <4>3. Base(f)' = 0 /\ m.offset = 0
        BY <1>0, <1>3, <3>1 DEF Base
      <4> QED BY ONLY <4>1, <4>2, <4>3

    <3>2. ASSUME NEW i \in Indices(toWriter'), toWriter'[i].type = "block",
                 toWriter'[i].file_num \notin torn'
          PROVE  (/\ toWriter[i].data # <<>> =>
                       /\ toWriter[i].data = << <<source, Base(toWriter[i].file_num) + i>> >>
                       /\ Base(toWriter[i].file_num) + i <= Size[toWriter[i].file_num]
                  /\ toWriter[i].data = <<>> =>
                       Base(toWriter[i].file_num) + i = Size[toWriter[i].file_num] + 1)'
      <4>1. PICK f : f = toWriter'[i].file_num
        OBVIOUS
      <4>2. i + 1 \in Indices(toWriter) /\ toWriter[i + 1] = toWriter'[i] /\ i \in Nat
        BY <1>0, <1>3
      <4>3. f = m.file_num /\ ~m.skip
        BY <3>2, <4>1, <4>2 DEF IInv, Protocol, BlocksOK
      <4>4. Base(f)' = Base(f) + 1 /\ Base(f) \in Int
        BY <3>1, <3>2, <4>1, <4>3
      <4>5. /\ toWriter'[i].data # <<>> => /\ toWriter'[i].data = << <<source, Base(f) + (i + 1)>> >>
                                           /\ Base(f) + (i + 1) <= Size[f]
            /\ toWriter'[i].data = <<>> => Base(f) + (i + 1) = Size[f] + 1
        BY <3>2, <4>1, <4>2 DEF IInv, Contents, StreamOK
      <4>6. Base(f) + (i + 1) = Base(f)' + i
        BY ONLY <4>2, <4>4
      <4> QED BY ONLY <4>1, <4>5, <4>6, UNCHANGED source
    <3>3. ASSUME Confirmed, reader.file_num \notin torn'
          PROVE  /\ reader.stream.pos = Base(reader.file_num)' + Len(toWriter')
                 /\ reader.stream.pos <= Size[reader.file_num]
      <4>1. m.file_num = reader.file_num /\ ~m.skip
        BY <3>3 DEF IInv, Protocol, ReaderOK
      <4>2. PICK f : f = reader.file_num
        OBVIOUS
      <4>3. Base(f)' = Base(f) + 1 /\ Base(f) \in Int
        BY <3>1, <3>3, <4>1, <4>2
      <4>4. reader.stream.pos = Base(f) + Len(toWriter) /\ reader.stream.pos <= Size[f]
        BY <3>3, <4>2 DEF IInv, Contents, StreamOK
      <4>5. Len(toWriter) = Len(toWriter') + 1 /\ Len(toWriter') \in Nat
        BY <1>3 DEF IsQueue
      <4> QED BY ONLY <4>2, <4>3, <4>4, <4>5, UNCHANGED reader
    <3> QED BY <3>2, <3>3 DEF StreamOK
  <2> QED BY <2>1, <2>2, <2>3, <2>4 DEF Contents
<1>d. Owed'
  <2> USE DEF Popped, Indices, Has, ReaderOpen, Confirmed, WriterOpen, Waiting, Answer
  <2>1. SkipsOK'
    BY DEF IInv, Owed, SkipsOK
  <2>2. PassedOK'
    BY <1>8, FilesNat DEF IInv, Owed, PassedOK
  <2>3. PendingOK'
    BY FilesNat DEF IInv, Owed, PendingOK, ReaderAt, SendPending, Settled, Arrived,
       Excused, Coming
  <2>4. ErrorOK'
    BY FilesNat DEF IInv, Owed, ErrorOK, ReaderAt, SendPending, Settled, Arrived,
       Excused, Coming
  <2>5. OverOK'
    BY FilesNat DEF IInv, Owed, OverOK, ReaderAt, SendPending, Settled, Arrived,
       Excused, Coming
  <2> QED BY <2>1, <2>2, <2>3, <2>4, <2>5 DEF Owed
<1> QED BY <1>a, <1>b, <1>c, <1>d DEF IInv

\* TransferJob::confirm at the writer: its file is skipped.
LEMMA WriterSkipsStep ==
  ASSUME IInv, toWriter # <<>>, NEW m, m = Head(toWriter), toWriter' = Tail(toWriter),
         m.type = "confirm", writer # NoJob,
         NEW sought, writer' = WriterConfirmed(writer, m, sought),
         torn' = torn \cup Astray(writer', m), m.file_num = writer.file_num, m.skip,
         UNCHANGED <<disk, asked, toReader, status, skips, failed>>,
         UNCHANGED <<source, reader, direction, strategy, saved, first, lost>>
  PROVE  IInv'
<1>0. /\ Len(toWriter) \in Nat /\ Len(toReader) \in Nat
      /\ reader # NoJob => reader.file_num \in Nat
      /\ writer # NoJob => writer.file_num \in Nat
  BY QueuesThere, ReaderThere, WriterThere
<1>3. Popped(toWriter, toWriter') /\ m = toWriter[1] /\ 1 \in Indices(toWriter)
  BY TakeHead, QueuesThere
<1>4. saved = NotSaved /\ status # "none" /\ ~SendPending /\ m.type \in ToWriterTypes /\ IsMessage(m)
  BY <1>0, <1>3 DEF IInv, Protocol, IdleOK, Idle, SendOK, SendPending, Indices, Shapes, MessagesOK
<1>5. reader # NoJob => asked = {} /\ \A i \in Indices(toReader) : ~Answer(toReader[i])
  <2>1. ~Waiting
    BY <1>0, <1>3 DEF IInv, Protocol, ReaderOK, Indices
  <2> QED BY <2>1 DEF IInv, Protocol, AnswersOK
<1>1. /\ IsConfirm(m) /\ m.file_num \in Files /\ m.skip \in BOOLEAN /\ (m.skip => m.offset = 0)
      /\ direction = "upload"
      /\ \A i \in Indices(toWriter') : toWriter'[i].type # "confirm"
  <2>1. IsConfirm(m) /\ m.file_num \in Files
    BY <1>4 DEF IsMessage
  <2>2. direction = "upload"
    BY <1>3 DEF IInv, Shapes, MessagesOK, NumbersOK
  <2>3. \A i \in Indices(toWriter') : toWriter'[i].type # "confirm"
    BY <1>0, <1>3 DEF IInv, Protocol, ConfirmOK, Popped, Indices
  <2> QED BY <2>1, <2>2, <2>3 DEF IsConfirm
<1>2. /\ IsWriter(writer') /\ writer' # NoJob /\ writer'.file_num = writer.file_num + 1
      /\ writer'.stream = Closed /\ writer'.digest = writer.digest /\ torn' = torn
      /\ \A i \in Indices(toWriter') : toWriter'[i].type # "block"
      /\ ~Confirmed
  <2>1. MadeWriter(writer', writer.file_num + 1, Closed, writer.into, writer.digest)
    BY <1>1, WriterThere, WriterGoesOn
  <2>2. torn' = torn
    BY DEF Astray
  <2>3. \A i \in Indices(toWriter') : toWriter'[i].type # "block"
    BY <1>0, <1>3 DEF IInv, Protocol, BlocksOK, Popped, Indices
  <2>4. ~Confirmed
    BY <1>3 DEF IInv, Protocol, ReaderOK
  <2> QED BY <2>1, <2>2, <2>3, <2>4 DEF MadeWriter
<1>8. /\ ReaderAt' = ReaderAt /\ Excused \subseteq Excused'
      /\ \A f : (Coming(f) => Coming(f)') /\ (Settled(f) => Settled(f)')
  <2>1. \A f : Coming(f) => Coming(f)'
    BY <1>3, ComingPopped DEF LastBlock
  <2>2. Excused \subseteq Excused'
    BY <1>2 DEF Excused
  <2>3. ReaderAt' = ReaderAt
    BY DEF ReaderAt, SendPending
  <2>4. \A f : Settled(f) => Settled(f)'
    BY <2>2 DEF Settled, Arrived
  <2> QED BY <2>1, <2>2, <2>3, <2>4
<1> USE <1>0, <1>1, <1>2, <1>3, <1>4, <1>5
<1>a. Shapes'
  <2>1. JobsOK'
    BY DEF IInv, Shapes, JobsOK, Popped
  <2>2. MessagesOK'
    BY DEF IInv, Shapes, MessagesOK, Popped, Indices, IsMessage, ToWriterTypes,
       ToReaderTypes
  <2>3. NumbersOK'
    BY DEF IInv, Shapes, NumbersOK
  <2> QED BY <2>1, <2>2, <2>3 DEF Shapes
<1>b. Protocol'
  <2> USE DEF Popped, Indices, Has, ReaderOpen, Confirmed, WriterOpen, Waiting, Answer
  <2>1. IdleOK'
    BY DEF IInv, Protocol, IdleOK, Idle
  <2>2. ReceiveOK'
    BY DEF IInv, Protocol, ReceiveOK
  <2>3. SendOK'
    BY DEF IInv, Protocol, SendOK
  <2>4. DigestOK'
    BY DigestPopped
  <2>5. AnswersOK'
    BY DEF IInv, Protocol, AnswersOK, Answer
  <2>6. ReaderOK'
    BY ReaderPopped
  <2>7. BlocksOK'
    BY DEF IInv, Protocol, BlocksOK
  <2>8. ConfirmOK'
    BY DEF IInv, Protocol, ConfirmOK
  <2>9. WriterOK'
    BY DEF IInv, Protocol, WriterOK, Deserted, Answer, ConfirmOK
  <2>10. EndOK'
    BY DEF IInv, Protocol, EndOK
  <2> QED BY <2>1, <2>2, <2>3, <2>4, <2>5, <2>6, <2>7, <2>8, <2>9, <2>10 DEF Protocol
<1>c. Contents'
  <2> USE DEF Popped, Indices, Has, ReaderOpen, Confirmed, WriterOpen, Waiting, Answer
  <2>1. PartsOK'
    BY DEF IInv, Contents, PartsOK, Holds
  <2>2. OpenOK'
    BY DEF IInv, Contents, OpenOK, Holds
  <2>3. OffersOK'
    BY DEF IInv, Contents, OffersOK, Holds
  <2>4. StreamOK'
    BY DEF IInv, Contents, StreamOK, Base
  <2> QED BY <2>1, <2>2, <2>3, <2>4 DEF Contents
<1>d. Owed'
  <2> USE DEF Popped, Indices, Has, ReaderOpen, Confirmed, WriterOpen, Waiting, Answer
  <2>1. SkipsOK'
    BY DEF IInv, Owed, SkipsOK
  <2>2. PassedOK'
    <3>1. writer.file_num \in Excused'
      BY DEF IInv, Owed, SkipsOK, Excused
    <3> QED BY <1>8, <3>1, FilesNat DEF IInv, Owed, PassedOK, Settled
  <2>3. PendingOK'
    BY FilesNat DEF IInv, Owed, PendingOK, ReaderAt, SendPending, Settled, Arrived,
       Excused, Coming
  <2>4. ErrorOK'
    BY FilesNat DEF IInv, Owed, ErrorOK, ReaderAt, SendPending, Settled, Arrived,
       Excused, Coming
  <2>5. OverOK'
    BY FilesNat DEF IInv, Owed, OverOK, ReaderAt, SendPending, Settled, Arrived,
       Excused, Coming
  <2> QED BY <2>1, <2>2, <2>3, <2>4, <2>5 DEF Owed
<1> QED BY <1>a, <1>b, <1>c, <1>d DEF IInv

\* TransferJob::confirm at the writer: its file comes, or the rest of it.
LEMMA WriterSeeksStep ==
  ASSUME IInv, toWriter # <<>>, NEW m, m = Head(toWriter), toWriter' = Tail(toWriter),
         m.type = "confirm", writer # NoJob,
         NEW sought, writer' = WriterConfirmed(writer, m, sought),
         torn' = torn \cup Astray(writer', m), m.file_num = writer.file_num, ~m.skip,
         UNCHANGED <<disk, asked, toReader, status, skips, failed>>,
         UNCHANGED <<source, reader, direction, strategy, saved, first, lost>>
  PROVE  IInv'
<1>0. /\ Len(toWriter) \in Nat /\ Len(toReader) \in Nat
      /\ reader # NoJob => reader.file_num \in Nat
      /\ writer # NoJob => writer.file_num \in Nat
  BY QueuesThere, ReaderThere, WriterThere
<1>3. Popped(toWriter, toWriter') /\ m = toWriter[1] /\ 1 \in Indices(toWriter)
  BY TakeHead, QueuesThere
<1>4. saved = NotSaved /\ status # "none" /\ ~SendPending /\ m.type \in ToWriterTypes /\ IsMessage(m)
  BY <1>0, <1>3 DEF IInv, Protocol, IdleOK, Idle, SendOK, SendPending, Indices, Shapes, MessagesOK
<1>5. reader # NoJob => asked = {} /\ \A i \in Indices(toReader) : ~Answer(toReader[i])
  <2>1. ~Waiting
    BY <1>0, <1>3 DEF IInv, Protocol, ReaderOK, Indices
  <2> QED BY <2>1 DEF IInv, Protocol, AnswersOK
<1>1. /\ IsConfirm(m) /\ m.file_num \in Files /\ m.skip \in BOOLEAN /\ (m.skip => m.offset = 0)
      /\ direction = "upload"
      /\ \A i \in Indices(toWriter') : toWriter'[i].type # "confirm"
  <2>1. IsConfirm(m) /\ m.file_num \in Files
    BY <1>4 DEF IsMessage
  <2>2. direction = "upload"
    BY <1>3 DEF IInv, Shapes, MessagesOK, NumbersOK
  <2>3. \A i \in Indices(toWriter') : toWriter'[i].type # "confirm"
    BY <1>0, <1>3 DEF IInv, Protocol, ConfirmOK, Popped, Indices
  <2> QED BY <2>1, <2>2, <2>3 DEF IsConfirm
<1>2. /\ IsWriter(writer') /\ writer' # NoJob /\ writer'.file_num = writer.file_num
      /\ writer.stream = Closed /\ writer'.digest = writer.digest
      /\ torn \subseteq torn' /\ torn' \subseteq torn \cup {m.file_num}
      /\ \/ writer'.stream = Closed
         \/ /\ writer'.stream = StreamAt(m.offset) /\ writer'.stream # Closed
            /\ writer'.stream.pos = m.offset /\ m.offset # 0 /\ writer'.into = writer.file_num
      /\ m.file_num \notin torn' /\ m.offset # 0 => writer'.stream # Closed
  <2>1. writer.stream = Closed
    BY <1>3 DEF IInv, Protocol, ConfirmOK, WriterOpen
  <2>2. \/ MadeWriter(writer', writer.file_num, writer.stream, writer.into, writer.digest)
        \/ /\ MadeWriter(writer', writer.file_num, StreamAt(m.offset), writer.file_num, writer.digest)
           /\ m.offset # 0
    BY <1>1, WriterThere, WriterGoesOn
  <2>3. IsWriter(writer') /\ writer' # NoJob /\ writer'.file_num = writer.file_num
        /\ writer'.digest = writer.digest
    BY <2>2 DEF MadeWriter
  <2>4. \/ writer'.stream = Closed
        \/ /\ writer'.stream = StreamAt(m.offset) /\ writer'.stream # Closed
           /\ writer'.stream.pos = m.offset /\ m.offset # 0 /\ writer'.into = writer.file_num
    BY <2>1, <2>2, StreamFacts DEF MadeWriter
  <2>5. Astray(writer', m) \subseteq {m.file_num}
    BY DEF Astray
  <2>6. m.file_num \notin torn' /\ m.offset # 0 => writer'.stream # Closed
    <3> SUFFICES ASSUME m.file_num \notin torn', m.offset # 0, writer'.stream = Closed PROVE FALSE
      OBVIOUS
    <3>1. m.offset \in Nat /\ m.offset > 0
      BY <1>3 DEF IInv, Contents, OffersOK, Holds
    <3>2. Astray(writer', m) = {m.file_num}
      BY <3>1, StreamFacts DEF Astray
    <3> QED BY <3>2
  <2> QED BY <2>1, <2>3, <2>4, <2>5, <2>6
<1>8. /\ ReaderAt' = ReaderAt /\ Excused \subseteq Excused'
      /\ \A f : (Coming(f) => Coming(f)') /\ (Settled(f) => Settled(f)')
  <2>1. \A f : Coming(f) => Coming(f)'
    BY <1>3, ComingPopped DEF LastBlock
  <2>2. Excused \subseteq Excused'
    BY <1>2 DEF Excused
  <2>3. ReaderAt' = ReaderAt
    BY DEF ReaderAt, SendPending
  <2>4. \A f : Settled(f) => Settled(f)'
    BY <2>2 DEF Settled, Arrived
  <2> QED BY <2>1, <2>2, <2>3, <2>4
<1> USE <1>0, <1>1, <1>2, <1>3, <1>4, <1>5
<1>a. Shapes'
  <2>1. JobsOK'
    BY DEF IInv, Shapes, JobsOK, Popped
  <2>2. MessagesOK'
    BY DEF IInv, Shapes, MessagesOK, Popped, Indices, IsMessage, ToWriterTypes,
       ToReaderTypes
  <2>3. NumbersOK'
    BY DEF IInv, Shapes, NumbersOK
  <2> QED BY <2>1, <2>2, <2>3 DEF Shapes
<1>b. Protocol'
  <2> USE DEF Popped, Indices, Has, ReaderOpen, Confirmed, WriterOpen, Waiting, Answer
  <2>1. IdleOK'
    BY DEF IInv, Protocol, IdleOK, Idle
  <2>2. ReceiveOK'
    BY DEF IInv, Protocol, ReceiveOK
  <2>3. SendOK'
    BY DEF IInv, Protocol, SendOK
  <2>4. DigestOK'
    BY DigestPopped
  <2>5. AnswersOK'
    BY DEF IInv, Protocol, AnswersOK, Answer
  <2>6. ReaderOK'
    BY ReaderPopped
  <2>7. BlocksOK'
    BY DEF IInv, Protocol, BlocksOK
  <2>8. ConfirmOK'
    BY DEF IInv, Protocol, ConfirmOK
  <2>9. WriterOK'
    <3>1. reader # NoJob /\ ~reader.file_confirmed => writer.file_num < reader.file_num
      BY DEF IInv, Protocol, ConfirmOK
    <3>2. Has(toWriter, "digest") => Has(toWriter, "digest")'
      BY <1>0, <1>3
    <3>3. writer.file_num \in Files
      BY <1>1
    <3> QED BY <3>1, <3>2, <3>3 DEF IInv, Protocol, WriterOK, Deserted
  <2>10. EndOK'
    BY DEF IInv, Protocol, EndOK
  <2> QED BY <2>1, <2>2, <2>3, <2>4, <2>5, <2>6, <2>7, <2>8, <2>9, <2>10 DEF Protocol
<1>c. Contents'
  <2> USE DEF Popped, Indices, Has, ReaderOpen, Confirmed, WriterOpen, Waiting, Answer
  <2>1. PartsOK'
    BY DEF IInv, Contents, PartsOK, Holds
  <2>2. OpenOK'
    BY DEF IInv, Contents, OpenOK, Holds, OffersOK
  <2>3. OffersOK'
    BY DEF IInv, Contents, OffersOK, Holds
  <2>4. StreamOK'
    <3>1. ASSUME NEW f, f = m.file_num, f \notin torn', ~m.skip PROVE Base(f)' = Base(f) + 1
                   /\ Base(f) \in Int
      <4>1. Base(f) = m.offset - 1
        BY <1>0, <1>3 DEF Base
      <4>2. m.offset \in Nat
        BY <3>1 DEF IInv, Contents, OffersOK, Holds
      <4>3. Base(f)' = m.offset
        BY <1>0, <1>3, <3>1 DEF Base
      <4> QED BY ONLY <4>1, <4>2, <4>3

    <3>2. ASSUME NEW i \in Indices(toWriter'), toWriter'[i].type = "block",
                 toWriter'[i].file_num \notin torn'
          PROVE  (/\ toWriter[i].data # <<>> =>
                       /\ toWriter[i].data = << <<source, Base(toWriter[i].file_num) + i>> >>
                       /\ Base(toWriter[i].file_num) + i <= Size[toWriter[i].file_num]
                  /\ toWriter[i].data = <<>> =>
                       Base(toWriter[i].file_num) + i = Size[toWriter[i].file_num] + 1)'
      <4>1. PICK f : f = toWriter'[i].file_num
        OBVIOUS
      <4>2. i + 1 \in Indices(toWriter) /\ toWriter[i + 1] = toWriter'[i] /\ i \in Nat
        BY <1>0, <1>3
      <4>3. f = m.file_num /\ ~m.skip
        BY <3>2, <4>1, <4>2 DEF IInv, Protocol, BlocksOK
      <4>4. Base(f)' = Base(f) + 1 /\ Base(f) \in Int
        BY <3>1, <3>2, <4>1, <4>3
      <4>5. /\ toWriter'[i].data # <<>> => /\ toWriter'[i].data = << <<source, Base(f) + (i + 1)>> >>
                                           /\ Base(f) + (i + 1) <= Size[f]
            /\ toWriter'[i].data = <<>> => Base(f) + (i + 1) = Size[f] + 1
        BY <3>2, <4>1, <4>2 DEF IInv, Contents, StreamOK
      <4>6. Base(f) + (i + 1) = Base(f)' + i
        BY ONLY <4>2, <4>4
      <4> QED BY ONLY <4>1, <4>5, <4>6, UNCHANGED source
    <3>3. ASSUME Confirmed, reader.file_num \notin torn'
          PROVE  /\ reader.stream.pos = Base(reader.file_num)' + Len(toWriter')
                 /\ reader.stream.pos <= Size[reader.file_num]
      <4>1. m.file_num = reader.file_num /\ ~m.skip
        BY <3>3 DEF IInv, Protocol, ReaderOK
      <4>2. PICK f : f = reader.file_num
        OBVIOUS
      <4>3. Base(f)' = Base(f) + 1 /\ Base(f) \in Int
        BY <3>1, <3>3, <4>1, <4>2
      <4>4. reader.stream.pos = Base(f) + Len(toWriter) /\ reader.stream.pos <= Size[f]
        BY <3>3, <4>2 DEF IInv, Contents, StreamOK
      <4>5. Len(toWriter) = Len(toWriter') + 1 /\ Len(toWriter') \in Nat
        BY <1>3 DEF IsQueue
      <4> QED BY ONLY <4>2, <4>3, <4>4, <4>5, UNCHANGED reader
    <3> QED BY <3>2, <3>3 DEF StreamOK
  <2> QED BY <2>1, <2>2, <2>3, <2>4 DEF Contents
<1>d. Owed'
  <2> USE DEF Popped, Indices, Has, ReaderOpen, Confirmed, WriterOpen, Waiting, Answer
  <2>1. SkipsOK'
    BY DEF IInv, Owed, SkipsOK
  <2>2. PassedOK'
    BY <1>8, FilesNat DEF IInv, Owed, PassedOK
  <2>3. PendingOK'
    BY FilesNat DEF IInv, Owed, PendingOK, ReaderAt, SendPending, Settled, Arrived,
       Excused, Coming
  <2>4. ErrorOK'
    BY FilesNat DEF IInv, Owed, ErrorOK, ReaderAt, SendPending, Settled, Arrived,
       Excused, Coming
  <2>5. OverOK'
    BY FilesNat DEF IInv, Owed, OverOK, ReaderAt, SendPending, Settled, Arrived,
       Excused, Coming
  <2> QED BY <2>1, <2>2, <2>3, <2>4, <2>5 DEF Owed
<1> QED BY <1>a, <1>b, <1>c, <1>d DEF IInv

\* A digest at the client's writer: the user is asked.
LEMMA ClientAsksStep ==
  ASSUME IInv, toWriter # <<>>, NEW m, m = Head(toWriter), toWriter' = Tail(toWriter),
         m.type = "digest", direction = "download", writer # NoJob,
         writer' = [writer EXCEPT !.digest = m.version],
         asked' = asked \cup {m.file_num}, UNCHANGED <<toReader, skips, torn>>,
         UNCHANGED <<disk, status, failed>>,
         UNCHANGED <<source, reader, direction, strategy, saved, first, lost>>
  PROVE  IInv'
<1>0. /\ Len(toWriter) \in Nat /\ Len(toReader) \in Nat
      /\ reader # NoJob => reader.file_num \in Nat
      /\ writer # NoJob => writer.file_num \in Nat
  BY QueuesThere, ReaderThere, WriterThere
<1>3. Popped(toWriter, toWriter') /\ m = toWriter[1] /\ 1 \in Indices(toWriter)
  BY TakeHead, QueuesThere
<1>4. saved = NotSaved /\ status # "none" /\ ~SendPending /\ m.type \in ToWriterTypes /\ IsMessage(m)
  BY <1>0, <1>3 DEF IInv, Protocol, IdleOK, Idle, SendOK, SendPending, Indices, Shapes, MessagesOK
<1>5. reader # NoJob => asked = {} /\ \A i \in Indices(toReader) : ~Answer(toReader[i])
  <2>1. ~Waiting
    BY <1>0, <1>3 DEF IInv, Protocol, ReaderOK, Indices
  <2> QED BY <2>1 DEF IInv, Protocol, AnswersOK
<1>1. /\ reader # NoJob /\ reader.file_num = m.file_num /\ m.version = source /\ m.file_num \in Files
      /\ reader.stream # Closed /\ ~reader.file_confirmed /\ Len(toWriter') = 0 /\ asked = {}
      /\ \A i \in Indices(toReader) : toReader[i].type # "send"
  <2>1. m.file_num \in Files
    BY <1>4 DEF IsMessage
  <2>2. reader # NoJob
    BY <1>3 DEF IInv, Protocol, DigestOK
  <2>3. /\ reader.file_num = m.file_num /\ m.version = source /\ 1 = Len(toWriter)
        /\ reader.stream # Closed /\ ~reader.file_confirmed
    BY <1>3, <2>2 DEF IInv, Protocol, DigestOK
  <2>4. Len(toWriter') = 0
    BY ONLY <1>3, <2>3 DEF Popped, IsQueue
  <2>5. \A i \in Indices(toReader) : toReader[i].type # "send"
    BY <2>2 DEF IInv, Protocol, SendOK
  <2> QED BY <1>5, <2>1, <2>2, <2>3, <2>4, <2>5
<1>9. /\ writer.file_num <= reader.file_num
      /\ writer.stream # Closed => writer.file_num < reader.file_num
  BY <1>0, <1>1, <1>5 DEF IInv, Protocol, WriterOK, WriterOpen, Answer
<1>w. PICK w : w = [writer EXCEPT !.digest = m.version]
                 /\ MadeWriter(w, writer.file_num, writer.stream, writer.into, source)
  BY <1>1, WriterThere, WriterUpdates, Zenon
<1>2. /\ IsWriter(writer') /\ writer' # NoJob /\ writer'.file_num = writer.file_num
      /\ writer'.stream = writer.stream /\ writer'.into = writer.into /\ writer'.digest = source
  BY <1>w DEF MadeWriter
<1> USE <1>0, <1>1, <1>2, <1>3, <1>4, <1>5, <1>9
<1>a. Shapes'
  <2>1. JobsOK'
    BY DEF IInv, Shapes, JobsOK, Grown, Popped
  <2>2. MessagesOK'
    BY DEF IInv, Shapes, MessagesOK, Grown, Popped, Indices, IsMessage, ToWriterTypes,
       ToReaderTypes
  <2>3. NumbersOK'
    BY DEF IInv, Shapes, NumbersOK
  <2> QED BY <2>1, <2>2, <2>3 DEF Shapes
<1>b. Protocol'
  <2> USE DEF Popped, Grown, Indices, Has, ReaderOpen, Confirmed, WriterOpen, Waiting, Answer
  <2>1. IdleOK'
    BY DEF IInv, Protocol, IdleOK, Idle
  <2>2. ReceiveOK'
    BY DEF IInv, Protocol, ReceiveOK
  <2>3. SendOK'
    BY DEF IInv, Protocol, SendOK
  <2>4. DigestOK'
    BY DigestPopped
  <2>5. AnswersOK'
    BY DEF IInv, Protocol, AnswersOK, Answer
  <2>6. ReaderOK'
    BY ReaderPopped
  <2>7. BlocksOK'
    BY DEF IInv, Protocol, BlocksOK
  <2>8. ConfirmOK'
    BY DEF IInv, Protocol, ConfirmOK
  <2>9. WriterOK'
    BY DEF IInv, Protocol, WriterOK, Deserted, Answer
  <2>10. EndOK'
    BY DEF IInv, Protocol, EndOK
  <2> QED BY <2>1, <2>2, <2>3, <2>4, <2>5, <2>6, <2>7, <2>8, <2>9, <2>10 DEF Protocol
<1>c. Contents'
  <2> USE DEF Popped, Grown, Indices, Has, ReaderOpen, Confirmed, WriterOpen, Waiting, Answer
  <2>1. PartsOK'
    BY DEF IInv, Contents, PartsOK, Holds
  <2>2. OpenOK'
    BY DEF IInv, Contents, OpenOK, Holds
  <2>3. OffersOK'
    BY DEF IInv, Contents, OffersOK, Holds
  <2>4. StreamOK'
    BY DEF IInv, Contents, StreamOK, Base
  <2> QED BY <2>1, <2>2, <2>3, <2>4 DEF Contents
<1>d. Owed'
  <2> USE DEF Popped, Grown, Indices, Has, ReaderOpen, Confirmed, WriterOpen, Waiting, Answer
  <2>1. SkipsOK'
    BY DEF IInv, Owed, SkipsOK
  <2>2. PassedOK'
    <3>1. ReaderAt' = ReaderAt /\ \A f : ~Coming(f)
      <4>1. \A f : ~Coming(f)
        BY <1>0, <1>1, <1>3 DEF Coming, LastBlock
      <4> QED BY <4>1 DEF ReaderAt
    <3>2. Excused \subseteq Excused' /\ \A f : Settled(f) => Settled(f)'
      BY DEF Excused, Settled, Arrived
    <3> QED BY <3>1, <3>2, FilesNat DEF IInv, Owed, PassedOK
  <2>3. PendingOK'
    BY FilesNat DEF IInv, Owed, PendingOK, ReaderAt, SendPending, Settled, Arrived,
       Excused, Coming
  <2>4. ErrorOK'
    BY FilesNat DEF IInv, Owed, ErrorOK, ReaderAt, SendPending, Settled, Arrived,
       Excused, Coming
  <2>5. OverOK'
    BY DEF IInv, Protocol, EndOK, OverOK
  <2> QED BY <2>1, <2>2, <2>3, <2>4, <2>5 DEF Owed
<1> QED BY <1>a, <1>b, <1>c, <1>d DEF IInv

\* A digest at the client's writer: what is there cannot be looked at, and nobody is told.
LEMMA ClientSaysNothingStep ==
  ASSUME IInv, toWriter # <<>>, NEW m, m = Head(toWriter), toWriter' = Tail(toWriter),
         m.type = "digest", direction = "download", writer # NoJob,
         writer' = [[writer EXCEPT !.digest = m.version] EXCEPT !.unanswered = TRUE],
         UNCHANGED <<asked, toReader, skips, torn>>,
         UNCHANGED <<disk, status, failed>>,
         UNCHANGED <<source, reader, direction, strategy, saved, first, lost>>
  PROVE  IInv'
<1>0. /\ Len(toWriter) \in Nat /\ Len(toReader) \in Nat
      /\ reader # NoJob => reader.file_num \in Nat
      /\ writer # NoJob => writer.file_num \in Nat
  BY QueuesThere, ReaderThere, WriterThere
<1>3. Popped(toWriter, toWriter') /\ m = toWriter[1] /\ 1 \in Indices(toWriter)
  BY TakeHead, QueuesThere
<1>4. saved = NotSaved /\ status # "none" /\ ~SendPending /\ m.type \in ToWriterTypes /\ IsMessage(m)
  BY <1>0, <1>3 DEF IInv, Protocol, IdleOK, Idle, SendOK, SendPending, Indices, Shapes, MessagesOK
<1>5. reader # NoJob => asked = {} /\ \A i \in Indices(toReader) : ~Answer(toReader[i])
  <2>1. ~Waiting
    BY <1>0, <1>3 DEF IInv, Protocol, ReaderOK, Indices
  <2> QED BY <2>1 DEF IInv, Protocol, AnswersOK
<1>1. /\ reader # NoJob /\ reader.file_num = m.file_num /\ m.version = source /\ m.file_num \in Files
      /\ reader.stream # Closed /\ ~reader.file_confirmed /\ Len(toWriter') = 0 /\ asked = {}
      /\ \A i \in Indices(toReader) : toReader[i].type # "send"
  <2>1. m.file_num \in Files
    BY <1>4 DEF IsMessage
  <2>2. reader # NoJob
    BY <1>3 DEF IInv, Protocol, DigestOK
  <2>3. /\ reader.file_num = m.file_num /\ m.version = source /\ 1 = Len(toWriter)
        /\ reader.stream # Closed /\ ~reader.file_confirmed
    BY <1>3, <2>2 DEF IInv, Protocol, DigestOK
  <2>4. Len(toWriter') = 0
    BY ONLY <1>3, <2>3 DEF Popped, IsQueue
  <2>5. \A i \in Indices(toReader) : toReader[i].type # "send"
    BY <2>2 DEF IInv, Protocol, SendOK
  <2> QED BY <1>5, <2>1, <2>2, <2>3, <2>4, <2>5
<1>9. /\ writer.file_num <= reader.file_num
      /\ writer.stream # Closed => writer.file_num < reader.file_num
  BY <1>0, <1>1, <1>5 DEF IInv, Protocol, WriterOK, WriterOpen, Answer
<1>w. PICK w : w = [writer EXCEPT !.digest = m.version]
                 /\ MadeWriter(w, writer.file_num, writer.stream, writer.into, source)
  BY <1>1, WriterThere, WriterUpdates, Zenon
<1>2. /\ IsWriter(writer') /\ writer' # NoJob /\ writer'.file_num = writer.file_num
      /\ writer'.stream = writer.stream /\ writer'.into = writer.into /\ writer'.digest = source
  <2>1. IsWriter(w) /\ writer.file_num \in Nums /\ IsStream(writer.stream)
    BY <1>w, WriterThere DEF MadeWriter
  <2>2. MadeWriter(writer', w.file_num, w.stream, w.into, w.digest)
    BY <1>w, <2>1, WriterUpdates, Zenon
  <2> QED BY <1>w, <2>2 DEF MadeWriter
<1> USE <1>0, <1>1, <1>2, <1>3, <1>4, <1>5, <1>9
<1>a. Shapes'
  <2>1. JobsOK'
    BY DEF IInv, Shapes, JobsOK, Grown, Popped
  <2>2. MessagesOK'
    BY DEF IInv, Shapes, MessagesOK, Grown, Popped, Indices, IsMessage, ToWriterTypes,
       ToReaderTypes
  <2>3. NumbersOK'
    BY DEF IInv, Shapes, NumbersOK
  <2> QED BY <2>1, <2>2, <2>3 DEF Shapes
<1>b. Protocol'
  <2> USE DEF Popped, Grown, Indices, Has, ReaderOpen, Confirmed, WriterOpen, Waiting, Answer
  <2>1. IdleOK'
    BY DEF IInv, Protocol, IdleOK, Idle
  <2>2. ReceiveOK'
    BY DEF IInv, Protocol, ReceiveOK
  <2>3. SendOK'
    BY DEF IInv, Protocol, SendOK
  <2>4. DigestOK'
    BY DigestPopped
  <2>5. AnswersOK'
    BY DEF IInv, Protocol, AnswersOK, Answer
  <2>6. ReaderOK'
    BY ReaderPopped
  <2>7. BlocksOK'
    BY DEF IInv, Protocol, BlocksOK
  <2>8. ConfirmOK'
    BY DEF IInv, Protocol, ConfirmOK
  <2>9. WriterOK'
    BY DEF IInv, Protocol, WriterOK, Deserted, Answer
  <2>10. EndOK'
    BY DEF IInv, Protocol, EndOK
  <2> QED BY <2>1, <2>2, <2>3, <2>4, <2>5, <2>6, <2>7, <2>8, <2>9, <2>10 DEF Protocol
<1>c. Contents'
  <2> USE DEF Popped, Grown, Indices, Has, ReaderOpen, Confirmed, WriterOpen, Waiting, Answer
  <2>1. PartsOK'
    BY DEF IInv, Contents, PartsOK, Holds
  <2>2. OpenOK'
    BY DEF IInv, Contents, OpenOK, Holds
  <2>3. OffersOK'
    BY DEF IInv, Contents, OffersOK, Holds
  <2>4. StreamOK'
    BY DEF IInv, Contents, StreamOK, Base
  <2> QED BY <2>1, <2>2, <2>3, <2>4 DEF Contents
<1>d. Owed'
  <2> USE DEF Popped, Grown, Indices, Has, ReaderOpen, Confirmed, WriterOpen, Waiting, Answer
  <2>1. SkipsOK'
    BY DEF IInv, Owed, SkipsOK
  <2>2. PassedOK'
    <3>1. ReaderAt' = ReaderAt /\ \A f : ~Coming(f)
      <4>1. \A f : ~Coming(f)
        BY <1>0, <1>1, <1>3 DEF Coming, LastBlock
      <4> QED BY <4>1 DEF ReaderAt
    <3>2. Excused \subseteq Excused' /\ \A f : Settled(f) => Settled(f)'
      BY DEF Excused, Settled, Arrived
    <3> QED BY <3>1, <3>2, FilesNat DEF IInv, Owed, PassedOK
  <2>3. PendingOK'
    BY FilesNat DEF IInv, Owed, PendingOK, ReaderAt, SendPending, Settled, Arrived,
       Excused, Coming
  <2>4. ErrorOK'
    BY FilesNat DEF IInv, Owed, ErrorOK, ReaderAt, SendPending, Settled, Arrived,
       Excused, Coming
  <2>5. OverOK'
    BY DEF IInv, Protocol, EndOK, OverOK
  <2> QED BY <2>1, <2>2, <2>3, <2>4, <2>5 DEF Owed
<1> QED BY <1>a, <1>b, <1>c, <1>d DEF IInv

\* A digest at the client's writer: the file is skipped.
LEMMA ClientSkipsStep ==
  ASSUME IInv, toWriter # <<>>, NEW m, m = Head(toWriter), toWriter' = Tail(toWriter),
         m.type = "digest", direction = "download", writer # NoJob,
         NEW sought, NEW c, IsConfirm(c), c.type = "confirm", c.file_num = m.file_num, c.skip,
         c.offset = 0,
         writer' = WriterConfirmed([writer EXCEPT !.digest = m.version], c, sought), WriterSends(<<c>>),
         skips' = skips \cup Skipped(c), torn' = torn \cup Astray(writer', c), UNCHANGED asked,
         UNCHANGED <<disk, status, failed>>,
         UNCHANGED <<source, reader, direction, strategy, saved, first, lost>>
  PROVE  IInv'
<1>0. /\ Len(toWriter) \in Nat /\ Len(toReader) \in Nat
      /\ reader # NoJob => reader.file_num \in Nat
      /\ writer # NoJob => writer.file_num \in Nat
  BY QueuesThere, ReaderThere, WriterThere
<1>3. Popped(toWriter, toWriter') /\ m = toWriter[1] /\ 1 \in Indices(toWriter)
  BY TakeHead, QueuesThere
<1>4. saved = NotSaved /\ status # "none" /\ ~SendPending /\ m.type \in ToWriterTypes /\ IsMessage(m)
  BY <1>0, <1>3 DEF IInv, Protocol, IdleOK, Idle, SendOK, SendPending, Indices, Shapes, MessagesOK
<1>5. reader # NoJob => asked = {} /\ \A i \in Indices(toReader) : ~Answer(toReader[i])
  <2>1. ~Waiting
    BY <1>0, <1>3 DEF IInv, Protocol, ReaderOK, Indices
  <2> QED BY <2>1 DEF IInv, Protocol, AnswersOK
<1>1. /\ reader # NoJob /\ reader.file_num = m.file_num /\ m.version = source /\ m.file_num \in Files
      /\ reader.stream # Closed /\ ~reader.file_confirmed /\ Len(toWriter') = 0 /\ asked = {}
      /\ \A i \in Indices(toReader) : toReader[i].type # "send"
  <2>1. m.file_num \in Files
    BY <1>4 DEF IsMessage
  <2>2. reader # NoJob
    BY <1>3 DEF IInv, Protocol, DigestOK
  <2>3. /\ reader.file_num = m.file_num /\ m.version = source /\ 1 = Len(toWriter)
        /\ reader.stream # Closed /\ ~reader.file_confirmed
    BY <1>3, <2>2 DEF IInv, Protocol, DigestOK
  <2>4. Len(toWriter') = 0
    BY ONLY <1>3, <2>3 DEF Popped, IsQueue
  <2>5. \A i \in Indices(toReader) : toReader[i].type # "send"
    BY <2>2 DEF IInv, Protocol, SendOK
  <2> QED BY <1>5, <2>1, <2>2, <2>3, <2>4, <2>5
<1>9. /\ writer.file_num <= reader.file_num
      /\ writer.stream # Closed => writer.file_num < reader.file_num
  BY <1>0, <1>1, <1>5 DEF IInv, Protocol, WriterOK, WriterOpen, Answer
<1>w. PICK w : w = [writer EXCEPT !.digest = m.version]
                 /\ MadeWriter(w, writer.file_num, writer.stream, writer.into, source)
  BY <1>1, WriterThere, WriterUpdates, Zenon
<1>7. Grown(toReader, toReader', c) /\ c.skip \in BOOLEAN
  BY SendOne, QueuesThere DEF WriterSends, IsConfirm
<1>2. /\ IsWriter(writer') /\ writer' # NoJob /\ writer'.digest = source /\ torn' = torn
      /\ skips' = skips \cup {m.file_num}
      /\ \/ /\ writer.file_num < m.file_num /\ writer'.file_num = writer.file_num
            /\ writer'.stream = writer.stream /\ writer'.into = writer.into
         \/ /\ writer.file_num = m.file_num /\ writer.stream = Closed
            /\ writer'.file_num = m.file_num + 1 /\ writer'.stream = Closed
  <2>1. IsWriter(w) /\ w # NoJob /\ w.file_num = writer.file_num /\ w.stream = writer.stream
          /\ w.into = writer.into /\ w.digest = source
        /\ writer' = WriterConfirmed(w, c, sought) /\ c.file_num \in Files
    BY <1>1, <1>w DEF MadeWriter
  <2>2. torn' = torn /\ skips' = skips \cup {m.file_num}
    BY DEF Astray, Skipped
  <2>3. CASE writer.file_num = m.file_num
    <3>1. MadeWriter(writer', m.file_num + 1, Closed, w.into, source)
      BY ONLY <1>1, <2>1, <2>3, c.skip, c.file_num = m.file_num, WriterGoesOn
    <3> QED BY <1>0, <1>1, <1>9, <2>2, <2>3, <3>1 DEF MadeWriter
  <2>4. CASE writer.file_num # m.file_num
    <3>1. writer' = w
      BY ONLY <2>1, <2>4, c.file_num = m.file_num, WriterGoesOn
    <3>2. writer.file_num < m.file_num
      BY ONLY <1>0, <1>1, <1>9, <2>4, writer # NoJob
    <3> QED BY ONLY <2>1, <2>2, <3>1, <3>2
  <2> QED BY <2>3, <2>4
<1>8. /\ Indices(toWriter') = {} /\ Indices(toReader') = {1} /\ toReader'[1] = c
      /\ reader # NoJob /\ UNCHANGED <<reader, asked, saved, direction>>
  <2>1. ASSUME NEW i \in Indices(toReader) PROVE FALSE
    <3>1. toReader[i].type \in {"send", "confirm", "cancel"}
      BY DEF IInv, Shapes, MessagesOK
    <3>2. toReader[i].type # "cancel"
      BY DEF IInv, Protocol, EndOK, Has
    <3>3. toReader[i].type \notin {"send", "confirm"}
      BY <1>1, <1>5 DEF Answer
    <3> QED BY ONLY <3>1, <3>2, <3>3
  <2>2. Len(toReader) = 0
    BY ONLY <1>0, <2>1 DEF Indices
  <2>3. Indices(toReader') = {1} /\ toReader'[1] = c
    BY ONLY <2>2, <1>7 DEF Grown, Indices, IsQueue
  <2>4. Indices(toWriter') = {}
    BY ONLY <1>1 DEF Indices
  <2> QED BY <1>1, <2>3, <2>4
<1> USE <1>0, <1>1, <1>2, <1>3, <1>4, <1>5, <1>9, <1>7, <1>8
<1>a. Shapes'
  <2>1. JobsOK'
    BY DEF IInv, Shapes, JobsOK, Grown, Popped
  <2>2. MessagesOK'
    BY DEF IInv, Shapes, MessagesOK, Grown, Popped, Indices, IsMessage, ToWriterTypes,
       ToReaderTypes
  <2>3. NumbersOK'
    BY DEF IInv, Shapes, NumbersOK
  <2> QED BY <2>1, <2>2, <2>3 DEF Shapes
<1>b. Protocol'
  <2> USE DEF Popped, Grown, Indices, Has, ReaderOpen, Confirmed, WriterOpen, Waiting, Answer
  <2>1. IdleOK'
    BY DEF IInv, Protocol, IdleOK, Idle
  <2>2. ReceiveOK'
    <3> HIDE DEF Indices, Popped, Grown
    <3> QED BY ONLY <1>8 DEF ReceiveOK
  <2>3. SendOK'
    <3> HIDE DEF Indices, Popped, Grown
    <3> QED BY ONLY <1>8, c.type = "confirm" DEF SendOK
  <2>4. DigestOK'
    BY DigestPopped
  <2>5. AnswersOK'
    <3> HIDE DEF Indices, Popped, Grown
    <3> QED BY ONLY <1>1, <1>8, c.file_num = m.file_num DEF AnswersOK
  <2>6. ReaderOK'
    BY ReaderPopped
  <2>7. BlocksOK'
    BY DEF IInv, Protocol, BlocksOK
  <2>8. ConfirmOK'
    BY DEF IInv, Protocol, ConfirmOK
  <2>9. WriterOK'
    <3> HIDE DEF Popped, Grown, Has, Indices
    <3>1. \E i \in Indices(toReader') : toReader'[i].type = "confirm" /\ toReader'[i].skip
      BY ONLY <1>8, c.type = "confirm", c.skip
    <3>2. WriterOpen => writer.file_num \in Files
      BY DEF IInv, Protocol, WriterOK
    <3> QED BY ONLY <1>0, <1>1, <1>2, <1>8, <1>9, <3>1, <3>2, writer # NoJob, UNCHANGED source
            DEF WriterOK, WriterOpen
  <2>10. EndOK'
    <3> HIDE DEF Indices, Popped, Grown
    <3> QED BY ONLY <1>8, c.type = "confirm" DEF EndOK
  <2> QED BY <2>1, <2>2, <2>3, <2>4, <2>5, <2>6, <2>7, <2>8, <2>9, <2>10 DEF Protocol
<1>c. Contents'
  <2> USE DEF Popped, Grown, Indices, Has, ReaderOpen, Confirmed, WriterOpen, Waiting, Answer
  <2>1. PartsOK'
    BY DEF IInv, Contents, PartsOK, Holds
  <2>2. OpenOK'
    BY DEF IInv, Contents, OpenOK, Holds
  <2>3. OffersOK'
    <3> HIDE DEF Indices, Popped, Grown
    <3> QED BY ONLY <1>8, c.type = "confirm", c.offset = 0 DEF OffersOK
  <2>4. StreamOK'
    BY DEF IInv, Contents, StreamOK, Base
  <2> QED BY <2>1, <2>2, <2>3, <2>4 DEF Contents
<1>d. Owed'
  <2> USE DEF Popped, Grown, Indices, Has, ReaderOpen, Confirmed, WriterOpen, Waiting, Answer
  <2>1. SkipsOK'
    BY DEF IInv, Owed, SkipsOK
  <2>2. PassedOK'
    <3>1. \A f : ~Coming(f)
      BY <1>0, <1>1, <1>3 DEF Coming, LastBlock
    <3>2. Excused \subseteq Excused' /\ m.file_num \in Excused'
      BY DEF Excused
    <3>3. ReaderAt' = reader.file_num /\ ReaderAt = reader.file_num
      BY DEF ReaderAt
    <3>4. ASSUME NEW f \in Files
          PROVE  (/\ f < writer.file_num => Settled(f)
                  /\ f < ReaderAt /\ f >= writer.file_num =>
                       \/ f \in Excused
                       \/ f = writer.file_num /\ writer.stream # Closed /\ writer.stream.pos = Size[f])'
      <4>1. Settled(f) => Settled(f)'
        BY <3>2 DEF Settled, Arrived
      <4>2. /\ f < writer.file_num => Settled(f)'
            /\ f < reader.file_num /\ f >= writer.file_num =>
                 \/ f \in Excused
                 \/ f = writer.file_num /\ writer.stream # Closed /\ writer.stream.pos = Size[f]
        BY <3>1, <3>3, <4>1 DEF IInv, Owed, PassedOK
      <4>3. f \in Excused' => Settled(f)'
        BY DEF Settled
      <4>4. f \in Nat
        BY FilesNat
      <4> QED BY ONLY <1>0, <1>1, <1>2, <3>2, <3>3, <4>2, <4>3, <4>4, writer # NoJob
    <3> QED BY ONLY <3>4 DEF PassedOK
  <2>3. PendingOK'
    BY FilesNat DEF IInv, Owed, PendingOK, ReaderAt, SendPending, Settled, Arrived,
       Excused, Coming
  <2>4. ErrorOK'
    BY FilesNat DEF IInv, Owed, ErrorOK, ReaderAt, SendPending, Settled, Arrived,
       Excused, Coming
  <2>5. OverOK'
    <3> HIDE DEF Indices, Popped, Grown
    <3> QED BY ONLY <1>2, <1>4, <1>8, c.type = "confirm" DEF OverOK
  <2> QED BY <2>1, <2>2, <2>3, <2>4, <2>5 DEF Owed
<1> QED BY <1>a, <1>b, <1>c, <1>d DEF IInv

\* A digest at the client's writer: the file is wanted, or the rest of it.
LEMMA ClientAgreesStep ==
  ASSUME IInv, toWriter # <<>>, NEW m, m = Head(toWriter), toWriter' = Tail(toWriter),
         m.type = "digest", direction = "download", writer # NoJob,
         NEW sought, NEW c, IsConfirm(c), c.type = "confirm", c.file_num = m.file_num, ~c.skip,
         c.offset = 0 \/ c.offset > 0, c.offset # 0 /\ m.file_num \notin torn =>
           Holds(m.file_num, m.version, c.offset),
         writer' = WriterConfirmed([writer EXCEPT !.digest = m.version], c, sought), WriterSends(<<c>>),
         skips' = skips \cup Skipped(c), torn' = torn \cup Astray(writer', c), UNCHANGED asked,
         UNCHANGED <<disk, status, failed>>,
         UNCHANGED <<source, reader, direction, strategy, saved, first, lost>>
  PROVE  IInv'
<1>0. /\ Len(toWriter) \in Nat /\ Len(toReader) \in Nat
      /\ reader # NoJob => reader.file_num \in Nat
      /\ writer # NoJob => writer.file_num \in Nat
  BY QueuesThere, ReaderThere, WriterThere
<1>3. Popped(toWriter, toWriter') /\ m = toWriter[1] /\ 1 \in Indices(toWriter)
  BY TakeHead, QueuesThere
<1>4. saved = NotSaved /\ status # "none" /\ ~SendPending /\ m.type \in ToWriterTypes /\ IsMessage(m)
  BY <1>0, <1>3 DEF IInv, Protocol, IdleOK, Idle, SendOK, SendPending, Indices, Shapes, MessagesOK
<1>5. reader # NoJob => asked = {} /\ \A i \in Indices(toReader) : ~Answer(toReader[i])
  <2>1. ~Waiting
    BY <1>0, <1>3 DEF IInv, Protocol, ReaderOK, Indices
  <2> QED BY <2>1 DEF IInv, Protocol, AnswersOK
<1>1. /\ reader # NoJob /\ reader.file_num = m.file_num /\ m.version = source /\ m.file_num \in Files
      /\ reader.stream # Closed /\ ~reader.file_confirmed /\ Len(toWriter') = 0 /\ asked = {}
      /\ \A i \in Indices(toReader) : toReader[i].type # "send"
  <2>1. m.file_num \in Files
    BY <1>4 DEF IsMessage
  <2>2. reader # NoJob
    BY <1>3 DEF IInv, Protocol, DigestOK
  <2>3. /\ reader.file_num = m.file_num /\ m.version = source /\ 1 = Len(toWriter)
        /\ reader.stream # Closed /\ ~reader.file_confirmed
    BY <1>3, <2>2 DEF IInv, Protocol, DigestOK
  <2>4. Len(toWriter') = 0
    BY ONLY <1>3, <2>3 DEF Popped, IsQueue
  <2>5. \A i \in Indices(toReader) : toReader[i].type # "send"
    BY <2>2 DEF IInv, Protocol, SendOK
  <2> QED BY <1>5, <2>1, <2>2, <2>3, <2>4, <2>5
<1>9. /\ writer.file_num <= reader.file_num
      /\ writer.stream # Closed => writer.file_num < reader.file_num
  BY <1>0, <1>1, <1>5 DEF IInv, Protocol, WriterOK, WriterOpen, Answer
<1>w. PICK w : w = [writer EXCEPT !.digest = m.version]
                 /\ MadeWriter(w, writer.file_num, writer.stream, writer.into, source)
  BY <1>1, WriterThere, WriterUpdates, Zenon
<1>7. Grown(toReader, toReader', c) /\ c.skip \in BOOLEAN
  BY SendOne, QueuesThere DEF WriterSends, IsConfirm
<1>2. /\ IsWriter(writer') /\ writer' # NoJob /\ writer'.digest = source /\ skips' = skips
      /\ torn \subseteq torn' /\ torn' \subseteq torn \cup {m.file_num}
      /\ writer'.file_num = writer.file_num
      /\ \/ /\ writer'.stream = writer.stream /\ writer'.into = writer.into
            /\ (c.offset = 0 \/ m.file_num \in torn')
         \/ /\ writer.file_num = m.file_num /\ writer.stream = Closed
            /\ writer'.stream = StreamAt(c.offset) /\ writer'.stream # Closed
            /\ writer'.stream.pos = c.offset /\ c.offset > 0 /\ writer'.into = writer.file_num
  <2>1. IsWriter(w) /\ w # NoJob /\ w.file_num = writer.file_num /\ w.stream = writer.stream
          /\ w.into = writer.into /\ w.digest = source
        /\ writer' = WriterConfirmed(w, c, sought) /\ c.file_num \in Files
    BY <1>1, <1>w DEF MadeWriter
  <2>2. skips' = skips /\ Astray(writer', c) \subseteq {m.file_num}
    BY DEF Skipped, Astray
  <2>3. CASE writer.file_num = m.file_num
    <3>1. \/ MadeWriter(writer', m.file_num, w.stream, w.into, source)
          \/ MadeWriter(writer', m.file_num, StreamAt(c.offset), m.file_num, source) /\ c.offset # 0
      BY ONLY <1>1, <2>1, <2>3, ~c.skip, c.file_num = m.file_num, WriterGoesOn
    <3>2. writer.stream = Closed
      BY <1>0, <1>1, <1>9, <2>3
    <3>3. CASE MadeWriter(writer', m.file_num, w.stream, w.into, source)
      <4>1. writer'.stream = Closed
        BY <2>1, <3>2, <3>3 DEF MadeWriter
      <4>2. c.offset # 0 => m.file_num \in torn'
        BY <4>1, StreamFacts DEF Astray
      <4> QED BY <2>1, <2>2, <2>3, <3>3, <4>2 DEF MadeWriter
    <3>4. CASE MadeWriter(writer', m.file_num, StreamAt(c.offset), m.file_num, source) /\ c.offset # 0
      BY <2>2, <2>3, <3>2, <3>4, StreamFacts DEF MadeWriter
    <3> QED BY <3>1, <3>3, <3>4
  <2>4. CASE writer.file_num # m.file_num
    <3>1. writer' = w
      BY ONLY <2>1, <2>4, c.file_num = m.file_num, WriterGoesOn
    <3>2. c.offset # 0 => m.file_num \in torn'
      BY <2>1, <2>4, <3>1 DEF Astray
    <3> QED BY <2>1, <2>2, <3>1, <3>2
  <2> QED BY <2>3, <2>4
<1>8. /\ Indices(toWriter') = {} /\ Indices(toReader') = {1} /\ toReader'[1] = c
      /\ reader # NoJob /\ UNCHANGED <<reader, asked, saved, direction>>
  <2>1. ASSUME NEW i \in Indices(toReader) PROVE FALSE
    <3>1. toReader[i].type \in {"send", "confirm", "cancel"}
      BY DEF IInv, Shapes, MessagesOK
    <3>2. toReader[i].type # "cancel"
      BY DEF IInv, Protocol, EndOK, Has
    <3>3. toReader[i].type \notin {"send", "confirm"}
      BY <1>1, <1>5 DEF Answer
    <3> QED BY ONLY <3>1, <3>2, <3>3
  <2>2. Len(toReader) = 0
    BY ONLY <1>0, <2>1 DEF Indices
  <2>3. Indices(toReader') = {1} /\ toReader'[1] = c
    BY ONLY <2>2, <1>7 DEF Grown, Indices, IsQueue
  <2>4. Indices(toWriter') = {}
    BY ONLY <1>1 DEF Indices
  <2> QED BY <1>1, <2>3, <2>4
<1> USE <1>0, <1>1, <1>2, <1>3, <1>4, <1>5, <1>9, <1>7, <1>8
<1>a. Shapes'
  <2>1. JobsOK'
    BY DEF IInv, Shapes, JobsOK, Grown, Popped
  <2>2. MessagesOK'
    <3>1. \A i \in Indices(toReader') : toReader'[i] = c \/ \E j \in Indices(toReader) :
            toReader'[i] = toReader[j]
      BY ONLY <1>0, <1>7 DEF Grown, Indices
    <3>2. \A i \in Indices(toWriter') : \E j \in Indices(toWriter) : toWriter'[i] = toWriter[j]
      BY ONLY <1>0, <1>3 DEF Popped, Indices
    <3>3. IsMessage(c) /\ c.type = "confirm"
      BY DEF IsMessage
    <3> QED BY ONLY <3>1, <3>2, <3>3, IInv, direction = "download", UNCHANGED direction
            DEF IInv, Shapes, MessagesOK, ToReaderTypes
  <2>3. NumbersOK'
    BY DEF IInv, Shapes, NumbersOK
  <2> QED BY <2>1, <2>2, <2>3 DEF Shapes
<1>b. Protocol'
  <2> USE DEF Popped, Grown, Indices, Has, ReaderOpen, Confirmed, WriterOpen, Waiting, Answer
  <2>1. IdleOK'
    BY DEF IInv, Protocol, IdleOK, Idle
  <2>2. ReceiveOK'
    <3> HIDE DEF Indices, Popped, Grown
    <3> QED BY ONLY <1>8 DEF ReceiveOK
  <2>3. SendOK'
    <3> HIDE DEF Indices, Popped, Grown
    <3> QED BY ONLY <1>8, c.type = "confirm" DEF SendOK
  <2>4. DigestOK'
    BY DigestPopped
  <2>5. AnswersOK'
    <3> HIDE DEF Indices, Popped, Grown
    <3> QED BY ONLY <1>1, <1>8, c.file_num = m.file_num DEF AnswersOK
  <2>6. ReaderOK'
    BY ReaderPopped
  <2>7. BlocksOK'
    BY DEF IInv, Protocol, BlocksOK
  <2>8. ConfirmOK'
    BY DEF IInv, Protocol, ConfirmOK
  <2>9. WriterOK'
    BY DEF IInv, Protocol, WriterOK, Deserted, Answer
  <2>10. EndOK'
    <3> HIDE DEF Indices, Popped, Grown
    <3> QED BY ONLY <1>8, c.type = "confirm" DEF EndOK
  <2> QED BY <2>1, <2>2, <2>3, <2>4, <2>5, <2>6, <2>7, <2>8, <2>9, <2>10 DEF Protocol
<1>c. Contents'
  <2> USE DEF Popped, Grown, Indices, Has, ReaderOpen, Confirmed, WriterOpen, Waiting, Answer
  <2>1. PartsOK'
    BY DEF IInv, Contents, PartsOK, Holds
  <2>2. OpenOK'
    <3>1. CASE writer'.stream = writer.stream /\ writer'.into = writer.into
      BY <3>1 DEF IInv, Contents, OpenOK, Holds
    <3>2. CASE ~(writer'.stream = writer.stream /\ writer'.into = writer.into)
      <4>1. writer'.into = writer'.file_num /\ writer'.file_num = m.file_num
            /\ writer'.stream.pos = c.offset /\ c.offset # 0
        BY ONLY <1>2, <3>2
      <4>2. m.file_num \notin torn' => Holds(m.file_num, source, c.offset)
        BY <1>1, <1>2, <4>1
      <4> QED BY <4>1, <4>2 DEF OpenOK, Holds
    <3> QED BY <3>1, <3>2
  <2>3. OffersOK'
    <3>1. \A i \in Indices(toReader') : toReader'[i] = c \/ ~Answer(toReader'[i])
      BY ONLY <1>0, <1>1, <1>5, <1>7 DEF Grown, Indices
    <3>2. m.file_num \notin torn' /\ c.offset # 0 =>
            writer'.file_num = m.file_num /\ writer'.stream = StreamAt(c.offset)
      BY ONLY <1>2
    <3> QED BY ONLY <1>1, <1>3, <3>1, <3>2, c.type = "confirm", c.file_num = m.file_num
            DEF OffersOK, Answer, Indices
  <2>4. StreamOK'
    BY DEF IInv, Contents, StreamOK, Base
  <2> QED BY <2>1, <2>2, <2>3, <2>4 DEF Contents
<1>d. Owed'
  <2> USE DEF Popped, Grown, Indices, Has, ReaderOpen, Confirmed, WriterOpen, Waiting, Answer
  <2>1. SkipsOK'
    <3>1. \A i \in Indices(toReader') : toReader'[i] = c \/ ~Answer(toReader'[i])
      BY ONLY <1>0, <1>1, <1>5, <1>7 DEF Grown, Indices
    <3> QED BY ONLY <1>1, <1>2, <3>1, ~c.skip DEF SkipsOK, Indices, Answer
  <2>2. PassedOK'
    <3>1. ReaderAt' = ReaderAt /\ \A f : ~Coming(f)
      <4>1. \A f : ~Coming(f)
        BY <1>0, <1>1, <1>3 DEF Coming, LastBlock
      <4> QED BY <4>1 DEF ReaderAt
    <3>2. Excused \subseteq Excused' /\ \A f : Settled(f) => Settled(f)'
      BY DEF Excused, Settled, Arrived
    <3> QED BY <3>1, <3>2, FilesNat DEF IInv, Owed, PassedOK
  <2>3. PendingOK'
    BY FilesNat DEF IInv, Owed, PendingOK, ReaderAt, SendPending, Settled, Arrived,
       Excused, Coming
  <2>4. ErrorOK'
    BY FilesNat DEF IInv, Owed, ErrorOK, ReaderAt, SendPending, Settled, Arrived,
       Excused, Coming
  <2>5. OverOK'
    <3> HIDE DEF Indices, Popped, Grown
    <3> QED BY ONLY <1>2, <1>4, <1>8, c.type = "confirm" DEF OverOK
  <2> QED BY <2>1, <2>2, <2>3, <2>4, <2>5 DEF Owed
<1> QED BY <1>a, <1>b, <1>c, <1>d DEF IInv

\* ipc::FS::CheckDigest: the manager agrees to a file, or offers what it has of it.
LEMMA ManagerAnswersStep ==
  ASSUME IInv, toWriter # <<>>, NEW m, m = Head(toWriter), toWriter' = Tail(toWriter),
         m.type = "digest", direction = "upload", writer # NoJob,
         NEW c, c.type \in {"confirm", "digest"}, c.file_num = m.file_num,
         c.type = "confirm" => IsConfirm(c) /\ ~c.skip /\ c.offset = 0,
         c.type = "digest" /\ m.version # NoDigest /\ c.transferred # 0 /\ m.file_num \notin torn =>
           Holds(m.file_num, m.version, c.transferred),
         writer' = [writer EXCEPT !.digest = m.version], WriterSends(<<c>>),
         UNCHANGED <<disk, asked, status, skips, torn, failed>>,
         UNCHANGED <<source, reader, direction, strategy, saved, first, lost>>
  PROVE  IInv'
<1>0. /\ Len(toWriter) \in Nat /\ Len(toReader) \in Nat
      /\ reader # NoJob => reader.file_num \in Nat
      /\ writer # NoJob => writer.file_num \in Nat
  BY QueuesThere, ReaderThere, WriterThere
<1>3. Popped(toWriter, toWriter') /\ m = toWriter[1] /\ 1 \in Indices(toWriter)
  BY TakeHead, QueuesThere
<1>4. saved = NotSaved /\ status # "none" /\ ~SendPending /\ m.type \in ToWriterTypes /\ IsMessage(m)
  BY <1>0, <1>3 DEF IInv, Protocol, IdleOK, Idle, SendOK, SendPending, Indices, Shapes, MessagesOK
<1>5. reader # NoJob => asked = {} /\ \A i \in Indices(toReader) : ~Answer(toReader[i])
  <2>1. ~Waiting
    BY <1>0, <1>3 DEF IInv, Protocol, ReaderOK, Indices
  <2> QED BY <2>1 DEF IInv, Protocol, AnswersOK
<1>1. /\ m.file_num \in Files
      /\ reader # NoJob => /\ reader.file_num = m.file_num /\ m.version = source /\ m.version # NoDigest
                           /\ reader.stream # Closed /\ ~reader.file_confirmed
                           /\ Len(toWriter') = 0 /\ asked = {}
      /\ \A i \in Indices(toReader) : toReader[i].type # "send"
      /\ \A i \in Indices(toWriter') : toWriter'[i].type = "cancel"
  <2>1. m.file_num \in Files
    BY <1>4 DEF IsMessage
  <2>3. reader # NoJob =>
           /\ reader.file_num = m.file_num /\ m.version = source /\ 1 = Len(toWriter)
           /\ reader.stream # Closed /\ ~reader.file_confirmed
    BY <1>3 DEF IInv, Protocol, DigestOK
  <2>4. reader # NoJob => Len(toWriter') = 0
    BY ONLY <1>3, <2>3 DEF Popped, IsQueue
  <2>5. \A i \in Indices(toReader) : toReader[i].type # "send"
    BY DEF IInv, Shapes, MessagesOK
  <2>6. \A i \in Indices(toWriter') : toWriter'[i].type = "cancel"
    <3> TAKE i \in Indices(toWriter')
    <3>1. i + 1 \in Indices(toWriter) /\ toWriter'[i] = toWriter[i + 1] /\ 1 < i + 1
      BY <1>0, <1>3 DEF Popped, Indices
    <3>2. \A j \in Indices(toWriter) : 1 < j => toWriter[j].type = "cancel"
      BY <1>3 DEF IInv, Protocol, DigestOK
    <3> QED BY ONLY <3>1, <3>2
  <2>7. source # NoDigest
    BY DEF IInv, Shapes, NumbersOK
  <2> QED BY <1>5, <2>1, <2>3, <2>4, <2>5, <2>6, <2>7
<1>9. reader # NoJob => /\ writer.file_num <= reader.file_num
                        /\ writer.stream # Closed => writer.file_num < reader.file_num
  BY <1>0, <1>1, <1>5 DEF IInv, Protocol, WriterOK, WriterOpen, Answer
<1>2. /\ IsWriter(writer') /\ writer' # NoJob /\ writer'.file_num = writer.file_num
      /\ writer'.stream = writer.stream /\ writer'.into = writer.into /\ writer'.digest = m.version
  <2>1. PICK w : w = [writer EXCEPT !.digest = m.version]
                   /\ MadeWriter(w, writer.file_num, writer.stream, writer.into, m.version)
    BY WriterThere, WriterUpdates, Zenon
  <2> QED BY <2>1 DEF MadeWriter
<1>7. Grown(toReader, toReader', c)
  BY SendOne, QueuesThere DEF WriterSends
<1> USE <1>0, <1>1, <1>2, <1>3, <1>4, <1>5, <1>9, <1>7
<1>a. Shapes'
  <2>1. JobsOK'
    BY DEF IInv, Shapes, JobsOK, Grown, Popped
  <2>2. MessagesOK'
    <3>1. \A i \in Indices(toReader') : toReader'[i] = c \/ \E j \in Indices(toReader) :
            toReader'[i] = toReader[j]
      BY ONLY <1>0, <1>7 DEF Grown, Indices
    <3>2. \A i \in Indices(toWriter') : \E j \in Indices(toWriter) : toWriter'[i] = toWriter[j]
      BY ONLY <1>0, <1>3 DEF Popped, Indices
    <3>3. IsMessage(c) /\ c.type \in {"confirm", "digest"}
      BY DEF IsMessage
    <3> QED BY ONLY <3>1, <3>2, <3>3, IInv, direction = "upload", UNCHANGED direction
            DEF IInv, Shapes, MessagesOK, ToReaderTypes
  <2>3. NumbersOK'
    BY DEF IInv, Shapes, NumbersOK
  <2> QED BY <2>1, <2>2, <2>3 DEF Shapes
<1>b. Protocol'
  <2> USE DEF Popped, Grown, Indices, Has, ReaderOpen, Confirmed, WriterOpen, Waiting, Answer
  <2>1. IdleOK'
    BY DEF IInv, Protocol, IdleOK, Idle
  <2>2. ReceiveOK'
    BY DEF IInv, Protocol, ReceiveOK
  <2>3. SendOK'
    BY DEF IInv, Protocol, SendOK
  <2>4. DigestOK'
    BY DigestPopped
  <2>5. AnswersOK'
    <3> HIDE DEF Grown, Popped, Waiting
    <3>1. \A i \in Indices(toReader') : reader # NoJob /\ Answer(toReader'[i]) =>
             i = Len(toReader) + 1 /\ toReader'[i] = c
      BY ONLY <1>0, <1>5, <1>7 DEF Grown, Indices
    <3>2. reader # NoJob => c.file_num = reader.file_num /\ asked = {} /\ Waiting'
      <4>1. reader # NoJob => Indices(toWriter') = {}
        BY ONLY <1>1 DEF Indices
      <4> HIDE DEF Indices
      <4> QED BY ONLY <1>1, <4>1, c.file_num = m.file_num, UNCHANGED reader DEF Waiting, Has
    <3>3. UNCHANGED <<reader, asked, direction>> /\ direction # "download"
      OBVIOUS
    <3> HIDE DEF Indices, Answer, Has
    <3> QED BY ONLY <3>1, <3>2, <3>3 DEF AnswersOK
  <2>6. ReaderOK'
    BY ReaderPopped
  <2>7. BlocksOK'
    BY DEF IInv, Protocol, BlocksOK
  <2>8. ConfirmOK'
    BY DEF IInv, Protocol, ConfirmOK
  <2>9. WriterOK'
    BY DEF IInv, Protocol, WriterOK, Deserted, Answer
  <2>10. EndOK'
    <3>1. /\ Has(toReader, "done")' => Has(toReader, "done")
          /\ Has(toReader, "cancel")' => Has(toReader, "cancel")
          /\ Has(toWriter, "done")' => Has(toWriter, "done")
          /\ Has(toWriter, "cancel")' => Has(toWriter, "cancel")
      <4>1. /\ Has(toReader, "done")' => Has(toReader, "done")
            /\ Has(toReader, "cancel")' => Has(toReader, "cancel")
        BY ONLY <1>0, <1>7, c.type \in {"confirm", "digest"} DEF Grown, Indices, Has
      <4>2. /\ Has(toWriter, "done")' => Has(toWriter, "done")
            /\ Has(toWriter, "cancel")' => Has(toWriter, "cancel")
        BY ONLY <1>0, <1>3 DEF Popped, Indices, Has
      <4> QED BY <4>1, <4>2
    <3> HIDE DEF Has, Grown, Popped, Indices
    <3> QED BY ONLY IInv, <3>1, writer # NoJob, UNCHANGED <<reader, skips>> DEF IInv, Protocol, EndOK
  <2> QED BY <2>1, <2>2, <2>3, <2>4, <2>5, <2>6, <2>7, <2>8, <2>9, <2>10 DEF Protocol
<1>c. Contents'
  <2> USE DEF Popped, Grown, Indices, Has, ReaderOpen, Confirmed, WriterOpen, Waiting, Answer
  <2>1. PartsOK'
    BY DEF IInv, Contents, PartsOK, Holds
  <2>2. OpenOK'
    BY DEF IInv, Contents, OpenOK, Holds
  <2>3. OffersOK'
    BY DEF IInv, Contents, OffersOK, Holds
  <2>4. StreamOK'
    BY DEF IInv, Contents, StreamOK, Base
  <2> QED BY <2>1, <2>2, <2>3, <2>4 DEF Contents
<1>d. Owed'
  <2> USE DEF Popped, Grown, Indices, Has, ReaderOpen, Confirmed, WriterOpen, Waiting, Answer
  <2>1. SkipsOK'
    <3>1. \A i \in Indices(toReader') : toReader'[i] = c \/ \E j \in Indices(toReader) :
            toReader'[i] = toReader[j]
      BY ONLY <1>0, <1>7 DEF Grown, Indices
    <3>2. c.type = "confirm" => ~c.skip
      OBVIOUS
    <3>3. \A i \in Indices(toReader) : toReader[i].type = "confirm" /\ toReader[i].skip =>
            toReader[i].file_num \in skips
      BY DEF IInv, Owed, SkipsOK
    <3> QED BY ONLY <1>1, <3>1, <3>2, <3>3, UNCHANGED skips DEF SkipsOK
  <2>2. PassedOK'
    <3>1. ReaderAt' = ReaderAt /\ \A f : ~Coming(f)
      <4>1. \A f : ~Coming(f)
        <5> SUFFICES ASSUME NEW i \in Indices(toWriter), toWriter[i].type = "block" PROVE FALSE
          BY DEF Coming, LastBlock
        <5>1. i # 1 /\ i - 1 \in Indices(toWriter') /\ toWriter'[i - 1] = toWriter[i]
          BY ONLY <1>0, <1>3, toWriter[i].type = "block", m.type = "digest",
                  i \in Indices(toWriter) DEF Popped, Indices, IsQueue
        <5> QED BY <5>1
      <4> QED BY <4>1 DEF ReaderAt, SendPending
    <3>2. \A f : Settled(f) => Settled(f)'
      BY DEF Excused, Settled, Arrived
    <3> QED BY <3>1, <3>2, FilesNat DEF IInv, Owed, PassedOK, Excused
  <2>3. PendingOK'
    BY FilesNat DEF IInv, Owed, PendingOK, ReaderAt, SendPending, Settled, Arrived,
       Excused, Coming
  <2>4. ErrorOK'
    BY FilesNat DEF IInv, Owed, ErrorOK, ReaderAt, SendPending, Settled, Arrived,
       Excused, Coming
  <2>5. OverOK'
    BY DEF IInv, Protocol, EndOK, OverOK
  <2> QED BY <2>1, <2>2, <2>3, <2>4, <2>5 DEF Owed
<1> QED BY <1>a, <1>b, <1>c, <1>d DEF IInv

\* ipc::FS::CheckDigest: the manager cannot look at what is there, and says so.
LEMMA ManagerFailsStep ==
  ASSUME IInv, toWriter # <<>>, NEW m, m = Head(toWriter), toWriter' = Tail(toWriter),
         m.type = "digest", direction = "upload", writer # NoJob,
         WriterSends(<<[type |-> "error"]>>),
         UNCHANGED <<writer, disk, asked, status, skips, torn, failed>>,
         UNCHANGED <<source, reader, direction, strategy, saved, first, lost>>
  PROVE  IInv'
<1>0. /\ Len(toWriter) \in Nat /\ Len(toReader) \in Nat
      /\ reader # NoJob => reader.file_num \in Nat
      /\ writer # NoJob => writer.file_num \in Nat
  BY QueuesThere, ReaderThere, WriterThere
<1>3. Popped(toWriter, toWriter') /\ m = toWriter[1] /\ 1 \in Indices(toWriter)
  BY TakeHead, QueuesThere
<1>4. saved = NotSaved /\ status # "none" /\ ~SendPending /\ m.type \in ToWriterTypes /\ IsMessage(m)
  BY <1>0, <1>3 DEF IInv, Protocol, IdleOK, Idle, SendOK, SendPending, Indices, Shapes, MessagesOK
<1>5. reader # NoJob => asked = {} /\ \A i \in Indices(toReader) : ~Answer(toReader[i])
  <2>1. ~Waiting
    BY <1>0, <1>3 DEF IInv, Protocol, ReaderOK, Indices
  <2> QED BY <2>1 DEF IInv, Protocol, AnswersOK
<1>1. /\ m.file_num \in Files
      /\ reader # NoJob => /\ reader.file_num = m.file_num /\ m.version = source
                           /\ reader.stream # Closed /\ ~reader.file_confirmed
                           /\ Len(toWriter') = 0 /\ asked = {}
      /\ \A i \in Indices(toReader) : toReader[i].type # "send"
      /\ \A i \in Indices(toWriter') : toWriter'[i].type = "cancel"
  <2>1. m.file_num \in Files
    BY <1>4 DEF IsMessage
  <2>3. reader # NoJob =>
           /\ reader.file_num = m.file_num /\ m.version = source /\ 1 = Len(toWriter)
           /\ reader.stream # Closed /\ ~reader.file_confirmed
    BY <1>3 DEF IInv, Protocol, DigestOK
  <2>4. reader # NoJob => Len(toWriter') = 0
    BY ONLY <1>3, <2>3 DEF Popped, IsQueue
  <2>5. \A i \in Indices(toReader) : toReader[i].type # "send"
    BY DEF IInv, Shapes, MessagesOK
  <2>6. \A i \in Indices(toWriter') : toWriter'[i].type = "cancel"
    <3> TAKE i \in Indices(toWriter')
    <3>1. i + 1 \in Indices(toWriter) /\ toWriter'[i] = toWriter[i + 1] /\ 1 < i + 1
      BY <1>0, <1>3 DEF Popped, Indices
    <3>2. \A j \in Indices(toWriter) : 1 < j => toWriter[j].type = "cancel"
      BY <1>3 DEF IInv, Protocol, DigestOK
    <3> QED BY ONLY <3>1, <3>2
  <2> QED BY <1>5, <2>1, <2>3, <2>4, <2>5, <2>6
<1>9. reader # NoJob => /\ writer.file_num <= reader.file_num
                        /\ writer.stream # Closed => writer.file_num < reader.file_num
  BY <1>0, <1>1, <1>5 DEF IInv, Protocol, WriterOK, WriterOpen, Answer
<1>7. PICK c : c = [type |-> "error"] /\ c.type = "error" /\ Grown(toReader, toReader', c)
  BY SendOne, QueuesThere DEF WriterSends
<1>8. /\ \A i \in Indices(toReader') : toReader'[i].type = "error" \/ \E j \in Indices(toReader) :
           toReader'[i] = toReader[j]
      /\ IsQueue(toReader') /\ Len(toReader') \in Nat
      /\ ~SendPending' /\ \A i \in Indices(toReader') : toReader'[i].type # "send"
  <2>1. \A i \in Indices(toReader') : toReader'[i] = c \/ \E j \in Indices(toReader) :
          toReader'[i] = toReader[j]
    BY ONLY <1>0, <1>7 DEF Grown, Indices
  <2>2. IsQueue(toReader') /\ Len(toReader') \in Nat
    BY ONLY <1>7 DEF Grown, IsQueue
  <2>3. \A i \in Indices(toReader') : toReader'[i].type # "send"
    BY ONLY <1>1, <1>7, <2>1
  <2> QED BY ONLY <1>7, <2>1, <2>2, <2>3 DEF SendPending, Indices
<1>h. /\ \A u : Has(toWriter, u)' => Has(toWriter, u)
      /\ \A u : u # "error" /\ Has(toReader, u)' => Has(toReader, u)
  <2>1. \A i \in Indices(toWriter') : \E j \in Indices(toWriter) : toWriter'[i] = toWriter[j]
    BY ONLY <1>0, <1>3 DEF Popped, Indices
  <2> QED BY ONLY <1>8, <2>1 DEF Has
<1> USE <1>0, <1>1, <1>3, <1>4, <1>5, <1>8, <1>9
<1>a. Shapes'
  <2>1. JobsOK'
    BY DEF IInv, Shapes, JobsOK, Popped
  <2>2. MessagesOK'
    <3>1. \A i \in Indices(toWriter') : \E j \in Indices(toWriter) : toWriter'[i] = toWriter[j]
      BY ONLY <1>0, <1>3 DEF Popped, Indices
    <3>2. direction # "download"
      OBVIOUS
    <3> QED BY ONLY <1>8, <3>1, <3>2, IInv, UNCHANGED direction
            DEF IInv, Shapes, MessagesOK, ToReaderTypes, IsMessage
  <2>3. NumbersOK'
    BY DEF IInv, Shapes, NumbersOK
  <2> QED BY <2>1, <2>2, <2>3 DEF Shapes
<1>b. Protocol'
  <2> USE DEF Popped, Indices, Has, ReaderOpen, Confirmed, WriterOpen, Waiting, Answer
  <2>1. IdleOK'
    BY DEF IInv, Protocol, IdleOK, Idle
  <2>2. ReceiveOK'
    BY DEF IInv, Protocol, ReceiveOK
  <2>3. SendOK'
    BY DEF IInv, Protocol, SendOK
  <2>4. DigestOK'
    BY DigestPopped
  <2>5. AnswersOK'
    BY DEF IInv, Protocol, AnswersOK, Answer
  <2>6. ReaderOK'
    BY ReaderPopped
  <2>7. BlocksOK'
    BY DEF IInv, Protocol, BlocksOK
  <2>8. ConfirmOK'
    BY DEF IInv, Protocol, ConfirmOK
  <2>9. WriterOK'
    BY DEF IInv, Protocol, WriterOK, Deserted, Answer
  <2>10. EndOK'
    <3> HIDE DEF Has, Indices, Popped
    <3> QED BY ONLY IInv, <1>h, writer # NoJob, UNCHANGED <<reader, writer, skips>> DEF IInv,
        Protocol, EndOK
  <2> QED BY <2>1, <2>2, <2>3, <2>4, <2>5, <2>6, <2>7, <2>8, <2>9, <2>10 DEF Protocol
<1>c. Contents'
  <2> USE DEF Popped, Indices, Has, ReaderOpen, Confirmed, WriterOpen, Waiting, Answer
  <2>1. PartsOK'
    BY DEF IInv, Contents, PartsOK, Holds
  <2>2. OpenOK'
    BY DEF IInv, Contents, OpenOK, Holds
  <2>3. OffersOK'
    BY DEF IInv, Contents, OffersOK, Holds
  <2>4. StreamOK'
    BY DEF IInv, Contents, StreamOK, Base
  <2> QED BY <2>1, <2>2, <2>3, <2>4 DEF Contents
<1>d. Owed'
  <2> USE DEF Popped, Indices, Has, ReaderOpen, Confirmed, WriterOpen, Waiting, Answer
  <2>1. SkipsOK'
    <3> HIDE DEF Has, Popped
    <3> QED BY ONLY <1>1, <1>8, IInv, UNCHANGED skips DEF IInv, Owed, SkipsOK
  <2>2. PassedOK'
    <3>1. ReaderAt' = ReaderAt /\ \A f : ~Coming(f)
      <4>1. \A f : ~Coming(f)
        <5> SUFFICES ASSUME NEW i \in Indices(toWriter), toWriter[i].type = "block" PROVE FALSE
          BY DEF Coming, LastBlock
        <5>1. i # 1 /\ i - 1 \in Indices(toWriter') /\ toWriter'[i - 1] = toWriter[i]
          BY ONLY <1>0, <1>3, toWriter[i].type = "block", m.type = "digest",
                  i \in Indices(toWriter) DEF Popped, Indices, IsQueue
        <5> QED BY <5>1
      <4> QED BY <4>1 DEF ReaderAt, SendPending
    <3>2. \A f : Settled(f) => Settled(f)'
      BY DEF Excused, Settled, Arrived
    <3> QED BY <3>1, <3>2, FilesNat DEF IInv, Owed, PassedOK, Excused
  <2>3. PendingOK'
    BY FilesNat DEF IInv, Owed, PendingOK, ReaderAt, SendPending, Settled, Arrived,
       Excused, Coming
  <2>4. ErrorOK'
    BY FilesNat DEF IInv, Owed, ErrorOK, ReaderAt, SendPending, Settled, Arrived,
       Excused, Coming
  <2>5. OverOK'
    BY <1>h DEF IInv, Protocol, EndOK, OverOK
  <2> QED BY <2>1, <2>2, <2>3, <2>4, <2>5 DEF Owed
<1> QED BY <1>a, <1>b, <1>c, <1>d DEF IInv

\* What TransferJob::write leaves of a block m of file f: the writer is at file k with the
\* stream s, opened as t, and c is the message for a block that could not be written.
BlockTaken(m, f, k, s, t, c) ==
  /\ toWriter # <<>> /\ m = Head(toWriter) /\ toWriter' = Tail(toWriter)
  /\ m.type = "block" /\ writer # NoJob /\ f = m.file_num
  /\ IsDisk(disk') /\ MadeWriter(writer', k, s, t, writer.digest) /\ k \in {f, writer.file_num}
  /\ s # Closed => k \in Files /\ (t # k => t \in torn') /\ (k # f => k \in torn')
  /\ torn \subseteq torn' /\ torn' \subseteq Files /\ failed \subseteq failed'
  /\ failed' \subseteq Files
  /\ \A g \in Files : g # f /\ g \notin torn' /\ disk'[g].download # Absent =>
       disk'[g].download = disk[g].download /\ disk'[g].digest \in {NoDigest, disk[g].digest}
  /\ f \notin torn' => /\ k = f /\ s # Closed /\ t = f /\ s.pos \in Nat /\ s.pos <= Size[f]
                       /\ disk'[f].digest \in {source, NoDigest}
                       /\ disk'[f].download = Part(source, s.pos)
                       /\ m.data # <<>> => s.pos = Base(f) + 1
                       /\ m.data = <<>> => s.pos = Size[f]
  /\ \A g \in Files : /\ disk'[g].name # disk[g].name => Settled(g)'
                      /\ g < f => Settled(g)'
                      /\ g < f /\ g >= k => g \in Excused'
  /\ c.type = "error"
  /\ toReader' = toReader \/ (direction = "upload" /\ Grown(toReader, toReader', c))
  /\ UNCHANGED <<asked, status, skips>>
  /\ UNCHANGED <<source, reader, direction, strategy, saved, first, lost>>

\* TransferJob::write for a block, by what it does to the disk and to the writer.
LEMMA BlockTakenStep ==
  ASSUME IInv, NEW m, NEW f, NEW k, NEW s, NEW t, NEW c, BlockTaken(m, f, k, s, t, c)
  PROVE  IInv'
<1> USE DEF BlockTaken
<1>0. /\ Len(toWriter) \in Nat /\ Len(toReader) \in Nat
      /\ reader # NoJob => reader.file_num \in Nat
      /\ writer # NoJob => writer.file_num \in Nat
  BY QueuesThere, ReaderThere, WriterThere
<1>3. Popped(toWriter, toWriter') /\ m = toWriter[1] /\ 1 \in Indices(toWriter)
  BY TakeHead, QueuesThere
<1>4. saved = NotSaved /\ status # "none" /\ ~SendPending /\ m.type \in ToWriterTypes /\ IsMessage(m)
  BY <1>0, <1>3 DEF IInv, Protocol, IdleOK, Idle, SendOK, SendPending, Indices, Shapes, MessagesOK
<1>5. reader # NoJob => asked = {} /\ \A i \in Indices(toReader) : ~Answer(toReader[i])
  <2>1. ~Waiting
    BY <1>0, <1>3 DEF IInv, Protocol, ReaderOK, Indices
  <2> QED BY <2>1 DEF IInv, Protocol, AnswersOK
<1>1. /\ f \in Files /\ f \in Nat /\ Size[f] \in Nat /\ writer.file_num <= f /\ writer.digest = source
      /\ reader # NoJob => f <= reader.file_num
      /\ reader # NoJob /\ ~reader.file_confirmed => f < reader.file_num
      /\ Confirmed => f = reader.file_num /\ m.data # <<>>
      /\ \A i \in Indices(toWriter') :
           /\ toWriter'[i].type \notin {"confirm", "receive"}
           /\ toWriter'[i].type = "block" => toWriter'[i].file_num = f /\ m.data # <<>>
  <2>1. f \in Files /\ f \in Nat /\ Size[f] \in Nat
    BY <1>4, FilesNat, QueuesThere DEF IsMessage
  <2>2. writer.file_num <= f /\ writer.digest = source
    BY <1>3 DEF IInv, Protocol, BlocksOK
  <2>3. reader # NoJob /\ ~reader.file_confirmed => f < reader.file_num
    BY <1>3 DEF IInv, Protocol, BlocksOK
  <2>4. Confirmed => f = reader.file_num /\ m.data # <<>>
    BY <1>3 DEF IInv, Protocol, ReaderOK
  <2>5. ASSUME NEW i \in Indices(toWriter')
        PROVE  /\ toWriter'[i].type \notin {"confirm", "receive"}
               /\ toWriter'[i].type = "block" => toWriter'[i].file_num = f /\ m.data # <<>>
    <3>1. i + 1 \in Indices(toWriter) /\ toWriter'[i] = toWriter[i + 1] /\ i \in Nat /\ i + 1 # 1
            /\ 1 < i + 1
      BY <1>0, <1>3 DEF Popped, Indices
    <3>2. toWriter'[i].type # "confirm"
      BY <3>1 DEF IInv, Protocol, ConfirmOK
    <3>3. toWriter'[i].type # "receive"
      BY <3>1 DEF IInv, Protocol, ReceiveOK
    <3>4. toWriter'[i].type = "block" => toWriter'[i].file_num = f /\ m.data # <<>>
      <4>1. toWriter[1].type = "block" /\ toWriter[1].data = m.data /\ toWriter[1].file_num = f
        BY <1>3
      <4>2. /\ toWriter[i + 1].type \in {"block", "confirm"} =>
                 toWriter[i + 1].file_num = toWriter[1].file_num
            /\ toWriter[1].data = <<>> /\ 1 < i + 1 => toWriter[i + 1].type # "block"
        BY ONLY <1>3, <3>1, <4>1, IInv DEF IInv, Protocol, BlocksOK
      <4> QED BY ONLY <3>1, <4>1, <4>2
    <3> QED BY <3>2, <3>3, <3>4
  <2>6. reader # NoJob => f <= reader.file_num
    BY <1>0, <2>1, <2>3, <2>4, ReaderThere DEF Confirmed
  <2> QED BY <2>1, <2>2, <2>3, <2>4, <2>5, <2>6
<1>2. /\ IsWriter(writer') /\ writer' # NoJob /\ writer'.file_num = k /\ writer'.stream = s
      /\ writer'.into = t /\ writer'.digest = source /\ k <= f /\ k \in Nat
  BY <1>0, <1>1 DEF MadeWriter
<1>7. /\ \A i \in Indices(toReader') : toReader'[i].type = "error" \/ \E j \in Indices(toReader) :
           toReader'[i] = toReader[j]
      /\ Len(toReader') \in Nat /\ ~SendPending' /\ IsQueue(toReader')
           /\ (direction = "upload" \/ toReader' = toReader)
      /\ \A i \in Indices(toReader') : toReader'[i].type # "send"
  <2>1. CASE toReader' = toReader
    <3>1. \A i \in Indices(toReader) : toReader[i].type # "send"
      BY <1>0, <1>3 DEF IInv, Protocol, SendOK, Indices
    <3> QED BY <1>0, <1>4, <2>1, <3>1, QueuesThere DEF SendPending
  <2>2. CASE direction = "upload" /\ Grown(toReader, toReader', c)
    <3>1. \A i \in Indices(toReader') : toReader'[i] = c \/ \E j \in Indices(toReader) :
            toReader'[i] = toReader[j]
      BY ONLY <1>0, <2>2 DEF Grown, Indices
    <3>2. \A i \in Indices(toReader) : toReader[i].type # "send"
      BY <2>2 DEF IInv, Shapes, MessagesOK
    <3>3. IsQueue(toReader') /\ Len(toReader') \in Nat
      BY <2>2 DEF Grown, IsQueue
    <3>4. ~SendPending'
      BY ONLY <3>1, <3>2, <3>3, c.type = "error" DEF SendPending, Indices
    <3> QED BY ONLY <2>2, <3>1, <3>2, <3>3, <3>4, c.type = "error"
  <2> QED BY <2>1, <2>2
<1>8. /\ ReaderAt' = ReaderAt /\ Excused \subseteq Excused'
      /\ \A g \in Files : Settled(g) => Settled(g)'
  <2>1. Excused \subseteq Excused'
    BY DEF Excused
  <2>2. ReaderAt' = ReaderAt
    BY <1>4, <1>7 DEF ReaderAt
  <2>3. ASSUME NEW g \in Files, Settled(g) PROVE Settled(g)'
    <3>1. CASE disk'[g].name = disk[g].name
      BY <2>1, <2>3, <3>1 DEF Settled, Arrived
    <3>2. CASE disk'[g].name # disk[g].name
      BY <3>2
    <3> QED BY <3>1, <3>2
  <2> QED BY <2>1, <2>2, <2>3
<1>9. f \notin torn' => Base(f)' = s.pos
  <2>1. Len(toWriter') > 0 => toWriter'[1].type # "confirm"
    <3>1. Len(toWriter') > 0 => 1 \in Indices(toWriter')
      BY ONLY <1>3 DEF Popped, IsQueue, Indices
    <3> QED BY <1>1, <3>1
  <2> QED BY <1>2, <2>1 DEF Base
<1>h. /\ \A u : Has(toWriter, u)' => Has(toWriter, u)
      /\ \A u : u # "error" /\ Has(toReader, u)' => Has(toReader, u)
  <2>1. \A i \in Indices(toWriter') : \E j \in Indices(toWriter) : toWriter'[i] = toWriter[j]
    BY ONLY <1>0, <1>3 DEF Popped, Indices
  <2> QED BY ONLY <1>7, <2>1 DEF Has
<1> USE <1>0, <1>1, <1>2, <1>3, <1>4, <1>5, <1>7, <1>8, <1>9, <1>h
<1>a. Shapes'
  <2>1. JobsOK'
    BY DEF IInv, Shapes, JobsOK, Grown, Popped
  <2>2. MessagesOK'
    <3>1. \A i \in Indices(toWriter') : \E j \in Indices(toWriter) : toWriter'[i] = toWriter[j]
      BY ONLY <1>0, <1>3 DEF Popped, Indices
    <3>2. \A i \in Indices(toReader') :
            \/ toReader'[i].type = "error" /\ direction # "download"
            \/ \E j \in Indices(toReader) : toReader'[i] = toReader[j]
      <4>1. direction = "upload" => direction # "download"
        OBVIOUS
      <4> QED BY ONLY <1>7, <4>1
    <3> QED BY ONLY <3>1, <3>2, IInv, UNCHANGED direction
            DEF IInv, Shapes, MessagesOK, ToReaderTypes, IsMessage
  <2>3. NumbersOK'
    BY DEF IInv, Shapes, NumbersOK
  <2> QED BY <2>1, <2>2, <2>3 DEF Shapes
<1>b. Protocol'
  <2> USE DEF Popped, Grown, Indices, Has, ReaderOpen, Confirmed, WriterOpen, Waiting, Answer
  <2>1. IdleOK'
    BY DEF IInv, Protocol, IdleOK, Idle
  <2>2. ReceiveOK'
    BY DEF IInv, Protocol, ReceiveOK
  <2>3. SendOK'
    BY DEF IInv, Protocol, SendOK
  <2>4. DigestOK'
    BY DigestPopped
  <2>5. AnswersOK'
    BY DEF IInv, Protocol, AnswersOK, Answer
  <2>6. ReaderOK'
    BY ReaderPopped
  <2>7. BlocksOK'
    <3>1. ASSUME NEW i \in Indices(toWriter'), NEW j \in Indices(toWriter'), toWriter'[i].type = "block"
          PROVE  /\ j < i => toWriter'[j].type = "block"
                 /\ toWriter'[i].data = <<>> /\ i < j => toWriter'[j].type # "block"
      <4>1. /\ i + 1 \in Indices(toWriter) /\ toWriter'[i] = toWriter[i + 1]
            /\ j + 1 \in Indices(toWriter) /\ toWriter'[j] = toWriter[j + 1]
            /\ i \in Nat /\ j \in Nat /\ j + 1 # 1
        BY ONLY <1>0, <1>3, i \in Indices(toWriter'), j \in Indices(toWriter') DEF Popped, Indices
      <4>2. /\ j + 1 < i + 1 => toWriter[j + 1].type = "block"
            /\ toWriter[i + 1].data = <<>> /\ i + 1 < j + 1 => toWriter[j + 1].type # "block"
        BY ONLY IInv, <3>1, <4>1 DEF IInv, Protocol, BlocksOK
      <4> QED BY ONLY <4>1, <4>2
    <3> HIDE DEF Has, Indices, Popped, Grown
    <3> QED BY ONLY <1>1, <1>2, <3>1, UNCHANGED <<reader, source>> DEF BlocksOK
  <2>8. ConfirmOK'
    BY DEF IInv, Protocol, ConfirmOK
  <2>9. WriterOK'
    BY DEF IInv, Protocol, WriterOK, Deserted, Answer
  <2>10. EndOK'
    <3> HIDE DEF Has, Indices, Popped, Grown
    <3> QED BY ONLY IInv, <1>h, writer # NoJob, UNCHANGED <<reader, skips>> DEF IInv, Protocol, EndOK
  <2> QED BY <2>1, <2>2, <2>3, <2>4, <2>5, <2>6, <2>7, <2>8, <2>9, <2>10 DEF Protocol
<1>c. Contents'
  <2> USE DEF Popped, Grown, Indices, Has, ReaderOpen, Confirmed, WriterOpen, Waiting, Answer
  <2>1. PartsOK'
    BY DEF IInv, Contents, PartsOK, Holds
  <2>2. OpenOK'
    BY DEF IInv, Contents, OpenOK, Holds
  <2>3. OffersOK'
    <3>1. reader # NoJob => \A i \in Indices(toReader') : toReader'[i].type \notin {"digest", "confirm"}
      BY ONLY <1>5, <1>7 DEF Answer
    <3> HIDE DEF Has, Indices, Popped, Grown
    <3> QED BY ONLY <1>1, <3>1, UNCHANGED reader DEF OffersOK
  <2>4. StreamOK'
    <3>1. f \notin torn' /\ m.data # <<>> => Base(f)' = Base(f) + 1 /\ Base(f) \in Int
      <4> SUFFICES ASSUME f \notin torn', m.data # <<>> PROVE Base(f) \in Int
        OBVIOUS
      <4> QED BY <1>3, BaseNumber
    <3>2. ASSUME NEW i \in Indices(toWriter'), toWriter'[i].type = "block",
                 toWriter'[i].file_num \notin torn'
          PROVE  (/\ toWriter[i].data # <<>> =>
                       /\ toWriter[i].data = << <<source, Base(toWriter[i].file_num) + i>> >>
                       /\ Base(toWriter[i].file_num) + i <= Size[toWriter[i].file_num]
                  /\ toWriter[i].data = <<>> =>
                       Base(toWriter[i].file_num) + i = Size[toWriter[i].file_num] + 1)'
      <4>1. f = toWriter'[i].file_num /\ m.data # <<>> /\ f \notin torn
        BY <3>2
      <4>2. i + 1 \in Indices(toWriter) /\ toWriter[i + 1] = toWriter'[i] /\ i \in Nat
        BY <1>0, <1>3
      <4>4. Base(f)' = Base(f) + 1 /\ Base(f) \in Int
        BY <3>1, <3>2, <4>1
      <4>5. /\ toWriter'[i].data # <<>> => /\ toWriter'[i].data = << <<source, Base(f) + (i + 1)>> >>
                                           /\ Base(f) + (i + 1) <= Size[f]
            /\ toWriter'[i].data = <<>> => Base(f) + (i + 1) = Size[f] + 1
        BY ONLY IInv, writer # NoJob, <3>2, <4>1, <4>2 DEF IInv, Contents, StreamOK
      <4>6. Base(f) + (i + 1) = Base(f)' + i
        BY ONLY <4>2, <4>4
      <4> QED BY ONLY <4>1, <4>5, <4>6, UNCHANGED source
    <3>3. ASSUME Confirmed, reader.file_num \notin torn'
          PROVE  /\ reader.stream.pos = Base(reader.file_num)' + Len(toWriter')
                 /\ reader.stream.pos <= Size[reader.file_num]
      <4>1. f = reader.file_num /\ m.data # <<>> /\ f \notin torn' /\ f \notin torn
        BY <3>3
      <4>3. Base(f)' = Base(f) + 1 /\ Base(f) \in Int
        BY <3>1, <4>1
      <4>4. reader.stream.pos = Base(f) + Len(toWriter) /\ reader.stream.pos <= Size[f]
        BY ONLY IInv, writer # NoJob, <3>3, <4>1 DEF IInv, Contents, StreamOK
      <4>5. Len(toWriter) = Len(toWriter') + 1 /\ Len(toWriter') \in Nat
        BY ONLY <1>3 DEF Popped, IsQueue
      <4> QED BY ONLY <4>1, <4>3, <4>4, <4>5, UNCHANGED reader
    <3> QED BY <3>2, <3>3 DEF StreamOK
  <2> QED BY <2>1, <2>2, <2>3, <2>4 DEF Contents
<1>d. Owed'
  <2> USE DEF Popped, Grown, Indices, Has, ReaderOpen, Confirmed, WriterOpen, Waiting, Answer
  <2>1. SkipsOK'
    <3> HIDE DEF Has, Indices, Popped, Grown
    <3> QED BY ONLY <1>1, <1>7, IInv, UNCHANGED skips DEF IInv, Owed, SkipsOK
  <2>2. PassedOK'
    <3> SUFFICES ASSUME NEW g \in Files
                 PROVE  /\ g < k => Settled(g)'
                        /\ g < ReaderAt /\ g >= k =>
                             \/ g \in Excused' \/ Coming(g)'
                             \/ g = k /\ s # Closed /\ s.pos = Size[g]
      BY <1>2, <1>8 DEF PassedOK
    <3>0. g \in Nat
      BY FilesNat
    <3>1. ASSUME g < ReaderAt, g >= f, g \notin Excused'
          PROVE  Coming(g)' \/ (g = k /\ s # Closed /\ s.pos = Size[g])
      <4>1. g >= writer.file_num /\ g \notin Excused
        BY <1>0, <1>1, <1>8, <3>1, FilesNat
      <4>2. \/ Coming(g)
            \/ g = writer.file_num /\ writer.stream # Closed /\ writer.stream.pos = Size[g]
        BY <3>1, <4>1 DEF IInv, Owed, PassedOK
      <4>3. CASE Coming(g)
        <5>1. Coming(g)' \/ LastBlock(m, g)
          BY <1>3, <4>3, ComingPopped
        <5>2. f \notin torn' \/ g # f
          BY <3>1 DEF Excused
        <5>3. LastBlock(m, g) => g = f /\ m.data = <<>>
          BY DEF LastBlock
        <5> QED BY <5>1, <5>2, <5>3
      <4>4. CASE g = writer.file_num /\ writer.stream # Closed /\ writer.stream.pos = Size[g]
        <5>1. g = f /\ f \notin torn'
          BY <1>0, <1>1, <3>1, <4>4, FilesNat DEF Excused
        <5>2. toWriter[1].type # "confirm"
          BY <1>3
        <5>3. Base(f) = Size[f]
          BY <4>4, <5>1, <5>2 DEF Base
        <5> QED BY <1>1, <5>1, <5>3
      <4> QED BY <4>2, <4>3, <4>4
    <3> QED BY <1>1, <1>2, <3>0, <3>1
  <2>3. PendingOK'
    BY FilesNat DEF IInv, Owed, PendingOK, ReaderAt, SendPending, Settled, Arrived,
       Excused, Coming
  <2>4. ErrorOK'
    BY FilesNat DEF IInv, Owed, ErrorOK, ReaderAt, SendPending, Settled, Arrived,
       Excused, Coming
  <2>5. OverOK'
    <3> HIDE DEF Has, Indices, Popped, Grown
    <3>1. ~Has(toReader, "done")'
      BY ONLY IInv, <1>h, writer # NoJob DEF IInv, Protocol, EndOK
    <3> QED BY ONLY <1>2, <1>4, <3>1, UNCHANGED saved DEF OverOK
  <2> QED BY <2>1, <2>2, <2>3, <2>4, <2>5 DEF Owed
<1> QED BY <1>a, <1>b, <1>c, <1>d DEF IInv

\* TransferJob::write for the first block of a file: what had been passed gets its name,
\* and the file before this one only its own content.
LEMMA FileOpened ==
  ASSUME IInv, NEW m, m = toWriter[1], 1 \in Indices(toWriter), m.type = "block", writer # NoJob,
         NEW f \in Files, f = m.file_num, ~(f = writer.file_num /\ writer.stream # Closed),
         NEW renamed, NEW removed, NEW e, e = modify_time(disk, writer, renamed, removed),
         torn \subseteq torn', Leftover(writer, renamed) \subseteq torn',
         failed' = failed \cup Unnamed(writer, renamed),
         \A g \in Files : disk'[g].name = e[g].name /\ (g # f => disk'[g] = e[g]),
         UNCHANGED <<skips, lost, first, source>>
  PROVE  /\ \A g \in Files : g # f /\ g \notin torn' /\ disk'[g].download # Absent =>
              disk'[g].download = disk[g].download /\ disk'[g].digest \in {NoDigest, disk[g].digest}
         /\ \A g \in Files : /\ disk'[g].name # disk[g].name => Settled(g)'
                             /\ g < f => Settled(g)'
                             /\ g < f /\ g >= writer.file_num => g \in Excused' \/ g = writer.file_num
<1>n. PICK n : n = writer.file_num
  OBVIOUS
<1>0. /\ Len(toWriter) \in Nat /\ n \in Nat /\ f \in Nat /\ n <= f
      /\ source \in Nat /\ first \in Nat /\ first <= source
  BY <1>n, WriterThere, QueuesThere DEF IInv, Protocol, BlocksOK, Shapes, NumbersOK
<1>2. /\ \A g \in Files : g # n => e[g] = disk[g]
      /\ n \in Files =>
           /\ e[n].name # disk[n].name => renamed /\ disk[n].download # Absent
           /\ renamed /\ disk[n].download # Absent => e[n].name = disk[n].download
           /\ e[n].download \in {Absent, disk[n].download}
           /\ e[n].digest \in {NoDigest, disk[n].digest}
  <2>1. IsDisk(disk)
    BY DEF IInv, Shapes, JobsOK
  <2> QED BY ONLY <1>n, <2>1, e = modify_time(disk, writer, renamed, removed), Renamed
<1>4. \A g \in Files : disk'[g].name = e[g].name
  OBVIOUS
<1>5. \A g \in Files : g # f /\ disk'[g].download # Absent =>
        disk'[g].download = disk[g].download /\ disk'[g].digest \in {NoDigest, disk[g].digest}
  <2> TAKE g \in Files
  <2> HAVE g # f /\ disk'[g].download # Absent
  <2>1. disk'[g] = e[g]
    OBVIOUS
  <2>2. CASE g # n
    BY ONLY <1>2, <2>1, <2>2, g \in Files
  <2>3. CASE g = n
    BY ONLY <1>2, <2>1, <2>3, g \in Files, disk'[g].download # Absent
  <2> QED BY <2>2, <2>3
<1>6. Excused \subseteq Excused'
  BY DEF Excused
<1>7. \A g : ~LastBlock(m, g) => ~Coming(g) \/ g = f
  BY DEF Coming, LastBlock, IInv, Protocol, BlocksOK
<1>8. f <= ReaderAt
  <2>1. ~SendPending
    BY <1>0 DEF IInv, Protocol, SendOK, SendPending, Indices
  <2>2. reader # NoJob => f <= reader.file_num
    BY <1>0, ReaderThere DEF IInv, Protocol, BlocksOK, ReaderOK, Confirmed
  <2> QED BY <2>1, <2>2, FilesNat DEF ReaderAt
<1>9. ASSUME NEW g \in Files, g < f
      PROVE  Settled(g)' /\ (g >= n => g \in Excused' \/ g = n)
  <2>1. CASE g < n
    <3>1. Settled(g)
      BY <1>n, <2>1 DEF IInv, Owed, PassedOK
    <3>2. disk'[g].name = disk[g].name
      BY <1>0, <1>2, <1>4, <2>1, FilesNat
    <3>3. ~(g >= n)
      BY <1>0, <2>1, FilesNat
    <3> QED BY <1>6, <3>1, <3>2, <3>3 DEF Settled, Arrived
  <2>2. CASE g >= n
    <3>0. g < ReaderAt
      <4>1. ReaderAt \in Nat /\ g \in Nat
        BY ReaderThere, QueuesThere, FilesNat DEF ReaderAt, SendPending, IInv, Protocol, SendOK, Indices
      <4> QED BY ONLY <1>0, <1>8, <1>9, <4>1
    <3>1. \/ g \in Excused \/ Coming(g)
          \/ g = n /\ writer.stream # Closed /\ writer.stream.pos = Size[g]
      BY <1>n, <2>2, <3>0 DEF IInv, Owed, PassedOK
    <3>2. CASE g \in Excused
      BY <1>6, <3>2 DEF Settled
    <3>3. CASE Coming(g)
      <4>1. PICK i \in Indices(toWriter) : LastBlock(toWriter[i], g)
        BY <3>3 DEF Coming
      <4>2. toWriter[i].file_num = f
        BY <4>1 DEF LastBlock, IInv, Protocol, BlocksOK
      <4> QED BY <1>0, <1>9, <4>1, <4>2, FilesNat DEF LastBlock
    <3>4. CASE g = n /\ writer.stream # Closed /\ writer.stream.pos = Size[g] /\ g \notin Excused
      <4>1. Holds(g, source, Size[g])
        BY <1>n, <3>4 DEF IInv, Contents, OpenOK, WriterOpen, Excused
      <4>2. disk[g].download = Whole(source, g) /\ Whole(source, g) # Absent
        BY <4>1, PartFacts DEF Holds
      <4>3. CASE renamed
        <5>1. disk'[g].name = Whole(source, g)
          BY <1>2, <1>4, <3>4, <4>2, <4>3
        <5>2. source \in first .. source
          BY <1>0
        <5> QED BY <3>4, <5>1, <5>2 DEF Settled, Arrived
      <4>4. CASE ~renamed
        <5>1. g \in failed'
          BY <1>n, <3>4, <4>2, <4>4 DEF Unnamed, PartOf
        <5> QED BY <5>1 DEF Settled, Excused
      <4> QED BY <4>3, <4>4
    <3> QED BY <3>1, <3>2, <3>3, <3>4
  <2> QED BY <1>0, <2>1, <2>2, FilesNat
<1>10. ASSUME NEW g \in Files, disk'[g].name # disk[g].name PROVE Settled(g)'
  <2>1. g = n /\ disk[g].download # Absent /\ renamed
    BY ONLY <1>2, <1>4, <1>10
  <2>2. CASE writer.stream = Closed
    <3>1. g \in torn'
      BY <1>n, <2>1, <2>2 DEF Leftover, PartOf
    <3> QED BY <3>1 DEF Settled, Excused
  <2>3. CASE writer.stream # Closed
    BY <1>n, <1>0, <1>9, <2>1, <2>3, FilesNat
  <2> QED BY <2>2, <2>3
<1> QED BY <1>n, <1>5, <1>9, <1>10

\* TransferJob::write for a further block of the writer's file, which is written, or to
\* the file whose stream is still open.
LEMMA BlockAppendedStep ==
  ASSUME IInv, toWriter # <<>>, NEW m, m = Head(toWriter), toWriter' = Tail(toWriter),
         m.type = "block", writer # NoJob,
         m.file_num = writer.file_num, writer.stream # Closed,
         disk' = Written(disk, writer.into, writer.stream.pos, m.data),
         writer' = [writer EXCEPT !.stream = StreamAt(writer.stream.pos + Len(m.data))],
         UNCHANGED <<torn, toReader, asked, status, skips, failed>>,
         UNCHANGED <<source, reader, direction, strategy, saved, first, lost>>
  PROVE  IInv' /\ \A g \in Files : disk'[g].name # disk[g].name => Settled(g)'
<1>1. m = toWriter[1] /\ 1 \in Indices(toWriter) /\ Len(toWriter) \in Nat /\ Len(toWriter) > 0
  BY TakeHead, QueuesThere DEF Indices
<1>2. PICK f \in Files : f = m.file_num
  BY <1>1 DEF IInv, Shapes, MessagesOK, IsMessage
<1>3. PICK s : s = StreamAt(writer.stream.pos + Len(m.data))
  OBVIOUS
<1>4. s # Closed /\ s.pos = writer.stream.pos + Len(m.data) /\ IsStream(s)
  BY <1>3, StreamFacts
<1>t. PICK t : t = writer.into
  OBVIOUS
<1>5. MadeWriter(writer', f, s, t, writer.digest)
  BY <1>2, <1>3, <1>4, <1>t, WriterThere, WriterUpdates, Zenon
<1>9. torn' = torn /\ torn \subseteq Files /\ failed' = failed /\ failed \subseteq Files
  BY DEF IInv, Shapes, NumbersOK
<1>p. PICK p : p = writer.stream.pos
  OBVIOUS
<1>o. /\ f \notin torn => /\ t = f /\ p \in Nat /\ p <= Size[f] /\ disk[f].digest \in {source, NoDigest}
                          /\ disk[f].download = Part(source, p)
      /\ t # f => t \in torn
  BY <1>2, <1>t, <1>p DEF IInv, Contents, OpenOK, WriterOpen, Holds
<1>u. t \in Files
  BY <1>2, <1>9, <1>o
<1>6. /\ IsDisk(disk') /\ disk'[t].digest = disk[t].digest
      /\ disk[t].download # Absent =>
           disk'[t].name = disk[t].name /\ disk'[t].download = Patched(disk[t].download, p, m.data)
      /\ \A g \in Files : g # t => disk'[g] = disk[g]
  <2>1. IsDisk(disk) /\ disk' = Written(disk, t, p, m.data)
    BY <1>t, <1>p DEF IInv, Shapes, JobsOK
  <2> QED BY ONLY <1>u, <2>1, DiskWritten
<1>7. ASSUME f \notin torn
      PROVE  /\ s.pos \in Nat /\ s.pos <= Size[f]
             /\ disk'[f].digest \in {source, NoDigest} /\ disk'[f].download = Part(source, s.pos)
             /\ disk'[f].name = disk[f].name
             /\ m.data # <<>> => s.pos = Base(f) + 1
             /\ m.data = <<>> => s.pos = Size[f]
  <2>2. /\ t = f /\ p \in Nat /\ p <= Size[f] /\ disk[f].digest \in {source, NoDigest}
        /\ disk[f].download = Part(source, p)
    BY <1>7, <1>o
  <2>3. Base(f) = p
    BY <1>1, <1>2, <1>p DEF Base
  <2>4. /\ m.data # <<>> => m.data = << <<source, p + 1>> >> /\ p + 1 <= Size[f]
        /\ m.data = <<>> => p + 1 = Size[f] + 1
    BY <1>1, <1>2, <1>7, <2>3 DEF IInv, Contents, StreamOK
  <2>5. m.data = <<>> \/ m.data = << <<source, p + 1>> >>
    BY <2>4
  <2>6. /\ Patched(Part(source, p), p, m.data) = Part(source, p + Len(m.data))
        /\ (m.data = <<>> => Len(m.data) = 0) /\ (m.data # <<>> => Len(m.data) = 1)
    BY ONLY <2>2, <2>5, PartExtended, Zenon
  <2>7. Size[f] \in Nat /\ Part(source, p) # Absent
    BY <1>2, QueuesThere, PartFacts
  <2>8. s.pos = p + Len(m.data)
    BY <1>4, <1>p
  <2>9. /\ disk'[f].digest \in {source, NoDigest} /\ disk'[f].name = disk[f].name
        /\ disk'[f].download = Patched(Part(source, p), p, m.data)
    BY ONLY <1>6, <2>2, <2>7
  <2>10. disk'[f].download = Part(source, s.pos)
    BY ONLY <2>6, <2>8, <2>9
  <2>11. CASE m.data = <<>>
    <3>1. s.pos = p /\ p = Size[f]
      BY ONLY <2>2, <2>4, <2>6, <2>7, <2>8, <2>11
    <3> QED BY ONLY <2>2, <2>7, <2>9, <2>10, <2>11, <3>1
  <2>12. CASE m.data # <<>>
    <3>1. s.pos = p + 1 /\ p + 1 <= Size[f]
      BY ONLY <2>2, <2>4, <2>6, <2>7, <2>8, <2>12
    <3> QED BY ONLY <2>2, <2>3, <2>7, <2>9, <2>10, <2>12, <3>1
  <2> QED BY ONLY <2>11, <2>12
<1>10. \A g \in Files : disk'[g].name # disk[g].name => g \in torn
  BY <1>6, <1>7, <1>o
<1>8. ASSUME NEW g \in Files
      PROVE  (g < f => Settled(g)') /\ (disk'[g].name # disk[g].name => Settled(g)')
  <2>1. g < f => Settled(g)
    BY <1>2 DEF IInv, Owed, PassedOK
  <2>2. CASE disk'[g].name = disk[g].name
    BY <2>1, <2>2 DEF Settled, Arrived, Excused
  <2>3. CASE disk'[g].name # disk[g].name
    BY <1>9, <1>10, <2>3 DEF Settled, Excused
  <2> QED BY <2>2, <2>3
<1>12. \A g \in Files : g # f /\ g \notin torn' /\ disk'[g].download # Absent =>
         disk'[g].download = disk[g].download /\ disk'[g].digest \in {NoDigest, disk[g].digest}
  BY <1>6, <1>9, <1>o
<1>13. \A g \in Files : ~(g < f /\ g >= f)
  BY <1>2, FilesNat
<1>11. IInv'
  <2>1. PICK c : c = [type |-> "error"]
    OBVIOUS
  <2>2. c.type = "error"
    BY <2>1
  <2>3. BlockTaken(m, f, f, s, t, c)
    BY <1>2, <1>4, <1>5, <1>6, <1>7, <1>8, <1>9, <1>12, <1>13, <1>o, <2>2 DEF BlockTaken
  <2> QED BY ONLY IInv, <2>3, BlockTakenStep
<1> QED BY <1>8, <1>11

\* TransferJob::write for a further block of the writer's file, which cannot be written.
LEMMA BlockFailsStep ==
  ASSUME IInv, toWriter # <<>>, NEW m, m = Head(toWriter), toWriter' = Tail(toWriter),
         m.type = "block", writer # NoJob,
         m.file_num = writer.file_num, writer.stream # Closed,
         torn' = torn \cup {m.file_num},
         IF direction = "upload" THEN WriterSends(<<[type |-> "error"]>>) ELSE UNCHANGED toReader,
         UNCHANGED <<disk, writer, asked, status, skips, failed>>,
         UNCHANGED <<source, reader, direction, strategy, saved, first, lost>>
  PROVE  IInv'
<1>1. m = toWriter[1] /\ 1 \in Indices(toWriter) /\ Len(toWriter) \in Nat /\ Len(toWriter) > 0
  BY TakeHead, QueuesThere DEF Indices
<1>2. PICK f \in Files : f = m.file_num
  BY <1>1 DEF IInv, Shapes, MessagesOK, IsMessage
<1>3. MadeWriter(writer', f, writer.stream, writer.into, writer.digest)
  BY <1>2, WriterThere DEF MadeWriter
<1>4. /\ IsDisk(disk') /\ torn \subseteq torn' /\ torn' \subseteq Files /\ f \in torn'
      /\ failed' = failed /\ failed \subseteq Files
  BY <1>2 DEF IInv, Shapes, NumbersOK, JobsOK
<1>5. ASSUME NEW g \in Files PROVE (g < f => Settled(g)') /\ ~(g < f /\ g >= f)
  <2>1. g < f => Settled(g)
    BY <1>2, <1>5 DEF IInv, Owed, PassedOK
  <2> QED BY <1>2, <1>4, <2>1, FilesNat DEF Settled, Arrived, Excused
<1>6. PICK c : c = [type |-> "error"] /\ c.type = "error"
  OBVIOUS
<1>7. toReader' = toReader \/ (direction = "upload" /\ Grown(toReader, toReader', c))
  BY <1>6, SendOne, QueuesThere DEF WriterSends
<1>9. writer.into # f => writer.into \in torn'
  BY <1>2, <1>4 DEF IInv, Contents, OpenOK, WriterOpen
<1>8. BlockTaken(m, f, f, writer.stream, writer.into, c)
  BY <1>2, <1>3, <1>4, <1>5, <1>6, <1>7, <1>9 DEF BlockTaken
<1> QED BY ONLY IInv, <1>8, BlockTakenStep

\* TransferJob::write for the first block of a file, written or not.
LEMMA FileCreatedStep ==
  ASSUME IInv, toWriter # <<>>, NEW m, m = Head(toWriter), toWriter' = Tail(toWriter),
         m.type = "block", writer # NoJob,
         ~(m.file_num = writer.file_num /\ writer.stream # Closed),
         NEW renamed, NEW removed, NEW e, e = modify_time(disk, writer, renamed, removed),
         NEW v \in {writer.digest, NoDigest}, NEW d, d = Created(e, m.file_num, v),
         NEW w, MadeWriter(w, m.file_num, StreamAt(0), m.file_num, writer.digest),
         \/ /\ disk' = Written(d, m.file_num, 0, m.data)
            /\ writer' = [w EXCEPT !.stream = StreamAt(Len(m.data))]
            /\ torn' = torn \cup Leftover(writer, renamed)
            /\ UNCHANGED toReader
         \/ /\ disk' = d /\ writer' = w
            /\ torn' = torn \cup Leftover(writer, renamed) \cup {m.file_num}
            /\ IF direction = "upload" THEN WriterSends(<<[type |-> "error"]>>) ELSE UNCHANGED toReader,
         failed' = failed \cup Unnamed(writer, renamed),
         UNCHANGED <<asked, status, skips>>,
         UNCHANGED <<source, reader, direction, strategy, saved, first, lost>>
  PROVE  IInv' /\ \A g \in Files : disk'[g].name # disk[g].name => Settled(g)'
<1>1. m = toWriter[1] /\ 1 \in Indices(toWriter) /\ Len(toWriter) \in Nat /\ Len(toWriter) > 0
  BY TakeHead, QueuesThere DEF Indices
<1>2. PICK f \in Files : f = m.file_num
  BY <1>1 DEF IInv, Shapes, MessagesOK, IsMessage
<1>3. /\ torn \subseteq torn' /\ torn' \subseteq Files /\ Leftover(writer, renamed) \subseteq torn'
      /\ failed \subseteq failed' /\ failed' \subseteq Files
  BY <1>2 DEF IInv, Shapes, NumbersOK, Leftover, Unnamed, PartOf
<1>4. /\ IsDisk(e) /\ IsDisk(d) /\ d[f].name = e[f].name /\ d[f].download = Data(<<>>)
      /\ d[f].digest = v
      /\ \A g \in Files : g # f => d[g] = e[g]
  <2>1. IsDisk(disk)
    BY DEF IInv, Shapes, JobsOK
  <2>2. IsDisk(e)
    BY ONLY <2>1, e = modify_time(disk, writer, renamed, removed), Renamed
  <2>3. d = Created(e, f, v)
    BY <1>2
  <2> QED BY ONLY <1>2, <2>2, <2>3, DiskCreated
<1>v. v \in {source, NoDigest} /\ Data(<<>>) # Absent
  BY <1>1, PartFacts DEF IInv, Protocol, BlocksOK
<1>5. /\ IsDisk(disk') /\ \A g \in Files : disk'[g].name = d[g].name /\ (g # f => disk'[g] = d[g])
  <2>1. CASE disk' = d
    BY <1>4, <2>1
  <2>2. CASE disk' = Written(d, m.file_num, 0, m.data)
    <3>1. disk' = Written(d, f, 0, m.data)
      BY <1>2, <2>2
    <3>2. /\ IsDisk(disk') /\ disk'[f].name = d[f].name
          /\ \A g \in Files : g # f => disk'[g] = d[g]
      BY ONLY <1>4, <1>v, <3>1, f \in Files, DiskWritten
    <3> QED BY ONLY <3>2
  <2> QED BY <2>1, <2>2
<1>6. /\ \A g \in Files : g # f /\ g \notin torn' /\ disk'[g].download # Absent =>
           disk'[g].download = disk[g].download /\ disk'[g].digest \in {NoDigest, disk[g].digest}
      /\ \A g \in Files : (disk'[g].name # disk[g].name => Settled(g)') /\ (g < f => Settled(g)')
  <2>1. \A g \in Files : disk'[g].name = e[g].name /\ (g # f => disk'[g] = e[g])
    BY ONLY <1>4, <1>5
  <2> QED BY <1>1, <1>2, <1>3, <2>1, FileOpened
<1>7. IsWriter(w) /\ w.file_num = f /\ w.stream = StreamAt(0) /\ w.digest = writer.digest
      /\ w.file_num \in Nums /\ w.into = f
  BY <1>2, QueuesThere DEF MadeWriter
<1>8. PICK c : c = [type |-> "error"] /\ c.type = "error"
  OBVIOUS
<1>12. \A g \in Files : ~(g < f /\ g >= f)
  BY <1>2, FilesNat
<1>9. CASE /\ disk' = Written(d, m.file_num, 0, m.data)
           /\ writer' = [w EXCEPT !.stream = StreamAt(Len(m.data))]
           /\ torn' = torn \cup Leftover(writer, renamed)
           /\ UNCHANGED toReader
  <2>1. PICK s : s = StreamAt(Len(m.data))
    OBVIOUS
  <2>2. s # Closed /\ s.pos = Len(m.data) /\ IsStream(s)
    BY <2>1, StreamFacts
  <2>3. MadeWriter(writer', f, s, f, writer.digest)
    BY ONLY <1>7, <1>9, <2>1, <2>2, WriterUpdates, Zenon
  <2>4. ASSUME f \notin torn'
        PROVE  /\ s.pos \in Nat /\ s.pos <= Size[f]
               /\ disk'[f].digest \in {source, NoDigest} /\ disk'[f].download = Part(source, s.pos)
               /\ m.data # <<>> => s.pos = Base(f) + 1
               /\ m.data = <<>> => s.pos = Size[f]
    <3>1. /\ disk'[f].digest \in {source, NoDigest}
          /\ disk'[f].download = Patched(d[f].download, 0, m.data)
      <4>1. disk' = Written(d, f, 0, m.data)
        BY <1>2, <1>9
      <4> QED BY ONLY <1>4, <1>v, <4>1, f \in Files, DiskWritten
    <3>2. Base(f) = 0
      BY <1>1, <1>2 DEF Base
    <3>3. f \notin torn
      BY <1>3, <2>4
    <3>4. /\ m.data # <<>> => m.data = << <<source, 0 + 1>> >> /\ 0 + 1 <= Size[f]
          /\ m.data = <<>> => 0 + 1 = Size[f] + 1
      BY <1>1, <1>2, <3>2, <3>3 DEF IInv, Contents, StreamOK
    <3>5. d[f].download = Part(source, 0)
      BY ONLY <1>4, PartFacts
    <3>6. m.data = <<>> \/ m.data = << <<source, 0 + 1>> >>
      BY <3>4
    <3>7. disk'[f].download = Part(source, 0 + Len(m.data)) /\ (m.data = <<>> => Len(m.data) = 0)
          /\ (m.data # <<>> => Len(m.data) = 1)
      <4>1. /\ Patched(Part(source, 0), 0, m.data) = Part(source, 0 + Len(m.data))
            /\ m.data = <<>> => Len(m.data) = 0
            /\ m.data # <<>> => Len(m.data) = 1
        <5>1. 0 \in Nat
          OBVIOUS
        <5> QED BY ONLY <3>6, <5>1, PartExtended, Zenon
      <4> QED BY ONLY <3>1, <3>5, <4>1, Zenon
    <3>8. Size[f] \in Nat /\ 0 + Len(m.data) = Len(m.data)
      BY <1>2, <3>7, QueuesThere
    <3>9. disk'[f].download = Part(source, s.pos)
      BY ONLY <2>2, <3>7, <3>8
    <3>10. CASE m.data = <<>>
      <4>1. s.pos = 0 /\ Size[f] = 0
        BY ONLY <2>2, <3>4, <3>7, <3>8, <3>10
      <4> QED BY ONLY <3>1, <3>9, <3>10, <4>1
    <3>11. CASE m.data # <<>>
      <4>1. s.pos = 1 /\ 1 <= Size[f]
        BY ONLY <2>2, <3>4, <3>7, <3>8, <3>11
      <4> QED BY ONLY <3>1, <3>2, <3>9, <3>11, <4>1
    <3> QED BY <3>10, <3>11
  <2>5. IInv'
    <3>1. BlockTaken(m, f, f, s, f, c)
      BY <1>2, <1>3, <1>5, <1>6, <1>8, <1>9, <1>12, <2>2, <2>3, <2>4 DEF BlockTaken
    <3> QED BY ONLY IInv, <3>1, BlockTakenStep
  <2> QED BY <1>6, <2>5
<1>10. CASE /\ disk' = d /\ writer' = w
            /\ torn' = torn \cup Leftover(writer, renamed) \cup {m.file_num}
            /\ IF direction = "upload" THEN WriterSends(<<[type |-> "error"]>>) ELSE UNCHANGED toReader
  <2>1. PICK s : s = StreamAt(0) /\ s # Closed
    BY StreamFacts
  <2>2. MadeWriter(writer', f, s, f, writer.digest) /\ f \in torn'
    BY <1>2, <1>10, <2>1
  <2>3. toReader' = toReader \/ (direction = "upload" /\ Grown(toReader, toReader', c))
    BY <1>8, <1>10, SendOne, QueuesThere DEF WriterSends
  <2>4. IInv'
    <3>1. BlockTaken(m, f, f, s, f, c)
      BY <1>2, <1>3, <1>5, <1>6, <1>8, <1>12, <2>1, <2>2, <2>3 DEF BlockTaken
    <3> QED BY ONLY IInv, <3>1, BlockTakenStep
  <2> QED BY <1>6, <2>4
<1> QED BY <1>9, <1>10

\* TransferJob::write for the first block of a file, when sync_all of the file before fails
\* (the writer stays there) or name.download cannot be created (its stream stays open).
LEMMA FileNotCreatedStep ==
  ASSUME IInv, toWriter # <<>>, NEW m, m = Head(toWriter), toWriter' = Tail(toWriter),
         m.type = "block", writer # NoJob,
         ~(m.file_num = writer.file_num /\ writer.stream # Closed),
         NEW renamed, NEW removed, NEW e, e = modify_time(disk, writer, renamed, removed),
         NEW v, disk' = Noted(e, m.file_num, v),
         \/ writer.stream # Closed /\ writer' = writer
         \/ writer' = [writer EXCEPT !.file_num = m.file_num],
         torn \subseteq torn', torn' \subseteq Files, m.file_num \in torn',
         Leftover(writer, renamed) \subseteq torn',
         writer.stream # Closed => writer.file_num \in torn' /\ writer.into \in torn',
         IF direction = "upload" THEN WriterSends(<<[type |-> "error"]>>) ELSE UNCHANGED toReader,
         failed' = failed \cup Unnamed(writer, renamed),
         UNCHANGED <<asked, status, skips>>,
         UNCHANGED <<source, reader, direction, strategy, saved, first, lost>>
  PROVE  IInv' /\ \A g \in Files : disk'[g].name # disk[g].name => Settled(g)'
<1>1. m = toWriter[1] /\ 1 \in Indices(toWriter) /\ Len(toWriter) \in Nat /\ Len(toWriter) > 0
  BY TakeHead, QueuesThere DEF Indices
<1>2. PICK f \in Files : f = m.file_num
  BY <1>1 DEF IInv, Shapes, MessagesOK, IsMessage
<1>3. failed \subseteq failed' /\ failed' \subseteq Files
  BY DEF IInv, Shapes, NumbersOK, Unnamed, PartOf
<1>4. IsDisk(e)
  <2>1. IsDisk(disk)
    BY DEF IInv, Shapes, JobsOK
  <2> QED BY ONLY <2>1, e = modify_time(disk, writer, renamed, removed), Renamed
<1>5. IsDisk(disk') /\ \A g \in Files : disk'[g].name = e[g].name /\ (g # f => disk'[g] = e[g])
  <2>1. disk' = Noted(e, f, v)
    BY <1>2
  <2> QED BY ONLY <1>4, <2>1, f \in Files, DiskNoted
<1>6. /\ \A g \in Files : g # f /\ g \notin torn' /\ disk'[g].download # Absent =>
           disk'[g].download = disk[g].download /\ disk'[g].digest \in {NoDigest, disk[g].digest}
      /\ \A g \in Files : /\ disk'[g].name # disk[g].name => Settled(g)'
                          /\ g < f => Settled(g)'
                          /\ g < f /\ g >= writer.file_num => g \in Excused' \/ g = writer.file_num
  BY <1>1, <1>2, <1>5, FileOpened
<1>7. PICK k \in {f, writer.file_num} :
        /\ MadeWriter(writer', k, writer.stream, writer.into, writer.digest)
        /\ k = f \/ (writer.stream # Closed /\ k = writer.file_num)
  <2>1. CASE writer.stream # Closed /\ writer' = writer
    BY <2>1, WriterThere DEF MadeWriter
  <2>2. CASE writer' = [writer EXCEPT !.file_num = m.file_num]
    <3>1. f \in Nums /\ IsStream(writer.stream) /\ IsWriter(writer)
      BY <1>2, QueuesThere, WriterThere
    <3>2. MadeWriter(writer', f, writer.stream, writer.into, writer.digest)
      BY ONLY <1>2, <2>2, <3>1, WriterUpdates, Zenon
    <3> QED BY <3>2
  <2> QED BY <2>1, <2>2
<1>8. PICK c : c = [type |-> "error"] /\ c.type = "error"
  OBVIOUS
<1>9. toReader' = toReader \/ (direction = "upload" /\ Grown(toReader, toReader', c))
  <2>1. IsQueue(toReader)
    BY QueuesThere
  <2>2. CASE direction = "upload"
    <3>1. toReader' = toReader \o <<c>>
      BY <1>8, <2>2 DEF WriterSends
    <3> QED BY ONLY <2>1, <2>2, <3>1, SendOne
  <2>3. CASE direction # "upload"
    BY <2>3
  <2> QED BY <2>2, <2>3
<1>10. writer.stream # Closed =>
         k \in Files /\ (writer.into # k => writer.into \in torn') /\ (k # f => k \in torn')
  BY <1>2, <1>7
<1>11. \A g \in Files : g < f /\ g >= k => g \in Excused'
  <2>1. CASE k = f
    BY <1>2, <2>1, FilesNat
  <2>2. CASE writer.stream # Closed /\ k = writer.file_num
    BY <1>6, <2>2 DEF Excused
  <2> QED BY <1>7, <2>1, <2>2
<1>12. BlockTaken(m, f, k, writer.stream, writer.into, c)
  BY <1>2, <1>3, <1>5, <1>6, <1>7, <1>8, <1>9, <1>10, <1>11 DEF BlockTaken
<1> QED BY <1>6, <1>12, BlockTakenStep

\* TransferJob::write: a name only ever changes to a settled file's.
LEMMA WriteBlockStep ==
  ASSUME IInv, toWriter # <<>>, NEW m, m = Head(toWriter), toWriter' = Tail(toWriter), WriteBlock(m),
         UNCHANGED <<source, reader, direction, strategy, saved, first, lost>>
  PROVE  /\ IInv' /\ \A g \in Files : disk'[g].name # disk[g].name => Settled(g)'
         /\ UNCHANGED <<status, skips>> /\ torn \subseteq torn' /\ failed \subseteq failed'
<1>1. m.type = "block" /\ writer # NoJob /\ UNCHANGED <<asked, status, skips>>
  BY DEF WriteBlock
<1>0. torn \subseteq torn' /\ failed \subseteq failed'
  BY DEF WriteBlock
<1>3. CASE InFile(m)
  <2>1. m.file_num = writer.file_num /\ writer.stream # Closed
    BY <1>3 DEF InFile
  <2>2. \/ /\ disk' = Written(disk, writer.into, writer.stream.pos, m.data)
           /\ writer' = [writer EXCEPT !.stream = StreamAt(writer.stream.pos + Len(m.data))]
           /\ UNCHANGED <<torn, toReader, failed>>
        \/ /\ torn' = torn \cup {m.file_num} /\ UNCHANGED <<disk, writer, failed>>
           /\ IF direction = "upload" THEN WriterSends(<<[type |-> "error"]>>) ELSE UNCHANGED toReader
    <3>1. \A d, v : Opened(m, d, v).job = writer /\ Opened(m, d, v).disk = disk
      BY <1>3 DEF Opened
    <3> QED BY <1>3, <3>1 DEF WriteBlock, BlockLost
  <2> QED BY <1>0, <1>1, <2>1, <2>2, BlockAppendedStep, BlockFailsStep
<1>4. CASE ~InFile(m)
  <2>1. ~(m.file_num = writer.file_num /\ writer.stream # Closed)
    BY <1>4 DEF InFile
  <2>2. PICK w : w = [writer EXCEPT !.file_num = m.file_num, !.stream = StreamAt(0), !.into = m.file_num]
    OBVIOUS
  <2>0. m = toWriter[1] /\ 1 \in Indices(toWriter) /\ m.file_num \in Files /\ m.file_num \in Nums
    <3>1. m = toWriter[1] /\ 1 \in Indices(toWriter)
      BY TakeHead, QueuesThere
    <3>2. m.file_num \in Files
      BY <1>1, <3>1, QueuesThere DEF IInv, Shapes, MessagesOK, IsMessage
    <3> QED BY <3>1, <3>2, QueuesThere
  <2>3. MadeWriter(w, m.file_num, StreamAt(0), m.file_num, writer.digest)
    <3>3. IsStream(StreamAt(0)) /\ IsWriter(writer)
      BY <1>1, StreamFacts, WriterThere
    <3> QED BY ONLY <2>0, <2>2, <3>3, WriterUpdates, Zenon
  <2> DEFINE strays == IF writer.stream = Closed THEN {} ELSE {writer.file_num, writer.into}
             Ways(e, o, renamed) ==
               \/ /\ disk' = Written(o.disk, o.job.into, o.job.stream.pos, m.data)
                  /\ writer' = [o.job EXCEPT !.stream = StreamAt(o.job.stream.pos + Len(m.data))]
                  /\ torn' = torn \cup Leftover(writer, renamed)
                  /\ UNCHANGED toReader
               \/ /\ BlockLost /\ disk' = o.disk /\ writer' = o.job
                  /\ torn' = torn \cup Leftover(writer, renamed) \cup {m.file_num}
               \/ /\ writer.stream # Closed /\ BlockLost /\ disk' = e /\ writer' = writer
                  /\ torn' = torn \cup strays \cup {m.file_num}
               \/ /\ BlockLost
                  /\ \E kept \in {e[m.file_num].digest, NoDigest} :
                       disk' = [e EXCEPT ![m.file_num].digest = kept]
                  /\ writer' = [writer EXCEPT !.file_num = m.file_num]
                  /\ torn' = torn \cup Leftover(writer, renamed) \cup strays \cup {m.file_num}
  <2>a. PICK renamed, removed, noted \in Succeeds :
          LET named == modify_time(disk, writer, renamed, removed)
              o == Opened(m, named, noted)
              leftover == IF InFile(m) THEN {} ELSE Leftover(writer, renamed)
          IN  /\ \/ /\ disk' = Written(o.disk, o.job.into, o.job.stream.pos, m.data)
                    /\ writer' = [o.job EXCEPT !.stream = StreamAt(@.pos + Len(m.data))]
                    /\ torn' = torn \cup leftover
                    /\ UNCHANGED toReader
                 \/ /\ m.data # <<>>
                    /\ BlockLost
                    /\ disk' = o.disk
                    /\ writer' = o.job
                    /\ torn' = torn \cup leftover \cup {m.file_num}
                 \/ /\ ~InFile(m) /\ writer.stream # Closed
                    /\ BlockLost
                    /\ disk' = named
                    /\ writer' = writer
                    /\ torn' = torn \cup strays \cup {m.file_num}
                 \/ /\ ~InFile(m)
                    /\ BlockLost
                    /\ \E kept \in {named[m.file_num].digest, NoDigest} :
                         disk' = [named EXCEPT ![m.file_num].digest = kept]
                    /\ writer' = [writer EXCEPT !.file_num = m.file_num]
                    /\ torn' = torn \cup leftover \cup strays \cup {m.file_num}
              /\ failed' = failed \cup IF InFile(m) THEN {} ELSE Unnamed(writer, renamed)
    BY Zenon DEF WriteBlock
  <2>5. PICK e : e = modify_time(disk, writer, renamed, removed)
    OBVIOUS
  <2>o. PICK o : o = Opened(m, e, noted)
    OBVIOUS
  <2>4. Ways(e, o, renamed) /\ failed' = failed \cup Unnamed(writer, renamed)
    <3> HIDE DEF strays
    <3> QED BY ONLY <1>4, <2>a, <2>5, <2>o
  <2>6. PICK v \in {writer.digest, NoDigest} : v = IF noted THEN writer.digest ELSE NoDigest
    OBVIOUS
  <2>7. PICK d : d = Created(e, m.file_num, v)
    OBVIOUS
  <2>8. o.job = w /\ o.disk = d
    BY ONLY <1>4, <2>o, <2>2, <2>6, <2>7 DEF Opened, Created
  <2>9. w.stream.pos = 0 /\ w.into = m.file_num /\ 0 + Len(m.data) = Len(m.data)
    BY <2>3, StreamFacts DEF MadeWriter
  <2>10. failed' = failed \cup Unnamed(writer, renamed)
    BY <2>4
  <2>11. \/ /\ disk' = Written(d, m.file_num, 0, m.data)
            /\ writer' = [w EXCEPT !.stream = StreamAt(Len(m.data))]
            /\ torn' = torn \cup Leftover(writer, renamed)
            /\ UNCHANGED toReader
         \/ /\ disk' = d /\ writer' = w
            /\ torn' = torn \cup Leftover(writer, renamed) \cup {m.file_num}
            /\ BlockLost
         \/ /\ writer.stream # Closed /\ disk' = e /\ writer' = writer
            /\ torn' = torn \cup strays \cup {m.file_num} /\ BlockLost
         \/ /\ \E kept \in {e[m.file_num].digest, NoDigest} :
                 disk' = [e EXCEPT ![m.file_num].digest = kept]
            /\ writer' = [writer EXCEPT !.file_num = m.file_num]
            /\ torn' = torn \cup Leftover(writer, renamed) \cup strays \cup {m.file_num} /\ BlockLost
    <3> HIDE DEF strays
    <3> QED BY ONLY <2>4, <2>8, <2>9
  <2>12. torn' \subseteq Files
    <3>1. torn \subseteq Files /\ Leftover(writer, renamed) \subseteq Files
      BY DEF IInv, Shapes, NumbersOK, Leftover, PartOf
    <3>2. strays \subseteq Files
      BY <1>1, <3>1 DEF IInv, Contents, OpenOK, WriterOpen, Protocol, WriterOK
    <3> QED BY <2>0, <2>11, <3>1, <3>2
  <2>13. IInv' /\ \A g \in Files : disk'[g].name # disk[g].name => Settled(g)'
    <3>1. CASE \/ /\ disk' = Written(d, m.file_num, 0, m.data)
                  /\ writer' = [w EXCEPT !.stream = StreamAt(Len(m.data))]
                  /\ torn' = torn \cup Leftover(writer, renamed)
                  /\ UNCHANGED toReader
               \/ /\ disk' = d /\ writer' = w
                  /\ torn' = torn \cup Leftover(writer, renamed) \cup {m.file_num}
                  /\ BlockLost
      <4> HIDE DEF strays
      <4> QED BY <1>1, <2>1, <2>3, <2>5, <2>6, <2>7, <2>10, <3>1, FileCreatedStep DEF BlockLost
    <3>2. CASE /\ writer.stream # Closed /\ disk' = e /\ writer' = writer
               /\ torn' = torn \cup strays \cup {m.file_num} /\ BlockLost
      <4>1. IsDisk(e)
        <5>1. IsDisk(disk)
          BY DEF IInv, Shapes, JobsOK
        <5> QED BY ONLY <2>5, <5>1, Renamed
      <4>2. PICK v0 : disk' = Noted(e, m.file_num, v0)
        <5>1. PICK v0 : e = Noted(e, m.file_num, v0)
          BY ONLY <2>0, <4>1, DiskSame
        <5> QED BY ONLY <3>2, <5>1
      <4>3. Leftover(writer, renamed) = {}
        BY <3>2 DEF Leftover
      <4> QED BY <1>1, <2>1, <2>5, <2>10, <2>12, <3>2, <4>2, <4>3, FileNotCreatedStep DEF BlockLost
    <3>3. CASE /\ \E kept \in {e[m.file_num].digest, NoDigest} :
                    disk' = [e EXCEPT ![m.file_num].digest = kept]
               /\ writer' = [writer EXCEPT !.file_num = m.file_num]
               /\ torn' = torn \cup Leftover(writer, renamed) \cup strays \cup {m.file_num} /\ BlockLost
      <4>1. PICK kept : disk' = Noted(e, m.file_num, kept)
        BY ONLY <3>3 DEF Noted
      <4>2. /\ torn \subseteq torn' /\ m.file_num \in torn' /\ Leftover(writer, renamed) \subseteq torn'
            /\ writer.stream # Closed => writer.file_num \in torn' /\ writer.into \in torn'
        BY ONLY <3>3
      <4> HIDE DEF strays
      <4> QED BY <1>1, <2>1, <2>5, <2>10, <2>12, <3>3, <4>1, <4>2, FileNotCreatedStep DEF BlockLost
    <3> HIDE DEF strays
    <3> QED BY ONLY <2>11, <3>1, <3>2, <3>3
  <2> QED BY <1>0, <1>1, <2>13
<1> QED BY <1>3, <1>4

\* Done at the writer: all files have arrived or are excused, and the last one gets its name.
LEMMA JobDoneStep ==
  ASSUME IInv, toWriter # <<>>, NEW m, m = Head(toWriter), toWriter' = Tail(toWriter),
         m.type = "done", writer # NoJob,
         NEW renamed, NEW removed, disk' = modify_time(disk, writer, renamed, removed),
         torn' = torn \cup Leftover(writer, renamed), failed' = failed \cup Unnamed(writer, renamed),
         writer' = NoJob,
         status' \in {status, "done"},
         toReader' = toReader \/ (direction = "upload" /\ Grown(toReader, toReader', m)),
         UNCHANGED <<asked, skips>>,
         UNCHANGED <<source, reader, direction, strategy, saved, first, lost>>
  PROVE  IInv' /\ \A f \in Files : Settled(f)'
<1>0. /\ Len(toWriter) \in Nat /\ Len(toReader) \in Nat
      /\ reader # NoJob => reader.file_num \in Nat
      /\ writer # NoJob => writer.file_num \in Nat
  BY QueuesThere, ReaderThere, WriterThere
<1>3. Popped(toWriter, toWriter') /\ m = toWriter[1] /\ 1 \in Indices(toWriter)
  BY TakeHead, QueuesThere
<1>4. saved = NotSaved /\ status # "none" /\ ~SendPending /\ m.type \in ToWriterTypes /\ IsMessage(m)
  BY <1>0, <1>3 DEF IInv, Protocol, IdleOK, Idle, SendOK, SendPending, Indices, Shapes, MessagesOK
<1>7. /\ \A i \in Indices(toReader') : toReader'[i] = m \/ \E j \in Indices(toReader) :
           toReader'[i] = toReader[j]
      /\ Len(toReader') \in Nat /\ ~SendPending' /\ IsQueue(toReader')
      /\ \A i \in Indices(toReader') : toReader'[i].type # "send"
      /\ direction = "upload" \/ toReader' = toReader
  <2>1. CASE toReader' = toReader
    <3>1. \A i \in Indices(toReader) : toReader[i].type # "send"
      BY <1>0, <1>3 DEF IInv, Protocol, SendOK, Indices
    <3> QED BY <1>0, <1>4, <2>1, <3>1, QueuesThere DEF SendPending
  <2>2. CASE direction = "upload" /\ Grown(toReader, toReader', m)
    <3>1. \A i \in Indices(toReader') : toReader'[i] = m \/ \E j \in Indices(toReader) :
            toReader'[i] = toReader[j]
      BY ONLY <1>0, <2>2 DEF Grown, Indices
    <3>2. \A i \in Indices(toReader) : toReader[i].type # "send"
      BY <2>2 DEF IInv, Shapes, MessagesOK
    <3>3. IsQueue(toReader') /\ Len(toReader') \in Nat
      BY <2>2 DEF Grown, IsQueue
    <3>4. m.type # "send"
      OBVIOUS
    <3>5. ~SendPending'
      BY ONLY <3>1, <3>2, <3>3, <3>4 DEF SendPending, Indices
    <3> QED BY ONLY <2>2, <3>1, <3>2, <3>3, <3>4, <3>5
  <2> QED BY <2>1, <2>2
<1>5. /\ \A g : ~Coming(g)
      /\ \A i \in Indices(toWriter') : toWriter'[i].type \notin {"receive", "block"}
  <2>1. ASSUME NEW i \in Indices(toWriter), toWriter[i].type = "block" PROVE FALSE
    <3>1. toWriter[1].type \in {"block", "confirm"}
      BY <1>0, <1>3, <2>1 DEF IInv, Protocol, BlocksOK, Indices
    <3> QED BY <1>3, <3>1
  <2>2. \A i \in Indices(toWriter') : toWriter'[i].type # "receive"
    BY <1>0, <1>3 DEF IInv, Protocol, ReceiveOK, Popped, Indices
  <2>3. \A i \in Indices(toWriter') : toWriter'[i].type # "block"
    BY <1>0, <1>3, <2>1 DEF Popped
  <2> QED BY <2>1, <2>2, <2>3 DEF Coming, LastBlock
<1>1. reader = NoJob /\ ReaderAt = NFiles
  <2>1. reader = NoJob
    BY <1>3 DEF IInv, Protocol, EndOK, Has
  <2> QED BY <1>4, <2>1 DEF ReaderAt
<1>2. /\ IsDisk(disk')
      /\ \A f \in Files : disk'[f].download # Absent =>
           disk'[f].download = disk[f].download /\ disk'[f].digest \in {NoDigest, disk[f].digest}
  <2>1. IsDisk(disk)
    BY DEF IInv, Shapes, JobsOK
  <2>2. PICK n : n = writer.file_num
    OBVIOUS
  <2>3. /\ IsDisk(disk') /\ \A g \in Files : g # n => disk'[g] = disk[g]
        /\ n \in Files => /\ disk'[n].download \in {Absent, disk[n].download}
                          /\ disk'[n].digest \in {NoDigest, disk[n].digest}
    BY ONLY <2>1, <2>2, disk' = modify_time(disk, writer, renamed, removed), Renamed
  <2> QED BY ONLY <2>3
<1>9. Excused \subseteq Excused'
  BY DEF Excused
<1>8. /\ torn \subseteq torn' /\ torn' \subseteq Files /\ failed' \subseteq Files
      /\ \A f \in Files : Settled(f)'
  <2>1. torn \subseteq torn' /\ torn' \subseteq Files /\ failed' \subseteq Files
    BY DEF IInv, Shapes, NumbersOK, Leftover, Unnamed, PartOf
  <2>2. ASSUME NEW f \in Files PROVE Settled(f)'
    BY <1>1, <1>4, <1>5, <2>1, AllNamed
  <2> QED BY <2>1, <2>2
<1> USE <1>0, <1>1, <1>2, <1>3, <1>4, <1>5, <1>7, <1>8
<1>a. Shapes'
  <2>1. JobsOK'
    BY DEF IInv, Shapes, JobsOK, Popped
  <2>2. MessagesOK'
    <3>1. \A i \in Indices(toWriter') : \E j \in Indices(toWriter) : toWriter'[i] = toWriter[j]
      BY ONLY <1>0, <1>3 DEF Popped, Indices
    <3>2. direction = "upload" => m.type \in {"done", "error"}
      OBVIOUS
    <3> QED BY ONLY <1>3, <1>4, <1>7, <3>1, <3>2, IInv, UNCHANGED direction,
        m.type \in {"done", "error"}
            DEF IInv, Shapes, MessagesOK, ToReaderTypes
  <2>3. NumbersOK'
    BY DEF IInv, Shapes, NumbersOK
  <2> QED BY <2>1, <2>2, <2>3 DEF Shapes
<1>b. Protocol'
  <2> USE DEF Popped, Indices, Has, ReaderOpen, Confirmed, WriterOpen, Waiting, Answer
  <2>1. IdleOK'
    BY DEF IInv, Protocol, IdleOK, Idle
  <2>2. ReceiveOK'
    BY DEF IInv, Protocol, ReceiveOK
  <2>3. SendOK'
    BY DEF IInv, Protocol, SendOK
  <2>4. DigestOK'
    BY DigestPopped
  <2>5. AnswersOK'
    BY DEF IInv, Protocol, AnswersOK, Answer
  <2>6. ReaderOK'
    BY ReaderPopped
  <2>7. BlocksOK'
    BY DEF IInv, Protocol, BlocksOK
  <2>8. ConfirmOK'
    BY DEF IInv, Protocol, ConfirmOK
  <2>9. WriterOK'
    BY DEF IInv, Protocol, WriterOK, Deserted, Answer
  <2>10. EndOK'
    BY DEF IInv, Protocol, EndOK
  <2> QED BY <2>1, <2>2, <2>3, <2>4, <2>5, <2>6, <2>7, <2>8, <2>9, <2>10 DEF Protocol
<1>c. Contents'
  <2> USE DEF Popped, Indices, Has, ReaderOpen, Confirmed, WriterOpen, Waiting, Answer
  <2>1. PartsOK'
    <3> SUFFICES ASSUME NEW f \in Files, f \notin torn', disk'[f].download # Absent,
                        disk'[f].digest # NoDigest
                 PROVE  (\E p \in Nat : Holds(f, disk[f].digest, p))'
      BY DEF PartsOK
    <3>1. disk'[f].download = disk[f].download /\ disk'[f].digest = disk[f].digest /\ f \notin torn
      BY ONLY <1>2, <1>8, f \in Files, f \notin torn', disk'[f].download # Absent,
              disk'[f].digest # NoDigest
    <3>2. PICK p \in Nat : Holds(f, disk[f].digest, p)
      BY <3>1 DEF IInv, Contents, PartsOK
    <3> QED BY ONLY <3>1, <3>2 DEF Holds
  <2>2. OpenOK'
    BY DEF IInv, Contents, OpenOK, Holds
  <2>3. OffersOK'
    BY DEF IInv, Contents, OffersOK, Holds
  <2>4. StreamOK'
    BY DEF IInv, Contents, StreamOK, Base
  <2> QED BY <2>1, <2>2, <2>3, <2>4 DEF Contents
<1>d. Owed'
  <2> USE DEF Popped, Indices, Has, ReaderOpen, Confirmed, WriterOpen, Waiting, Answer
  <2>1. SkipsOK'
    BY DEF IInv, Owed, SkipsOK
  <2>2. PassedOK'
    BY FilesNat DEF IInv, Owed, PassedOK, ReaderAt, SendPending, Settled, Arrived,
       Excused, Coming
  <2>3. PendingOK'
    BY FilesNat DEF IInv, Owed, PendingOK, ReaderAt, SendPending, Settled, Arrived,
       Excused, Coming
  <2>4. ErrorOK'
    BY FilesNat DEF IInv, Owed, ErrorOK, ReaderAt, SendPending, Settled, Arrived,
       Excused, Coming
  <2>5. OverOK'
    BY FilesNat DEF IInv, Owed, OverOK, ReaderAt, SendPending, Settled, Arrived,
       Excused, Coming
  <2> QED BY <2>1, <2>2, <2>3, <2>4, <2>5 DEF Owed
<1> QED BY <1>8, <1>a, <1>b, <1>c, <1>d DEF IInv

\* Error at the writer: what it had not come to is excused.
LEMMA JobErrorStep ==
  ASSUME IInv, toWriter # <<>>, NEW m, m = Head(toWriter), toWriter' = Tail(toWriter),
         m.type = "error", writer # NoJob, writer' = NoJob,
         failed' = failed \cup {f \in Files : f = writer.file_num /\ writer.stream # Closed},
         status' \in {status, "error"},
         toReader' = toReader \/ (direction = "upload" /\ Grown(toReader, toReader', m)),
         UNCHANGED <<disk, asked, skips, torn>>,
         UNCHANGED <<source, reader, direction, strategy, saved, first, lost>>
  PROVE  IInv'
<1>0. /\ Len(toWriter) \in Nat /\ Len(toReader) \in Nat
      /\ reader # NoJob => reader.file_num \in Nat
      /\ writer # NoJob => writer.file_num \in Nat
  BY QueuesThere, ReaderThere, WriterThere
<1>3. Popped(toWriter, toWriter') /\ m = toWriter[1] /\ 1 \in Indices(toWriter)
  BY TakeHead, QueuesThere
<1>4. saved = NotSaved /\ status # "none" /\ ~SendPending /\ m.type \in ToWriterTypes /\ IsMessage(m)
  BY <1>0, <1>3 DEF IInv, Protocol, IdleOK, Idle, SendOK, SendPending, Indices, Shapes, MessagesOK
<1>6. reader # NoJob => asked = {} /\ \A i \in Indices(toReader) : ~Answer(toReader[i])
  <2>1. ~Waiting
    BY <1>0, <1>3 DEF IInv, Protocol, ReaderOK, Indices
  <2> QED BY <2>1 DEF IInv, Protocol, AnswersOK
<1>7. /\ \A i \in Indices(toReader') : toReader'[i] = m \/ \E j \in Indices(toReader) :
           toReader'[i] = toReader[j]
      /\ Len(toReader') \in Nat /\ ~SendPending' /\ IsQueue(toReader')
      /\ \A i \in Indices(toReader') : toReader'[i].type # "send"
      /\ direction = "upload" \/ toReader' = toReader
  <2>1. CASE toReader' = toReader
    <3>1. \A i \in Indices(toReader) : toReader[i].type # "send"
      BY <1>0, <1>3 DEF IInv, Protocol, SendOK, Indices
    <3> QED BY <1>0, <1>4, <2>1, <3>1, QueuesThere DEF SendPending
  <2>2. CASE direction = "upload" /\ Grown(toReader, toReader', m)
    <3>1. \A i \in Indices(toReader') : toReader'[i] = m \/ \E j \in Indices(toReader) :
            toReader'[i] = toReader[j]
      BY ONLY <1>0, <2>2 DEF Grown, Indices
    <3>2. \A i \in Indices(toReader) : toReader[i].type # "send"
      BY <2>2 DEF IInv, Shapes, MessagesOK
    <3>3. IsQueue(toReader') /\ Len(toReader') \in Nat
      BY <2>2 DEF Grown, IsQueue
    <3>4. m.type # "send"
      OBVIOUS
    <3>5. ~SendPending'
      BY ONLY <3>1, <3>2, <3>3, <3>4 DEF SendPending, Indices
    <3> QED BY ONLY <2>2, <3>1, <3>2, <3>3, <3>4, <3>5
  <2> QED BY <2>1, <2>2
<1>5. /\ \A g : ~Coming(g)
      /\ \A i \in Indices(toWriter') : toWriter'[i].type \notin {"receive", "block"}
  <2>1. ASSUME NEW i \in Indices(toWriter), toWriter[i].type = "block" PROVE FALSE
    <3>1. toWriter[1].type \in {"block", "confirm"}
      BY <1>0, <1>3, <2>1 DEF IInv, Protocol, BlocksOK, Indices
    <3> QED BY <1>3, <3>1
  <2>2. \A i \in Indices(toWriter') : toWriter'[i].type # "receive"
    BY <1>0, <1>3 DEF IInv, Protocol, ReceiveOK, Popped, Indices
  <2>3. \A i \in Indices(toWriter') : toWriter'[i].type # "block"
    BY <1>0, <1>3, <2>1 DEF Popped
  <2> QED BY <2>1, <2>2, <2>3 DEF Coming, LastBlock
<1>1. failed' \subseteq Files
  BY DEF IInv, Shapes, NumbersOK
<1>2. ReaderAt' = ReaderAt /\ Excused \subseteq Excused'
  <2>1. Excused \subseteq Excused'
    BY DEF Excused
  <2> QED BY <1>4, <1>7, <2>1 DEF ReaderAt
<1>8. \A f \in Files : Settled(f)'
  <2> SUFFICES ASSUME NEW f \in Files PROVE Settled(f)'
    OBVIOUS
  <2>1. f >= ReaderAt => f \in Excused
    BY <1>3 DEF IInv, Owed, ErrorOK, Has
  <2>2. f < writer.file_num => Settled(f)
    BY DEF IInv, Owed, PassedOK
  <2>3. f < ReaderAt /\ f >= writer.file_num =>
          f \in Excused \/ (f = writer.file_num /\ writer.stream # Closed)
    BY <1>5 DEF IInv, Owed, PassedOK
  <2>4. Settled(f) => Settled(f)'
    BY <1>2 DEF Settled, Arrived
  <2>5. f = writer.file_num /\ writer.stream # Closed => f \in Excused'
    BY DEF Excused
  <2>6. f \in Nat /\ ReaderAt \in Nat /\ writer.file_num \in Nat
    BY <1>0, <1>4, FilesNat DEF ReaderAt
  <2>7. f \in Excused => f \in Excused'
    BY <1>2
  <2> QED BY ONLY <2>1, <2>2, <2>3, <2>4, <2>5, <2>6, <2>7 DEF Settled
<1> USE <1>0, <1>1, <1>2, <1>3, <1>4, <1>5, <1>6, <1>7, <1>8
<1>a. Shapes'
  <2>1. JobsOK'
    BY DEF IInv, Shapes, JobsOK, Popped
  <2>2. MessagesOK'
    <3>1. \A i \in Indices(toWriter') : \E j \in Indices(toWriter) : toWriter'[i] = toWriter[j]
      BY ONLY <1>0, <1>3 DEF Popped, Indices
    <3>2. direction = "upload" => m.type \in {"done", "error"}
      OBVIOUS
    <3> QED BY ONLY <1>3, <1>4, <1>7, <3>1, <3>2, IInv, UNCHANGED direction,
        m.type \in {"done", "error"}
            DEF IInv, Shapes, MessagesOK, ToReaderTypes
  <2>3. NumbersOK'
    BY DEF IInv, Shapes, NumbersOK
  <2> QED BY <2>1, <2>2, <2>3 DEF Shapes
<1>b. Protocol'
  <2> USE DEF Popped, Indices, Has, ReaderOpen, Confirmed, WriterOpen, Waiting, Answer
  <2>1. IdleOK'
    BY DEF IInv, Protocol, IdleOK, Idle
  <2>2. ReceiveOK'
    BY DEF IInv, Protocol, ReceiveOK
  <2>3. SendOK'
    BY DEF IInv, Protocol, SendOK
  <2>4. DigestOK'
    BY DigestPopped
  <2>5. AnswersOK'
    BY DEF IInv, Protocol, AnswersOK, Answer
  <2>6. ReaderOK'
    BY ReaderPopped
  <2>7. BlocksOK'
    BY DEF IInv, Protocol, BlocksOK
  <2>8. ConfirmOK'
    BY DEF IInv, Protocol, ConfirmOK
  <2>9. WriterOK'
    BY DEF IInv, Protocol, WriterOK, Deserted, Answer
  <2>10. EndOK'
    BY DEF IInv, Protocol, EndOK
  <2> QED BY <2>1, <2>2, <2>3, <2>4, <2>5, <2>6, <2>7, <2>8, <2>9, <2>10 DEF Protocol
<1>c. Contents'
  <2> USE DEF Popped, Indices, Has, ReaderOpen, Confirmed, WriterOpen, Waiting, Answer
  <2>1. PartsOK'
    BY DEF IInv, Contents, PartsOK, Holds
  <2>2. OpenOK'
    BY DEF IInv, Contents, OpenOK, Holds
  <2>3. OffersOK'
    BY DEF IInv, Contents, OffersOK, Holds
  <2>4. StreamOK'
    BY DEF IInv, Contents, StreamOK, Base
  <2> QED BY <2>1, <2>2, <2>3, <2>4 DEF Contents
<1>d. Owed'
  <2> USE DEF Popped, Indices, Has, ReaderOpen, Confirmed, WriterOpen, Waiting, Answer
  <2>1. SkipsOK'
    BY DEF IInv, Owed, SkipsOK
  <2>2. PassedOK'
    BY FilesNat DEF IInv, Owed, PassedOK, ReaderAt, SendPending, Settled, Arrived,
       Excused, Coming
  <2>3. PendingOK'
    BY FilesNat DEF IInv, Owed, PendingOK, ReaderAt, SendPending, Settled, Arrived,
       Excused, Coming
  <2>4. ErrorOK'
    BY FilesNat DEF IInv, Owed, ErrorOK, ReaderAt, SendPending, Settled, Arrived,
       Excused, Coming
  <2>5. OverOK'
    BY FilesNat DEF IInv, Owed, OverOK, ReaderAt, SendPending, Settled, Arrived,
       Excused, Coming
  <2> QED BY <2>1, <2>2, <2>3, <2>4, <2>5 DEF Owed
<1> QED BY <1>a, <1>b, <1>c, <1>d DEF IInv

-----------------------------------------------------------------------------
(* Every action keeps the invariant and is a step of FileDelivery, here in *)
(* the terms of this module.                                               *)

Advances ==
  /\ status # "none"
  /\ Excused \subseteq Excused'
  /\ \A f \in Files : disk'[f].name # disk[f].name => Settled(f)'
  /\ status' \in {status, "done", "error"}
  /\ status' = "done" /\ status # "done" => \A f \in Files : Settled(f)'
  /\ UNCHANGED <<source, first>>

Starts ==
  /\ status' = "running"
  /\ first' \in {first, source}
  /\ Excused' \subseteq Excused
  /\ UNCHANGED <<disk, source>>

Implements == Advances \/ Starts \/ SourceChanges

\* There is a status as long as there is anything to do.
LEMMA Active ==
  ASSUME IInv, reader # NoJob \/ toReader # <<>> \/ toWriter # <<>>
  PROVE  status # "none"
BY ShortQueues, QueuesThere DEF IInv, Protocol, IdleOK, Idle

\* The actions of a reader by itself keep the invariant, and are Progress or nothing at all.
LEMMA ReaderActs ==
  ASSUME IInv, OpenFile \/ OpenFails \/ ReadBlock \/ ReadFails \/ JobCompleted
  PROVE  IInv' /\ Advances
<1>1. reader # NoJob
  BY DEF OpenFile, OpenFails, ReadBlock, ReadFails, JobCompleted
<1>2. IInv'
  <2>1. CASE OpenFile
    BY <2>1, OpenFileStep
  <2>2. CASE OpenFails
    BY <2>2, OpenFailsStep DEF OpenFails
  <2>3. CASE ReadBlock
    <3>1. PICK pos : pos = reader.stream.pos
      OBVIOUS
    <3>2. CASE pos < Size[reader.file_num]
                 /\ ReaderSends(<<[type |-> "block", file_num |-> reader.file_num, data |-> << <<source, pos + 1>> >>]>>)
               /\ reader' = [reader EXCEPT !.stream = StreamAt(pos + 1)]
      BY <2>3, <3>1, <3>2, ReadBlockStep DEF ReadBlock
    <3>3. CASE pos >= Size[reader.file_num]
                 /\ ReaderSends(<<[type |-> "block", file_num |-> reader.file_num, data |-> <<>>]>>)
               /\ reader' = [reader EXCEPT !.stream = Closed, !.file_confirmed = FALSE,
                                        !.file_is_waiting = FALSE, !.file_num = reader.file_num + 1]
      BY <2>3, <3>1, <3>3, ReadEndStep DEF ReadBlock
    <3> QED BY <2>3, <3>1, <3>2, <3>3 DEF ReadBlock
  <2>4. CASE ReadFails
    <3>1. reader' = [reader EXCEPT !.stream = Closed, !.file_confirmed = FALSE,
                                   !.file_is_waiting = FALSE, !.file_num = reader.file_num + 1]
      BY <2>4 DEF ReadFails
    <3> QED BY <2>4, <3>1, ReadFailsStep DEF ReadFails
  <2>5. CASE JobCompleted
    <3>1. PICK t \in {"error", "done"} : ReaderSends(<<[type |-> t]>>)
      BY <2>5 DEF JobCompleted
    <3> QED BY <2>5, <3>1, JobCompletedStep DEF JobCompleted
  <2> QED BY <2>1, <2>2, <2>3, <2>4, <2>5
<1>3. /\ UNCHANGED <<source, first, disk, status, skips, lost, torn>> /\ failed \subseteq failed'
  BY DEF OpenFile, OpenFails, ReadBlock, ReadFails, JobCompleted, history
<1>4. Advances
  BY <1>1, <1>3, Active DEF Advances, Excused
<1> QED BY <1>2, <1>4

\* The client's decision is to skip a file, to have all of it or the rest of it.
LEMMA DecisionFacts ==
  ASSUME IInv, NEW n, NEW k, NEW c \in Decision(n, k)
  PROVE  c = Skip(n) \/ c = OffsetBlk(n, 0) \/ (c = OffsetBlk(n, k) /\ k > 0)
<1>1. strategy \in {"ask", "overwrite", "skip"}
  BY DEF IInv, Shapes, NumbersOK
<1>2. CASE resume /\ k > 0
  BY <1>2 DEF Decision
<1>3. CASE ~(resume /\ k > 0)
  <2>1. CASE strategy = "ask"
    BY <1>3, <2>1 DEF Decision
  <2>2. CASE strategy = "overwrite"
    BY <1>3, <2>2 DEF Decision
  <2>3. CASE strategy = "skip"
    BY <1>3, <2>3 DEF Decision
  <2> QED BY <1>1, <2>1, <2>2, <2>3
<1> QED BY <1>2, <1>3

\* A message at the reader's side: the invariant is kept, and the step is Progress.
LEMMA ReaderReceivesStep ==
  ASSUME IInv, ReaderReceives
  PROVE  IInv' /\ Advances
<1>0. PICK m : m = Head(toReader)
  OBVIOUS
<1>1. /\ toReader # <<>> /\ toReader' = Tail(toReader) /\ status # "none"
      /\ UNCHANGED <<source, disk, writer, direction, strategy, saved, first, lost, failed>>
  BY Active DEF ReaderReceives, uiVars
<1>2. 1 \in Indices(toReader) /\ m = toReader[1]
  BY <1>0, <1>1, QueuesThere, TakeHead
<1>3. ASSUME Excused \subseteq Excused', UNCHANGED status PROVE Advances
  BY <1>1, <1>3 DEF Advances
<1>4. CASE m.type = "send" /\ reader' = NewReader(m.file_num)
             /\ UNCHANGED <<asked, toWriter, status, skips, torn>>
  <2>1. IInv'
    BY <1>0, <1>1, <1>4, ReaderStartsStep
  <2>2. Advances
    BY <1>1, <1>3, <1>4 DEF Excused
  <2> QED BY <2>1, <2>2
<1>5. CASE m.type = "cancel" /\ reader' = NoJob /\ UNCHANGED <<asked, toWriter, status, skips, torn>>
  <2>1. IInv'
    BY <1>0, <1>1, <1>5, ReaderCancelledStep
  <2>2. Advances
    BY <1>1, <1>3, <1>5 DEF Excused
  <2> QED BY <2>1, <2>2
<1>6. CASE /\ m.type = "confirm"
           /\ \/ reader = NoJob /\ UNCHANGED <<reader, torn>>
              \/ /\ reader # NoJob /\ \E sought : reader' = ReaderConfirmed(reader, m, sought)
                 /\ torn' = torn \cup Astray(reader', m)
           /\ UNCHANGED <<asked, toWriter, status, skips>>
  <2>1. ASSUME reader = NoJob, UNCHANGED <<reader, torn>> PROVE IInv'
    BY <1>0, <1>1, <1>6, <2>1, ReaderTakesStep
  <2>2. ASSUME reader # NoJob, NEW sought, reader' = ReaderConfirmed(reader, m, sought),
               torn' = torn \cup Astray(reader', m)
        PROVE  IInv'
    <3>1. CASE m.skip
      BY <1>0, <1>1, <1>6, <2>2, <3>1, ReaderSkipsStep
    <3>2. CASE ~m.skip
      BY <1>0, <1>1, <1>6, <2>2, <3>2, ReaderConfirmedStep
    <3> QED BY <3>1, <3>2
  <2>3. Advances
    BY <1>1, <1>3, <1>6 DEF Excused
  <2> QED BY <1>6, <2>1, <2>2, <2>3
<1>7. CASE /\ m.type = "digest"
           /\ \/ reader = NoJob /\ UNCHANGED <<reader, asked, toWriter, skips, torn>>
              \/ reader # NoJob /\ asked' = asked \cup {m.file_num}
                   /\ UNCHANGED <<reader, toWriter, skips, torn>>
              \/ \E c \in Decision(m.file_num, m.transferred) :
                   /\ reader # NoJob /\ \E sought : reader' = ReaderConfirmed(reader, c, sought)
                   /\ ReaderSends(<<c>>)
                   /\ skips' = skips \cup Skipped(c) /\ torn' = torn \cup Astray(reader', c)
                   /\ UNCHANGED asked
           /\ UNCHANGED status
  <2>1. ASSUME reader = NoJob, UNCHANGED <<reader, asked, toWriter, skips, torn>> PROVE IInv'
    BY <1>0, <1>1, <1>7, <2>1, ReaderTakesStep
  <2>2. ASSUME reader # NoJob, asked' = asked \cup {m.file_num},
               UNCHANGED <<reader, toWriter, skips, torn>>
        PROVE  IInv'
    BY <1>0, <1>1, <1>7, <2>2, ReaderAsksStep
  <2>3. ASSUME \E c \in Decision(m.file_num, m.transferred) :
               /\ reader # NoJob /\ \E sought : reader' = ReaderConfirmed(reader, c, sought)
                   /\ ReaderSends(<<c>>)
               /\ skips' = skips \cup Skipped(c) /\ torn' = torn \cup Astray(reader', c)
               /\ UNCHANGED asked
        PROVE  IInv'
    <3>1. PICK c \in Decision(m.file_num, m.transferred) :
               /\ reader # NoJob /\ \E sought : reader' = ReaderConfirmed(reader, c, sought)
                   /\ ReaderSends(<<c>>)
               /\ skips' = skips \cup Skipped(c) /\ torn' = torn \cup Astray(reader', c)
               /\ UNCHANGED asked
      BY <2>3
    <3>2. c \in {OffsetBlk(m.file_num, m.transferred), OffsetBlk(m.file_num, 0), Skip(m.file_num)}
      BY DecisionFacts
    <3>3. CASE c.skip
      BY <1>0, <1>1, <1>7, <3>1, <3>2, <3>3, ReaderAgreesToSkipStep
    <3>4. CASE ~c.skip
      BY <1>0, <1>1, <1>7, <3>1, <3>2, <3>4, ReaderAgreesStep
    <3> QED BY <3>3, <3>4
  <2>4. skips \subseteq skips' /\ torn \subseteq torn'
    BY <1>7
  <2>5. Advances
    BY <1>1, <1>3, <1>7, <2>4 DEF Excused
  <2> QED BY <1>7, <2>1, <2>2, <2>3, <2>5
<1>8. CASE m.type \in {"done", "error"} /\ status' = m.type
             /\ UNCHANGED <<reader, asked, toWriter, skips, torn>>
  <2>1. IInv'
    BY <1>0, <1>1, <1>8, ReaderTakesStep
  <2>2. m.type = "done" => \A f \in Files : Settled(f)
    BY <1>2 DEF IInv, Owed, OverOK, Has
  <2>3. \A f \in Files : Settled(f) => Settled(f)'
    BY <1>1, <1>8 DEF Settled, Arrived, Excused
  <2>4. Excused \subseteq Excused'
    BY <1>1, <1>8 DEF Excused
  <2>5. Advances
    BY <1>1, <1>8, <2>2, <2>3, <2>4 DEF Advances
  <2> QED BY <2>1, <2>5
<1> QED BY <1>0, <1>4, <1>5, <1>6, <1>7, <1>8 DEF ReaderReceives

\* TransferJob::confirm at the writer, in all its cases.
LEMMA ConfirmAtWriter ==
  ASSUME IInv, toWriter # <<>>, NEW m, m = Head(toWriter), toWriter' = Tail(toWriter),
         m.type = "confirm", writer # NoJob,
         NEW sought, writer' = WriterConfirmed(writer, m, sought), torn' = torn \cup Astray(writer', m),
         UNCHANGED <<disk, asked, toReader, status, skips, failed>>,
         UNCHANGED <<source, reader, direction, strategy, saved, first, lost>>
  PROVE  IInv'
<1>1. CASE m.file_num # writer.file_num
  BY <1>1, WriterIgnoresStep
<1>2. CASE m.file_num = writer.file_num /\ m.skip
  BY <1>2, WriterSkipsStep
<1>3. CASE m.file_num = writer.file_num /\ ~m.skip
  BY <1>3, WriterSeeksStep
<1> QED BY <1>1, <1>2, <1>3

\* A digest at the client's writer: asked, decided by the strategy, or not there.
LEMMA DigestAtClientStep ==
  ASSUME IInv, toWriter # <<>>, NEW m, m = Head(toWriter), toWriter' = Tail(toWriter),
         DigestAtClient(m),
         UNCHANGED <<source, reader, direction, strategy, saved, first, lost>>
  PROVE  IInv'
<1>0. PICK n : n = m.file_num
  OBVIOUS
<1>1. /\ m.type = "digest" /\ direction = "download" /\ writer # NoJob
      /\ UNCHANGED <<disk, status, failed>>
  BY DEF DigestAtClient
<1>s. PICK readable, sought \in Succeeds :
        LET there == NeedConfirm(n, m.version, readable)
            decided == IF there = {} THEN {OffsetBlk(n, 0)}
                       ELSE UNION {Decision(n, k) : k \in there}
        IN  \/ /\ writer' = [writer EXCEPT !.digest = m.version]
               /\ asked' = asked \cup {n}
               /\ UNCHANGED <<toReader, skips, torn>>
            \/ \E c \in decided :
                 /\ writer' = WriterConfirmed([writer EXCEPT !.digest = m.version], c, sought)
                 /\ WriterSends(<<c>>)
                 /\ skips' = skips \cup Skipped(c)
                 /\ torn' = torn \cup Astray(writer', c)
                 /\ UNCHANGED asked
            \/ /\ writer' = [[writer EXCEPT !.digest = m.version] EXCEPT !.unanswered = TRUE]
               /\ UNCHANGED <<asked, toReader, skips, torn>>
  BY ONLY <1>0, DigestAtClient(m), Zenon DEF DigestAtClient
<1>2. PICK there : there = NeedConfirm(n, m.version, readable)
  OBVIOUS
<1>3. PICK decided : decided = IF there = {} THEN {OffsetBlk(n, 0)}
                               ELSE UNION {Decision(n, k) : k \in there}
  OBVIOUS
<1>4. n \in Files /\ m.version # NoDigest
  <2>1. m = toWriter[1] /\ 1 \in Indices(toWriter)
    BY TakeHead, QueuesThere
  <2>2. m.version = source
    BY <1>1, <2>1 DEF IInv, Protocol, DigestOK
  <2> QED BY <1>0, <1>1, <2>1, <2>2 DEF IInv, Shapes, MessagesOK, IsMessage, NumbersOK
<1>5. ASSUME NEW c \in decided
      PROVE  /\ IsConfirm(c) /\ c.type = "confirm" /\ c.file_num = n
             /\ c.skip => c.offset = 0
             /\ ~c.skip => c.offset = 0 \/ c.offset > 0
             /\ c.offset # 0 /\ n \notin torn => Holds(n, m.version, c.offset)
  <2>1. c = OffsetBlk(n, 0) \/ c = Skip(n) \/ \E k \in there : c = OffsetBlk(n, k) /\ k > 0
    <3>1. CASE there = {}
      BY <1>3, <1>5, <3>1
    <3>2. CASE there # {}
      <4>1. PICK k \in there : c \in Decision(n, k)
        BY <1>3, <1>5, <3>2
      <4> QED BY <4>1, DecisionFacts
    <3> QED BY <3>1, <3>2
  <2>2. CASE c = OffsetBlk(n, 0)
    BY <2>2, RequestFacts
  <2>3. CASE c = Skip(n)
    BY <2>3, RequestFacts
  <2>4. ASSUME NEW k \in there, c = OffsetBlk(n, k), k > 0
        PROVE  /\ IsConfirm(c) /\ c.type = "confirm" /\ c.file_num = n /\ ~c.skip /\ c.offset > 0
               /\ c.offset # 0 /\ n \notin torn => Holds(n, m.version, c.offset)
    <3>1. IsConfirm(c) /\ c.type = "confirm" /\ c.file_num = n /\ ~c.skip /\ c.offset = k
      BY <2>4, RequestFacts
    <3>2. k # 0 /\ n \notin torn => Holds(n, m.version, k)
      BY <1>2, <1>4, <2>4, OfferedPart
    <3> QED BY <2>4, <3>1, <3>2
  <2> QED BY <2>1, <2>2, <2>3, <2>4
<1>6. CASE /\ writer' = [writer EXCEPT !.digest = m.version]
           /\ asked' = asked \cup {n}
           /\ UNCHANGED <<toReader, skips, torn>>
  BY <1>0, <1>1, <1>6, ClientAsksStep
<1>7. ASSUME NEW c \in decided,
             writer' = WriterConfirmed([writer EXCEPT !.digest = m.version], c, sought),
         WriterSends(<<c>>),
             skips' = skips \cup Skipped(c), torn' = torn \cup Astray(writer', c), UNCHANGED asked
      PROVE  IInv'
  <2>1. CASE c.skip
    BY <1>0, <1>1, <1>5, <1>7, <2>1, ClientSkipsStep
  <2>2. CASE ~c.skip
    BY <1>0, <1>1, <1>5, <1>7, <2>2, ClientAgreesStep
  <2> QED BY <2>1, <2>2
<1>8. CASE /\ writer' = [[writer EXCEPT !.digest = m.version] EXCEPT !.unanswered = TRUE]
           /\ UNCHANGED <<asked, toReader, skips, torn>>
  BY <1>0, <1>1, <1>8, ClientSaysNothingStep
<1> QED BY ONLY <1>s, <1>2, <1>3, <1>6, <1>7, <1>8

\* The manager's answer to a digest, in both its cases.
LEMMA CheckDigestStep ==
  ASSUME IInv, toWriter # <<>>, NEW m, m = Head(toWriter), toWriter' = Tail(toWriter), CheckDigest(m),
         UNCHANGED <<source, reader, direction, strategy, saved, first, lost>>
  PROVE  IInv'
<1>1. /\ m.type = "digest" /\ direction = "upload" /\ writer # NoJob
      /\ UNCHANGED <<disk, asked, status, skips, torn, failed>>
  BY DEF CheckDigest
<1>2. m.file_num \in Files
  <2>1. m = toWriter[1] /\ 1 \in Indices(toWriter)
    BY TakeHead, QueuesThere
  <2> QED BY <1>1, <2>1 DEF IInv, Shapes, MessagesOK, IsMessage
<1>3. CASE writer' = [writer EXCEPT !.digest = m.version] /\ WriterSends(<<OffsetBlk(m.file_num, 0)>>)
  <2>1. PICK c : c = OffsetBlk(m.file_num, 0)
    OBVIOUS
  <2>2. /\ IsConfirm(c) /\ c.type = "confirm" /\ c.file_num = m.file_num /\ ~c.skip /\ c.offset = 0
        /\ WriterSends(<<c>>)
    BY <1>3, <2>1, RequestFacts
  <2> QED BY <1>1, <1>3, <2>2, ManagerAnswersStep
<1>4. ASSUME NEW readable, NEW k \in NeedConfirm(m.file_num, m.version, readable),
             writer' = [writer EXCEPT !.digest = m.version],
             WriterSends(<<[type |-> "digest", file_num |-> m.file_num, transferred |-> k]>>)
      PROVE  IInv'
  <2>1. PICK c : c = [type |-> "digest", file_num |-> m.file_num, transferred |-> k]
    OBVIOUS
  <2>2. c.type = "digest" /\ c.file_num = m.file_num /\ c.transferred = k /\ WriterSends(<<c>>)
    BY <1>4, <2>1
  <2>3. m.version # NoDigest /\ k # 0 /\ m.file_num \notin torn => Holds(m.file_num, m.version, k)
    BY <1>2, OfferedPart
  <2> QED BY <1>1, <1>4, <2>2, <2>3, ManagerAnswersStep
<1>5. CASE UNCHANGED writer /\ WriterSends(<<[type |-> "error"]>>)
  BY <1>1, <1>5, ManagerFailsStep
<1> QED BY <1>3, <1>4, <1>5 DEF CheckDigest

\* Done at the writer, and at the upload's client when the manager passes it back.
LEMMA WriteDoneStep ==
  ASSUME IInv, toWriter # <<>>, NEW m, m = Head(toWriter), toWriter' = Tail(toWriter), WriteDone(m),
         UNCHANGED <<source, reader, direction, strategy, saved, first, lost>>
  PROVE  IInv' /\ \A f \in Files : Settled(f)'
<1>1. toReader' = toReader \/ (direction = "upload" /\ Grown(toReader, toReader', m))
  BY SendOne, QueuesThere DEF WriteDone, WriterSends
<1>2. status' \in {status, "done"}
  BY DEF WriteDone
<1>3. PICK renamed, removed \in Succeeds : /\ disk' = modify_time(disk, writer, renamed, removed)
                                         /\ torn' = torn \cup Leftover(writer, renamed)
                                         /\ failed' = failed \cup Unnamed(writer, renamed)
  BY DEF WriteDone
<1> QED BY <1>1, <1>2, <1>3, JobDoneStep DEF WriteDone

\* Error at the writer, and at the upload's client when the manager passes it back.
LEMMA WriteErrorStep ==
  ASSUME IInv, toWriter # <<>>, NEW m, m = Head(toWriter), toWriter' = Tail(toWriter), WriteError(m),
         UNCHANGED <<source, reader, direction, strategy, saved, first, lost>>
  PROVE  IInv'
<1>1. toReader' = toReader \/ (direction = "upload" /\ Grown(toReader, toReader', m))
  BY SendOne, QueuesThere DEF WriteError, WriterSends
<1>2. status' \in {status, "error"}
  BY DEF WriteError
<1> QED BY <1>1, <1>2, JobErrorStep DEF WriteError

\* A partial file that is removed leaves the names alone.
LEMMA NamesKept ==
  ASSUME IInv, NEW part, NEW digest, disk' = remove_download_file(disk, writer, part, digest)
  PROVE  \A f \in Files : disk'[f].name = disk[f].name
<1>1. CASE writer # NoJob
  <2>1. IsDisk(disk)
    BY DEF IInv, Shapes, JobsOK
  <2>2. /\ \A f \in Files : f # writer.file_num => disk'[f] = disk[f]
        /\ writer.file_num \in Files => disk'[writer.file_num].name = disk[writer.file_num].name
    BY <1>1, <2>1, DiskCleared
  <2> QED BY ONLY <2>2
<1>2. CASE writer = NoJob
  BY <1>2 DEF remove_download_file
<1> QED BY <1>1, <1>2

\* A message at the writer's side: the invariant is kept, and the step is Progress.
LEMMA WriterReceivesStep ==
  ASSUME IInv, WriterReceives
  PROVE  IInv' /\ Advances
<1>0. PICK m : m = Head(toWriter)
  OBVIOUS
<1>1. /\ toWriter # <<>> /\ toWriter' = Tail(toWriter) /\ status # "none"
      /\ UNCHANGED <<source, reader, direction, strategy, saved, first, lost>>
  BY Active DEF WriterReceives, uiVars
<1>2. 1 \in Indices(toWriter) /\ m = toWriter[1]
  BY <1>0, <1>1, QueuesThere, TakeHead
<1>3. ASSUME skips \subseteq skips', torn \subseteq torn', failed \subseteq failed',
             status' \in {status, "error"},
             \A f \in Files : disk'[f].name # disk[f].name => Settled(f)'
      PROVE  Advances
  <2>1. Excused \subseteq Excused'
    BY <1>1, <1>3 DEF Excused
  <2> QED BY <1>1, <1>3, <2>1 DEF Advances
<1>4. CASE m.type = "receive" /\ writer' = NewWriter(m.file_num)
           /\ UNCHANGED <<disk, asked, toReader, status, skips, torn, failed>>
  <2>1. IInv'
    BY <1>0, <1>1, <1>4, WriterStartsStep
  <2> QED BY <1>3, <1>4, <2>1
<1>5. CASE /\ m.type = "cancel" /\ writer # NoJob
           /\ \E part, digest : disk' = remove_download_file(disk, writer, part, digest)
           /\ writer' = NoJob
           /\ UNCHANGED <<asked, toReader, status, skips, torn, failed>>
  <2>1. IInv'
    BY <1>0, <1>1, <1>5, WriterCancelledStep
  <2>2. \A f \in Files : disk'[f].name = disk[f].name
    BY <1>5, NamesKept
  <2> QED BY <1>3, <1>5, <2>1, <2>2
<1>6. CASE /\ m.type = "confirm" /\ writer # NoJob
           /\ \E sought : writer' = WriterConfirmed(writer, m, sought)
           /\ torn' = torn \cup Astray(writer', m)
           /\ UNCHANGED <<disk, asked, toReader, status, skips, failed>>
  <2>1. IInv'
    BY <1>0, <1>1, <1>6, ConfirmAtWriter
  <2> QED BY <1>3, <1>6, <2>1
<1>7. CASE WriteBlock(m)
  <2>1. /\ IInv' /\ \A g \in Files : disk'[g].name # disk[g].name => Settled(g)'
        /\ UNCHANGED <<status, skips>> /\ torn \subseteq torn' /\ failed \subseteq failed'
    BY <1>0, <1>1, <1>7, WriteBlockStep
  <2> QED BY <1>3, <2>1
<1>8. CASE DigestAtClient(m)
  <2>1. IInv'
    BY <1>0, <1>1, <1>8, DigestAtClientStep
  <2>2. UNCHANGED <<disk, status, failed>> /\ torn \subseteq torn' /\ skips \subseteq skips'
    BY <1>8 DEF DigestAtClient
  <2> QED BY <1>3, <2>1, <2>2
<1>9. CASE CheckDigest(m)
  <2>1. IInv'
    BY <1>0, <1>1, <1>9, CheckDigestStep
  <2>2. UNCHANGED <<disk, status, failed, torn, skips>>
    BY <1>9 DEF CheckDigest
  <2> QED BY <1>3, <2>1, <2>2
<1>10. CASE WriteDone(m)
  <2>1. IInv' /\ \A f \in Files : Settled(f)'
    BY <1>0, <1>1, <1>10, WriteDoneStep
  <2>2. /\ torn \subseteq torn' /\ failed \subseteq failed' /\ UNCHANGED skips
        /\ status' \in {status, "done"}
    BY <1>10 DEF WriteDone
  <2>3. Excused \subseteq Excused'
    BY <1>1, <2>2 DEF Excused
  <2> QED BY <1>1, <2>1, <2>2, <2>3 DEF Advances
<1>11. CASE WriteError(m)
  <2>1. IInv'
    BY <1>0, <1>1, <1>11, WriteErrorStep
  <2>2. UNCHANGED <<disk, skips, torn>> /\ failed \subseteq failed' /\ status' \in {status, "error"}
    BY <1>11 DEF WriteError
  <2> QED BY <1>3, <2>1, <2>2
<1>12. CASE WithoutWriter(m)
  <2>1. /\ writer = NoJob /\ m.type # "receive" /\ status' \in {status, "done", "error"}
        /\ UNCHANGED <<disk, writer, asked, toReader, skips, torn, failed>>
        /\ status' = "done" /\ status # "done" => direction = "download" /\ m.type = "done"
    BY <1>12 DEF WithoutWriter
  <2>2. IInv'
    BY <1>0, <1>1, <2>1, WithoutWriterStep
  <2>3. status' = "done" /\ status # "done" => \A f \in Files : Settled(f)
    BY <1>2, <2>1 DEF IInv, Owed, OverOK, Has
  <2>4. \A f \in Files : Settled(f) => Settled(f)'
    BY <1>1, <2>1 DEF Settled, Arrived, Excused
  <2>5. Excused \subseteq Excused'
    BY <1>1, <2>1 DEF Excused
  <2>6. Advances
    BY <1>1, <2>1, <2>3, <2>4, <2>5 DEF Advances
  <2> QED BY <2>2, <2>6
<1> QED BY <1>0, <1>4, <1>5, <1>6, <1>7, <1>8, <1>9, <1>10, <1>11, <1>12 DEF WriterReceives

\* Data::SendFiles keeps the invariant, and is Begin.
LEMMA SendFilesStep ==
  ASSUME IInv, SendFiles
  PROVE  IInv' /\ Starts
<1>1. /\ Idle /\ asked' = {} /\ saved' = NotSaved /\ status' = "running" /\ strategy' = "ask"
      /\ first' = source /\ skips' = {} /\ lost' = {} /\ failed' = {} /\ torn' \subseteq torn
      /\ UNCHANGED <<source, disk, direction>>
      /\ \A f \in torn : disk[f].download # Absent => f \in torn'
  BY ShortQueues DEF SendFiles, Begin, Idle
<1>2. 0 \in Nums /\ torn' \subseteq Files /\ first' \in {first, source}
  BY <1>1, NFilesAssumption DEF Nums, IInv, Shapes, NumbersOK
<1>3. \A f \in Files : f < 0 => Settled(f)'
  BY FilesNat
<1>4. PartsOK'
  BY <1>1 DEF IInv, Contents, PartsOK, Holds
<1>5. skips' \subseteq Files /\ lost' \subseteq Files /\ failed' \subseteq Files
  BY <1>1
<1>6. IInv'
  <2>1. CASE /\ direction = "upload" /\ reader' = NewReader(0)
             /\ toWriter' = <<[type |-> "receive", file_num |-> 0]>> /\ UNCHANGED <<writer, toReader>>
    BY ONLY IInv, <1>1, <1>2, <1>3, <1>4, <1>5, <2>1, BeginUploadStep
  <2>2. CASE /\ direction = "download" /\ writer' = NewWriter(0)
             /\ toReader' = <<[type |-> "send", file_num |-> 0]>> /\ UNCHANGED <<reader, toWriter>>
    BY ONLY IInv, <1>1, <1>2, <1>3, <1>4, <1>5, <2>2, BeginDownloadStep
  <2> QED BY <2>1, <2>2 DEF SendFiles, Begin
<1>7. Starts
  BY <1>1 DEF Starts, Excused
<1> QED BY <1>6, <1>7

\* Data::ResumeJob keeps the invariant, and is Begin.
LEMMA ResumeJobStep ==
  ASSUME IInv, ResumeJob
  PROVE  IInv' /\ Starts
<1>0. PICK n : n = saved
  OBVIOUS
<1>1. /\ Idle /\ asked' = {} /\ saved' = NotSaved /\ status' = "running" /\ strategy' = "ask"
      /\ saved # NotSaved /\ UNCHANGED <<source, disk, direction, first, skips, lost, torn, failed>>
  BY ShortQueues DEF ResumeJob, Begin, Idle, history
<1>2. n \in Nums /\ first' \in {first, source}
  BY <1>0, <1>1, NFilesAssumption DEF Nums, NotSaved, IInv, Shapes, NumbersOK
<1>3. \A f \in Files : f < n => Settled(f)'
  BY <1>0, <1>1 DEF IInv, Owed, OverOK, Settled, Arrived, Excused
<1>4. PartsOK'
  BY <1>1 DEF IInv, Contents, PartsOK, Holds
<1>5. skips' \subseteq Files /\ lost' \subseteq Files /\ torn' \subseteq Files
        /\ failed' \subseteq Files
  BY <1>1 DEF IInv, Shapes, NumbersOK
<1>6. IInv'
  <2>1. CASE /\ direction = "upload" /\ reader' = NewReader(n)
             /\ toWriter' = <<[type |-> "receive", file_num |-> n]>> /\ UNCHANGED <<writer, toReader>>
    BY ONLY IInv, <1>1, <1>2, <1>3, <1>4, <1>5, <2>1, BeginUploadStep
  <2>2. CASE /\ direction = "download" /\ writer' = NewWriter(n)
             /\ toReader' = <<[type |-> "send", file_num |-> n]>> /\ UNCHANGED <<reader, toWriter>>
    BY ONLY IInv, <1>1, <1>2, <1>3, <1>4, <1>5, <2>2, BeginDownloadStep
  <2> QED BY <1>0, <2>1, <2>2 DEF ResumeJob, Begin
<1>7. Starts
  BY <1>1 DEF Starts, Excused
<1> QED BY <1>6, <1>7

\* Data::CancelJob keeps the invariant, and is Progress.
LEMMA CancelJobStep ==
  ASSUME IInv, CancelJob
  PROVE  IInv' /\ Advances
<1>1. /\ status = "running" /\ status' = "error" /\ asked' = {} /\ skips' = Files
      /\ UNCHANGED <<source, uiVars, first, lost, torn, failed>>
  BY DEF CancelJob
<1>2. IInv' /\ \A f \in Files : disk'[f].name = disk[f].name
  <2>1. CASE /\ direction = "upload" /\ toWriter' = Append(toWriter, [type |-> "cancel"])
             /\ reader' = NoJob
             /\ UNCHANGED <<disk, writer, toReader>>
    BY <1>1, <2>1, CancelUploadStep
  <2>2. CASE /\ direction = "download" /\ toReader' = Append(toReader, [type |-> "cancel"])
             /\ writer' = NoJob
             /\ \E part, digest : disk' = remove_download_file(disk, writer, part, digest)
             /\ UNCHANGED <<reader, toWriter>>
    <3>1. IInv'
      BY <1>1, <2>2, CancelDownloadStep
    <3> QED BY <2>2, <3>1, NamesKept
  <2> QED BY <2>1, <2>2 DEF CancelJob
<1>3. skips \subseteq Files
  BY DEF IInv, Shapes, NumbersOK
<1>4. Advances
  BY <1>1, <1>2, <1>3 DEF Advances, Excused
<1> QED BY <1>2, <1>4

\* The loss of the connection keeps the invariant, and is Progress.
LEMMA DisconnectAdvances ==
  ASSUME IInv, Disconnect
  PROVE  IInv' /\ Advances
<1>1. /\ status = "running" /\ status' = "error" /\ lost \subseteq lost'
      /\ UNCHANGED <<source, disk, first, skips, torn, failed>>
  BY DEF Disconnect
<1>2. Advances
  BY <1>1 DEF Advances, Excused
<1> QED BY <1>2, DisconnectStep

\* Data::SetConfirmOverrideFile keeps the invariant, and is Progress.
LEMMA UserAnswersStep ==
  ASSUME IInv, NEW n, NEW need_override \in BOOLEAN, NEW remember \in BOOLEAN,
         SetConfirmOverrideFile(n, need_override, remember)
  PROVE  IInv' /\ Advances
<1>0. PICK c : c = IF need_override THEN OffsetBlk(n, 0) ELSE Skip(n)
  OBVIOUS
<1>1. /\ n \in asked /\ asked' = asked \ {n} /\ skips' = skips \cup Skipped(c)
      /\ UNCHANGED <<source, disk, direction, resume, toWriter, saved, jobs, status, first,
                     lost, torn, failed>>
  BY <1>0 DEF SetConfirmOverrideFile
<1>2. strategy' \in {"ask", "overwrite", "skip"}
  BY DEF SetConfirmOverrideFile, IInv, Shapes, NumbersOK
<1>s. PICK sought : sought = TRUE
  OBVIOUS
<1>3. \/ /\ direction = "upload" /\ reader # NoJob
         /\ reader' = ReaderConfirmed(reader, c, sought)
         /\ UNCHANGED <<writer, toReader>>
      \/ /\ direction = "download" /\ writer # NoJob
         /\ writer' = WriterConfirmed(writer, c, sought)
         /\ toReader' = Append(toReader, c)
         /\ UNCHANGED reader
  BY <1>0, <1>s DEF SetConfirmOverrideFile
<1>4. IInv'
  <2>1. CASE need_override
    <3>1. c = OffsetBlk(n, 0)
      BY <1>0, <2>1
    <3>2. CASE direction = "upload"
      BY ONLY IInv, <1>1, <1>2, <1>3, <3>1, <3>2, UserConfirmsUploadStep
    <3>3. CASE direction # "upload"
      BY ONLY IInv, <1>1, <1>2, <1>3, <3>1, <3>3, UserConfirmsDownloadStep
    <3> QED BY <3>2, <3>3
  <2>2. CASE ~need_override
    <3>1. c = Skip(n)
      BY <1>0, <2>2
    <3>2. CASE direction = "upload"
      BY ONLY IInv, <1>1, <1>2, <1>3, <3>1, <3>2, UserSkipsUploadStep
    <3>3. CASE direction # "upload"
      BY ONLY IInv, <1>1, <1>2, <1>3, <3>1, <3>3, UserSkipsDownloadStep
    <3> QED BY <3>2, <3>3
  <2> QED BY <2>1, <2>2
<1>5. status # "none"
  BY <1>3, Active DEF IInv, Protocol, IdleOK, Idle
<1>6. Advances
  BY <1>1, <1>5 DEF Advances, Excused
<1> QED BY <1>4, <1>6

\* The invariant depends on nothing but the variables.
LEMMA StutterStep ==
  ASSUME IInv, UNCHANGED fileVars
  PROVE  IInv'
<1> USE DEF fileVars
<1>a. Shapes'
  <2>1. JobsOK'
    BY DEF IInv, Shapes, JobsOK
  <2>2. MessagesOK'
    BY DEF IInv, Shapes, MessagesOK, Indices, IsMessage, ToWriterTypes, ToReaderTypes
  <2>3. NumbersOK'
    BY DEF IInv, Shapes, NumbersOK
  <2> QED BY <2>1, <2>2, <2>3 DEF Shapes
<1>b. Protocol'
  <2>1. IdleOK'
    BY DEF IInv, Protocol, IdleOK, Idle, Indices, Has, ReaderOpen, Confirmed,
       WriterOpen, Waiting, LastBlock
  <2>2. ReceiveOK'
    BY DEF IInv, Protocol, ReceiveOK, Indices, Has, ReaderOpen, Confirmed, WriterOpen,
       Waiting, LastBlock
  <2>3. SendOK'
    BY DEF IInv, Protocol, SendOK, Indices, Has, ReaderOpen, Confirmed, WriterOpen,
       Waiting, LastBlock
  <2>4. DigestOK'
    BY DEF IInv, Protocol, DigestOK, Indices, Has, ReaderOpen, Confirmed, WriterOpen,
       Waiting, LastBlock
  <2>5. AnswersOK'
    BY DEF IInv, Protocol, AnswersOK, Answer, Indices, Has, ReaderOpen, Confirmed,
       WriterOpen, Waiting, LastBlock
  <2>6. ReaderOK'
    BY DEF IInv, Protocol, ReaderOK, Indices, Has, ReaderOpen, Confirmed, WriterOpen,
       Waiting, LastBlock
  <2>7. BlocksOK'
    BY DEF IInv, Protocol, BlocksOK, Indices, Has, ReaderOpen, Confirmed, WriterOpen,
       Waiting, LastBlock
  <2>8. ConfirmOK'
    BY DEF IInv, Protocol, ConfirmOK, Indices, Has, ReaderOpen, Confirmed, WriterOpen,
       Waiting, LastBlock
  <2>9. WriterOK'
    BY DEF IInv, Protocol, WriterOK, Deserted, Answer, Indices, Has, ReaderOpen,
       Confirmed, WriterOpen, Waiting, LastBlock
  <2>10. EndOK'
    BY DEF IInv, Protocol, EndOK, Indices, Has, ReaderOpen, Confirmed, WriterOpen,
       Waiting, LastBlock
  <2> QED BY <2>1, <2>2, <2>3, <2>4, <2>5, <2>6, <2>7, <2>8, <2>9, <2>10 DEF Protocol
<1>c. Contents'
  <2>1. PartsOK'
    BY DEF IInv, Contents, PartsOK, Holds, Indices, Has, ReaderOpen, Confirmed,
       WriterOpen, Waiting, LastBlock
  <2>2. OpenOK'
    BY DEF IInv, Contents, OpenOK, Holds, Indices, Has, ReaderOpen, Confirmed,
       WriterOpen, Waiting, LastBlock
  <2>3. OffersOK'
    BY DEF IInv, Contents, OffersOK, Holds, Indices, Has, ReaderOpen, Confirmed,
       WriterOpen, Waiting, LastBlock
  <2>4. StreamOK'
    BY DEF IInv, Contents, StreamOK, Base, Indices, Has, ReaderOpen, Confirmed,
       WriterOpen, Waiting, LastBlock
  <2> QED BY <2>1, <2>2, <2>3, <2>4 DEF Contents
<1>d. Owed'
  <2>1. SkipsOK'
    BY DEF IInv, Owed, SkipsOK, Indices, Has, ReaderOpen, Confirmed, WriterOpen,
       Waiting, LastBlock
  <2>2. PassedOK'
    BY DEF IInv, Owed, PassedOK, ReaderAt, SendPending, Settled, Arrived, Excused,
       Coming, Indices, Has, ReaderOpen, Confirmed, WriterOpen, Waiting, LastBlock
  <2>3. PendingOK'
    BY DEF IInv, Owed, PendingOK, ReaderAt, SendPending, Settled, Arrived, Excused,
       Coming, Indices, Has, ReaderOpen, Confirmed, WriterOpen, Waiting, LastBlock
  <2>4. ErrorOK'
    BY DEF IInv, Owed, ErrorOK, ReaderAt, SendPending, Settled, Arrived, Excused,
       Coming, Indices, Has, ReaderOpen, Confirmed, WriterOpen, Waiting, LastBlock
  <2>5. OverOK'
    BY DEF IInv, Owed, OverOK, ReaderAt, SendPending, Settled, Arrived, Excused, Coming,
       Indices, Has, ReaderOpen, Confirmed, WriterOpen, Waiting, LastBlock
  <2> QED BY <2>1, <2>2, <2>3, <2>4, <2>5 DEF Owed
<1> QED BY <1>a, <1>b, <1>c, <1>d DEF IInv

\* The invariant holds when nothing has been started.
LEMMA InitInv == FileInit => IInv
<1> SUFFICES ASSUME FileInit PROVE IInv
  OBVIOUS
<1>1. /\ source = 1 /\ first = 1 /\ reader = NoJob /\ writer = NoJob /\ asked = {} /\ strategy = "ask"
      /\ Len(toWriter) = 0 /\ Len(toReader) = 0 /\ Indices(toWriter) = {} /\ Indices(toReader) = {}
      /\ IsQueue(toWriter) /\ IsQueue(toReader)
      /\ saved = NotSaved /\ status = "none" /\ skips = {} /\ lost = {} /\ torn = {} /\ failed = {}
  BY ShortQueues DEF FileInit
<1>2. direction \in {"upload", "download"} /\ saved \in 0 .. NFiles + 1
  BY <1>1, DirectionsAssumption, NFilesAssumption DEF FileInit, NotSaved
<1>3. IsDisk(disk) /\ \A f \in Files : disk[f].download = Absent
  BY DEF FileInit, IsDisk
<1>a. Shapes
  BY <1>1, <1>2, <1>3 DEF Shapes, JobsOK, MessagesOK, NumbersOK, NoDigest
<1>b. Protocol
  BY <1>1, <1>2 DEF Protocol, IdleOK, Idle, ReceiveOK, SendOK, DigestOK, AnswersOK, ReaderOK, BlocksOK,
     ConfirmOK, WriterOK, EndOK, Has, Confirmed, ReaderOpen, WriterOpen, Waiting
<1>c. Contents
  BY <1>1, <1>3 DEF Contents, PartsOK, OpenOK, OffersOK, StreamOK, WriterOpen
<1>d. Owed
  <2>1. ~SendPending
    BY <1>1 DEF SendPending
  <2> QED BY <1>1, <2>1 DEF Owed, SkipsOK, PassedOK, PendingOK, ErrorOK, OverOK, Has
<1> QED BY <1>a, <1>b, <1>c, <1>d DEF IInv

\* Every step keeps the invariant, and is one of FileDelivery or changes nothing.
LEMMA NextStep ==
  ASSUME IInv, [FileNext]_fileVars
  PROVE  IInv' /\ (Implements \/ UNCHANGED fileVars)
<1>1. CASE UserStep
  <2>1. CASE SendFiles
    BY <2>1, SendFilesStep DEF Implements
  <2>2. CASE ResumeJob
    BY <2>2, ResumeJobStep DEF Implements
  <2>3. CASE CancelJob
    BY <2>3, CancelJobStep DEF Implements
  <2>4. CASE Disconnect
    BY <2>4, DisconnectAdvances DEF Implements
  <2>5. CASE SourceChanges
    BY <2>5, SourceChangesStep DEF Implements
  <2>6. CASE \E n \in Files, need_override, remember \in BOOLEAN :
               SetConfirmOverrideFile(n, need_override, remember)
    BY <2>6, UserAnswersStep DEF Implements
  <2> QED BY <1>1, <2>1, <2>2, <2>3, <2>4, <2>5, <2>6 DEF UserStep
<1>2. CASE ReaderStep
  BY <1>2, ReaderActs, ReaderReceivesStep DEF ReaderStep, Implements
<1>3. CASE WriterReceives
  BY <1>3, WriterReceivesStep DEF Implements
<1>4. CASE UNCHANGED fileVars
  BY <1>4, StutterStep
<1> QED BY <1>1, <1>2, <1>3, <1>4 DEF FileNext

\* The protocol's invariant: what the messages under way, the two jobs and the files on
\* disk have to do with one another (libs/hbb_common/src/fs.rs and its two ends).
THEOREM FileInvariant == FileSpec => []IInv
<1>1. IInv /\ [FileNext]_fileVars => IInv'
  BY NextStep
<1> QED BY <1>1, InitInv, PTL DEF FileSpec

\* A file has arrived here exactly when it has for FileDelivery.
LEMMA ArrivedThere == \A f \in Files : Arrived(f)' <=> Delivery!Arrived(f)'
BY DEF Arrived, Delivery!Arrived

\* What NextStep says of a step is what FileDelivery allows, under the refinement mapping.
LEMMA StepsThere ==
  ASSUME source \in Nat, Implements \/ UNCHANGED fileVars
  PROVE  [Delivery!Next]_<<[f \in Files |-> disk[f].name], status, source, first,
                           skips \cup lost \cup torn \cup failed>>
<1>1. Advances => Delivery!Progress
  BY ArrivedThere DEF Advances, Delivery!Progress, Settled, Excused
<1>2. Starts => Delivery!Begin
  BY DEF Starts, Delivery!Begin, Excused
<1>3. SourceChanges => Delivery!Modify
  BY DEF SourceChanges, Delivery!Modify, history
<1> QED BY <1>1, <1>2, <1>3 DEF Implements, Delivery!Next, fileVars

\* The file transfer delivers: under its own name a file only ever appears whole, in a
\* version since the transfer began, and a job is reported done only when all files have
\* arrived, except those skipped, lost, torn or failed (TransferJob in fs.rs).
THEOREM TransferDelivers == FileSpec => Delivers
<1>1. FileInit => Delivery!Init
  BY DEF FileInit, Delivery!Init
<1>2. IInv /\ [FileNext]_fileVars =>
        [Delivery!Next]_<<[f \in Files |-> disk[f].name], status, source, first,
                          skips \cup lost \cup torn \cup failed>>
  <2>1. IInv => source \in Nat
    BY DEF IInv, Shapes, NumbersOK
  <2> QED BY <2>1, NextStep, StepsThere
<1> QED BY <1>1, <1>2, FileInvariant, PTL DEF FileSpec, Delivers, Delivery!Spec
=============================================================================
