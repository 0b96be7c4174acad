----------------------------- MODULE Downloader -----------------------------
(***************************************************************************)
(* The download of a new version: DOWNLOADERS and the threads of           *)
(* hbbs_http/downloader.rs for one url, the calls of flutter_ffi.rs and    *)
(* the progress dialog that makes them (update_progress.dart).             *)
(***************************************************************************)
EXTENDS Naturals

CONSTANTS Chunks,        \* chunks of the file
          MaxDownloads   \* bound: threads started

ASSUME ChunksAssumption == Chunks \in Nat \ {0}
ASSUME MaxDownloadsAssumption == MaxDownloads \in Nat \ {0}

Threads == 1..MaxDownloads

VARIABLES
  entry,     \* the url's Downloader: the thread that receives from its tx_cancel (0:
             \* no entry), total_size known, downloaded_size, error
  file,      \* the file at the path: the thread that created it (0: no file), chunks
  step,      \* where each thread is
  got,       \* chunks each thread has received
  cancelled, \* threads with a message in rx_cancel
  dialog     \* the progress dialog

downloadVars == <<entry, file, step, got, cancelled, dialog>>

NoEntry == [thread |-> 0, total |-> FALSE, size |-> 0, error |-> FALSE]
NoFile == [thread |-> 0, chunks |-> 0]

\* One type invariant for the module.
DownloadTypeOK ==
  /\ entry \in [thread : 0..MaxDownloads, total : BOOLEAN,
                size : 0..(Chunks * MaxDownloads), error : BOOLEAN]
  /\ file \in [thread : 0..MaxDownloads, chunks : 0..Chunks]
  /\ step \in [Threads -> {"none", "head", "get", "chunks", "cancelled", "over"}]
  /\ got \in [Threads -> 0..Chunks]
  /\ cancelled \subseteq Threads
  /\ dialog \in {"closed", "starting", "polling", "error", "cancelling", "install"}

DownloadInit ==
  /\ entry = NoEntry
  /\ file = NoFile
  /\ step = [t \in Threads |-> "none"]
  /\ got = [t \in Threads |-> 0]
  /\ cancelled = {}
  /\ dialog = "closed"
-----------------------------------------------------------------------------
(* do_download, in a thread of its own.  It finds the entry by its id: that *)
(* of a later download as well as its own.                                 *)

Goes(t, where) == step' = [step EXCEPT ![t] = where]

WithEntry(e) == entry' = IF entry.thread = 0 THEN entry ELSE e

\* The size is known.
SizeKnown(t) ==
  /\ step[t] = "head"
  /\ WithEntry([entry EXCEPT !.total = TRUE])
  /\ Goes(t, "get")
  /\ UNCHANGED <<file, got, cancelled, dialog>>

\* The response begins; the file is created, or truncated.
Get(t) ==
  /\ step[t] = "get"
  /\ file' = [thread |-> t, chunks |-> 0]
  /\ Goes(t, "chunks")
  /\ UNCHANGED <<entry, got, cancelled, dialog>>

\* A chunk is written and counted.
ChunkCounted(t) ==
  /\ step[t] = "chunks"
  /\ got[t] < Chunks
  /\ got' = [got EXCEPT ![t] = @ + 1]
  /\ file' = IF file.thread = t THEN [file EXCEPT !.chunks = @ + 1] ELSE file
  /\ WithEntry([entry EXCEPT !.size = @ + 1])
  /\ UNCHANGED <<step, cancelled, dialog>>

\* All chunks are there: `finished', which nothing reads.  The task that should delete
\* the entry after auto_del_dur is spawned on the runtime that ends here.
Completed(t) ==
  /\ step[t] = "chunks"
  /\ got[t] = Chunks
  /\ Goes(t, "over")
  /\ UNCHANGED <<entry, file, got, cancelled, dialog>>

\* Any request, write or read may fail: the error stays in the entry.
Fails(t) ==
  /\ step[t] \in {"head", "get", "chunks"}
  /\ WithEntry([entry EXCEPT !.error = TRUE])
  /\ Goes(t, "over")
  /\ UNCHANGED <<file, got, cancelled, dialog>>

\* rx_cancel.recv(): a message, or the entry with the sender is gone.
CancelReceived(t) ==
  /\ step[t] \in {"head", "get", "chunks"}
  /\ t \in cancelled \/ entry.thread # t
  /\ Goes(t, "cancelled")
  /\ UNCHANGED <<entry, file, got, cancelled, dialog>>

\* The entry of the id is removed, with its file.
RemoveCancelled(t) ==
  /\ step[t] = "cancelled"
  /\ file' = IF entry.thread = 0 THEN file ELSE NoFile
  /\ entry' = NoEntry
  /\ Goes(t, "over")
  /\ UNCHANGED <<got, cancelled, dialog>>
-----------------------------------------------------------------------------
(* The dialog.                                                             *)

\* handleUpdate, from the home page or by Retry: an old file is removed.
OpenDialog ==
  /\ dialog \in {"closed", "error"}
  /\ file' = NoFile
  /\ dialog' = "starting"
  /\ UNCHANGED <<entry, step, got, cancelled>>

\* download_file: an id that has an entry is returned as it is.
download_file ==
  /\ dialog = "starting"
  /\ IF entry.thread # 0
     THEN dialog' = "polling" /\ UNCHANGED <<entry, step>>
     ELSE IF file.thread # 0
     THEN dialog' = "error" /\ UNCHANGED <<entry, step>>
     ELSE \E t \in Threads :
            /\ step[t] = "none"
            /\ \A u \in Threads : u < t => step[u] # "none"
            /\ entry' = [NoEntry EXCEPT !.thread = t]
            /\ Goes(t, "head")
            /\ dialog' = "polling"
  /\ UNCHANGED <<file, got, cancelled>>

\* _updateDownloadData, when it has an end to report.
PollEnds ==
  /\ dialog = "polling"
  /\ \/ /\ entry.thread = 0 \/ entry.error
        /\ dialog' = "error"
        /\ UNCHANGED entry
     \/ /\ entry.thread # 0 /\ ~entry.error
        /\ entry.total /\ entry.size >= Chunks
        /\ dialog' = "install"
        /\ entry' = NoEntry
  /\ UNCHANGED <<file, step, got, cancelled>>

\* Cancel, and then waiting for the entry to go, for 3 s at most.
CancelPressed ==
  /\ dialog = "polling"
  /\ cancelled' = IF entry.thread = 0 THEN cancelled ELSE cancelled \cup {entry.thread}
  /\ dialog' = "cancelling"
  /\ UNCHANGED <<entry, file, step, got>>

DialogCloses ==
  /\ dialog \in {"cancelling", "error"}
  /\ dialog' = "closed"
  /\ UNCHANGED <<entry, file, step, got, cancelled>>

\* update-me: the installer is started and its file removed.
UpdateMe ==
  /\ dialog = "install"
  /\ file' = NoFile
  /\ dialog' = "closed"
  /\ UNCHANGED <<entry, step, got, cancelled>>

DownloadNext ==
  \/ \E t \in Threads : \/ SizeKnown(t) \/ Get(t) \/ ChunkCounted(t) \/ Completed(t)
                        \/ Fails(t) \/ CancelReceived(t) \/ RemoveCancelled(t)
  \/ OpenDialog \/ download_file \/ PollEnds \/ CancelPressed \/ DialogCloses \/ UpdateMe

DownloadSpec == DownloadInit /\ [][DownloadNext]_downloadVars
-----------------------------------------------------------------------------
(* Properties.                                                             *)

\* "The caller should check if the file is downloaded successfully and remove the job
\* from the map." (download_file): when a download is asked for, also by the Retry of
\* the box that reports an error, what the dialog follows is no download that has
\* failed before.
RetryStartsAnew ==
  [][dialog = "starting" /\ dialog' = "polling" => ~entry'.error]_downloadVars
=============================================================================
