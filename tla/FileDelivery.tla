---------------------------- MODULE FileDelivery ----------------------------
(***************************************************************************)
(* What a transfer of files promises, whatever protocol carries it out:    *)
(* under its own name a file only ever appears whole, in a version the     *)
(* source has had since the transfer began, and a transfer is reported as  *)
(* done only when every file has arrived, except those it is excused for.  *)
(* FileTransfer implements it.                                             *)
(***************************************************************************)
EXTENDS Naturals

CONSTANTS Files,              \* what is transferred
          Whole(_, _)         \* the content of a version of a file

VARIABLES target,             \* contents under the files' own names
          status,             \* none, running, done or error
          source,             \* current version of the files
          first,              \* version the transfer began with
          excused             \* files the transfer owes nobody

Arrived(f) == \E v \in first .. source : target[f] = Whole(v, f)

Init == status = "none" /\ excused = {} /\ first = source

\* A transfer starts, or an interrupted one goes on.
Begin ==
  /\ status' = "running"
  /\ first' \in {first, source}
  /\ excused' \subseteq excused
  /\ UNCHANGED <<target, source>>

\* Something arrives or is put off, and the job may come to its end with it.
Progress ==
  /\ status # "none"
  /\ excused \subseteq excused'
  /\ \A f \in Files : target'[f] # target[f] => Arrived(f)' \/ f \in excused'
  /\ status' \in {status, "done", "error"}
  /\ status' = "done" /\ status # "done" => \A f \in Files : Arrived(f)' \/ f \in excused'
  /\ UNCHANGED <<source, first>>

Modify == source' > source /\ UNCHANGED <<target, status, first, excused>>

Next == Begin \/ Progress \/ Modify

Spec == Init /\ [][Next]_<<target, status, source, first, excused>>
=============================================================================
