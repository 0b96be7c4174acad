----------------------------- MODULE MCProtocols ----------------------------
(***************************************************************************)
(* The protocols between a client and the device it controls, in one run.  *)
(* They share no state: each behaviour is one of the protocol `part',      *)
(* while the others rest in an initial state.                              *)
(***************************************************************************)
EXTENDS FileTransfer, ClientSession, Terminal, KeyInput, TLC

CONSTANTS t1, t2

VARIABLE part

\* A file of two blocks and one of a single block.
MCSize == (0 :> 2) @@ (1 :> 1)

MCTermConns == {t1, t2}

ProtocolsInit ==
  /\ part \in {"file", "session", "terminal", "keys"}
  /\ FileInit /\ SessionInit /\ TermInit /\ KeyInit
  /\ part # "file" => direction = "upload" /\ \A f \in Files : disk[f].name = Absent
  /\ part # "keys" => linux

\* The terminal service's connections are alike: t1 is the first to connect, and
\* there is one action with both of them.
TermBound == conns'[t2].pc # "none" => conns'[t1].pc # "none" /\ actions' <= 1

\* One file of the second job of the file manager is neither skipped nor damaged.
FileBound == jobs' > 1 => skips' \cup torn' \cup failed' # Files

ProtocolsNext ==
  /\ UNCHANGED part
  /\ IF part = "file" THEN FileNext /\ FileBound ELSE UNCHANGED fileVars
  /\ IF part = "session" THEN SessionNext ELSE UNCHANGED sessionVars
  /\ IF part = "terminal" THEN TermNext /\ TermBound ELSE UNCHANGED termVars
  /\ IF part = "keys" THEN KeyNext ELSE UNCHANGED keyVars

ProtocolsSpec ==
  /\ ProtocolsInit
  /\ [][ProtocolsNext]_<<part, fileVars, sessionVars, termVars, keyVars>>
-----------------------------------------------------------------------------
(* The liveness properties, of the behaviours in which their part moves.   *)

\* A file job ends or waits for the user (FileTransfer).
MCJobEnds == part = "file" => JobEnds

\* The thread of a superseded round of a client session exits (ClientSession).
MCSupersededEnd == part = "session" => SupersededEnd

\* A closed client session keeps no connection (ClientSession).
MCClosedEnd == part = "session" => ClosedEnd

\* TERMINAL_SERVICES does not stay locked (Terminal).
MCRegistryIsUnlocked == part = "terminal" => RegistryIsUnlocked

\* Shells end with the last connection of a service that is not persistent (Terminal).
MCShellsEnd == part = "terminal" => ShellsEnd

\* Keys come up when the last peer is gone (KeyInput).
MCKeysComeUp == part = "keys" => KeysComeUp
=============================================================================
