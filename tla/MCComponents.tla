---------------------------- MODULE MCComponents ----------------------------
(***************************************************************************)
(* Components that share no state, in one run: each behaviour is one of    *)
(* the component `part', while the others rest in an initial state.        *)
(***************************************************************************)
EXTENDS Subscriptions, CursorService, DisplayService, PrivacyMode,
        FileTransfer, Terminal, RendezvousLatency, Downloader, PortForward, TLC

CONSTANTS c1, c2, h1, h2

VARIABLE part

MCConns == {c1, c2}
MCCursors == {h1, h2}

\* A file of two blocks and one of a single block.
MCSize == (0 :> 2) @@ (1 :> 1)

\* The other components rest in one initial state.  Subscriptions are those of one
\* connection, with all its flags.
ComponentsInit ==
  /\ part \in {"subscriptions", "cursor", "display", "privacy", "file",
               "terminal", "latency", "download", "forward"}
  /\ SubsInit /\ CursorInit /\ DisplayInit /\ PrivacyInit
  /\ FileInit /\ TermInit /\ LatencyInit /\ DownloadInit /\ PfInit
  /\ phase[c2] = "closed"
  /\ phase[c1] = "login"
  /\ part # "subscriptions" => \A c \in Conns, p \in Permissions : flag[c][p]
  /\ part = "subscriptions" => \A p \in Permissions : flag[c2][p]
  /\ part # "cursor" => cursor = NoCursor
  /\ part # "display" => screens = 1
  /\ part # "privacy" => mode = NewMode("window")
  /\ part # "file" => direction = "upload" /\ \A f \in Files : disk[f].name = Absent

\* The bounds of the terminal service: c1 is the first to connect; once c2 has connected
\* too there is one session and one action less, and a single action with two services.
TermBound ==
  /\ conns'[c2].pc # "none" => /\ conns'[c1].pc # "none"
                               /\ Len(sessions') < MaxSessions /\ actions' < MaxActions
  /\ Len(services') > 1 => actions' <= 1

\* The bounds of the file manager: the files change before a job is resumed, and one file
\* of the second job is neither skipped nor damaged.
FileBound ==
  /\ source' > 1 => IF jobs' > 1 THEN resume' ELSE saved' # NotSaved
  /\ jobs' > 1 => skips' \cup torn' \cup failed' # Files

ComponentsNext ==
  /\ UNCHANGED part
  /\ IF part = "subscriptions" THEN SubsNext ELSE UNCHANGED subsVars
  /\ IF part = "cursor" THEN CursorNext ELSE UNCHANGED cursorVars
  /\ IF part = "display" THEN DisplayNext ELSE UNCHANGED displayVars
  /\ IF part = "privacy" THEN PrivacyNext ELSE UNCHANGED privacyVars
  /\ IF part = "file" THEN FileNext /\ FileBound ELSE UNCHANGED fileVars
  /\ IF part = "terminal" THEN TermNext /\ TermBound ELSE UNCHANGED termVars
  /\ IF part = "latency" THEN LatencyNext ELSE UNCHANGED latencyVars
  /\ IF part = "download" THEN DownloadNext ELSE UNCHANGED downloadVars
  /\ IF part = "forward" THEN PfNext ELSE UNCHANGED pfVars

ComponentsSpec ==
  /\ ComponentsInit
  /\ [][ComponentsNext]_<<part, subsVars, cursorVars, displayVars, privacyVars,
                          fileVars, termVars, latencyVars, downloadVars, pfVars>>

\* The type invariant of every component, while it moves.
ComponentsTypeOK ==
  /\ part = "subscriptions" => SubsTypeOK
  /\ part = "cursor" => CursorTypeOK
  /\ part = "display" => DisplayTypeOK
  /\ part = "privacy" => PrivacyTypeOK
  /\ part = "file" => FileTypeOK
  /\ part = "terminal" => TermTypeOK
  /\ part = "latency" => LatencyTypeOK
  /\ part = "download" => DownloadTypeOK
  /\ part = "forward" => PfTypeOK
=============================================================================
