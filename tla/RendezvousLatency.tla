-------------------------- MODULE RendezvousLatency --------------------------
(***************************************************************************)
(* What the user is shown of a rendezvous server: the timer and            *)
(* update_latency of RendezvousMediator::start_udp, which keep the entry   *)
(* of the server in Config's ONLINE.  A mediator stores a latency only     *)
(* when it differs enough from the one it stored last (old_latency), and   *)
(* counts registrations without an answer.  test_rendezvous_server_, which *)
(* the user interface starts beside the mediators, writes the same entry   *)
(* and in the end empties ONLINE.                                          *)
(*                                                                         *)
(* A time is what the code compares it with: a registration is fresh or    *)
(* overdue (reg_timeout), an answer fresh or expired (REG_INTERVAL).  A    *)
(* latency is "good", "zero" when no registration was under way, or "slow" *)
(* (more than a second); the average of good and zero ones is taken to     *)
(* stay positive.                                                          *)
(***************************************************************************)
EXTENDS Naturals

CONSTANTS MaxAnswers,   \* answers under way
          Tests         \* threads of test_rendezvous_server_: none with a single server

ASSUME MaxAnswersAssumption == MaxAnswers \in Nat

VARIABLES
  latency,     \* ONLINE of the server: "none", "down" is -1
  registrar,   \* the locals of start_udp
  answers,     \* answers under way
  tests,       \* how far each test is with the server
  tested       \* history: a test was the last to write or drop the entry

latencyVars == <<latency, registrar, answers, tests, tested>>

MAX_FAILS1 == 2
MAX_FAILS2 == 4

NewRegistrar == [sent |-> "none", resp |-> "none", fails |-> 0,
                 old_latency |-> "zero", ema_latency |-> "zero"]

\* One type invariant for the module.
LatencyTypeOK ==
  /\ latency \in {"none", "down", "zero", "good"}
  /\ registrar \in [sent : {"none", "fresh", "overdue"}, resp : {"none", "fresh", "expired"},
                    fails : 0..MAX_FAILS2, old_latency : {"zero", "good"},
                    ema_latency : {"zero", "good"}]
  /\ answers \in 0..MaxAnswers
  /\ tests \in [Tests -> {"idle", "connecting", "measured"}]
  /\ tested \in BOOLEAN

LatencyInit ==
  /\ latency = "none" /\ registrar = NewRegistrar /\ answers = 0
  /\ tests = [t \in Tests |-> "idle"] /\ tested = FALSE

\* Mutant: failures leave old_latency as it is.
NoteFailureKept(n) ==
  /\ latency' = IF n = MAX_FAILS2 THEN "down" ELSE IF n >= MAX_FAILS1 THEN "zero" ELSE latency
  /\ tested' = IF n >= MAX_FAILS1 THEN FALSE ELSE tested
  /\ registrar' = [registrar EXCEPT !.sent = "fresh", !.fails = n]

\* The n-th registration in a row without an answer.
NoteFailure(n) ==
  /\ latency' = IF n = MAX_FAILS2 THEN "down" ELSE IF n >= MAX_FAILS1 THEN "zero" ELSE latency
  /\ tested' = IF n >= MAX_FAILS1 THEN FALSE ELSE tested
  /\ registrar' = [registrar EXCEPT !.sent = "fresh", !.fails = n,
                                    !.old_latency = IF n >= MAX_FAILS1 THEN "zero" ELSE @]

\* The timer; register_peer sends nothing while another server's mismatch is being solved.
Tick ==
  /\ \/ /\ registrar.sent = "overdue"
        /\ NoteFailure(IF registrar.fails < MAX_FAILS2 THEN registrar.fails + 1 ELSE MAX_FAILS2)
     \/ /\ registrar.sent = "none" /\ registrar.resp # "fresh"
        /\ registrar' = [registrar EXCEPT !.sent = "fresh"]
        /\ UNCHANGED <<latency, tested>>
  /\ answers' \in {answers, IF answers < MaxAnswers THEN answers + 1 ELSE answers}
  /\ UNCHANGED tests

TimePasses ==
  /\ \/ registrar.sent = "fresh" /\ registrar' = [registrar EXCEPT !.sent = "overdue"]
     \/ registrar.resp = "fresh" /\ registrar' = [registrar EXCEPT !.resp = "expired"]
  /\ UNCHANGED <<latency, answers, tests, tested>>

Measured == IF registrar.sent = "none" THEN {"zero"} ELSE {"good", "slow"}

\* update_latency of a measured latency; it may be too near the old one to be stored.
UpdateLatency(l) ==
  LET fresh == [registrar EXCEPT !.resp = "fresh", !.fails = 0, !.sent = "none"]
      ema == IF "good" \in {l, registrar.ema_latency} THEN "good" ELSE "zero"
  IN \/ l = "slow" /\ registrar' = fresh /\ UNCHANGED <<latency, tested>>
     \/ /\ l # "slow"
        /\ registrar' = [fresh EXCEPT !.ema_latency = ema, !.old_latency = ema]
        /\ latency' = ema /\ tested' = FALSE
     \/ /\ l # "slow" /\ registrar.old_latency # "zero"
        /\ registrar' = [fresh EXCEPT !.ema_latency = ema]
        /\ UNCHANGED <<latency, tested>>

\* An answer may be followed by a request for the key, which is answered in its turn.
ServerAnswers ==
  /\ answers > 0
  /\ answers' \in {answers - 1, answers}
  /\ \E l \in Measured : UpdateLatency(l)
  /\ UNCHANGED tests

\* The mediator ends; start_all resets ONLINE and starts another one.
Restart ==
  /\ latency' = "none" /\ registrar' = NewRegistrar /\ answers' = 0 /\ tested' = FALSE
  /\ UNCHANGED tests
-----------------------------------------------------------------------------
(* test_rendezvous_server_, in a thread of its own.                        *)

TestStarts(t) ==
  /\ tests[t] = "idle"
  /\ tests' = [tests EXCEPT ![t] = "connecting"]
  /\ UNCHANGED <<latency, registrar, answers, tested>>

\* The task of this server has connected, or has not.
TestMeasures(t) ==
  /\ tests[t] = "connecting"
  /\ tests' = [tests EXCEPT ![t] = "measured"]
  /\ latency' \in {"good", "down"} /\ tested' = TRUE
  /\ UNCHANGED <<registrar, answers>>

\* All tasks have ended: reset_online.
TestEnds(t) ==
  /\ tests[t] = "measured"
  /\ tests' = [tests EXCEPT ![t] = "idle"]
  /\ latency' = "none" /\ tested' = TRUE
  /\ UNCHANGED <<registrar, answers>>

LatencyNext ==
  \/ Tick \/ TimePasses \/ ServerAnswers \/ Restart
  \/ \E t \in Tests : TestStarts(t) \/ TestMeasures(t) \/ TestEnds(t)

LatencySpec == LatencyInit /\ [][LatencyNext]_latencyVars
-----------------------------------------------------------------------------
\* What the user is shown can be set right: old_latency says whether ONLINE has a positive
\* latency, whatever answers, failures, restarts and tests come between.  Were it kept when
\* failures clear the entry, the latencies of later answers would be too near the old one to
\* be stored, and the server would stay "down" although it answers.  The two are out of step
\* only from a test's write until the mediator's next one: it is not told of the test.
OnlineInStep == ~tested => (registrar.old_latency = "good" <=> latency = "good")
=============================================================================
