-------------------------- MODULE MonitorAbstract --------------------------
(***************************************************************************)
(* What .github/obfarm/obfarm.py promises the workflow that runs it, with  *)
(* polling, offsets and time left out.  A farm job publishes status        *)
(* documents until one is terminal.  The monitor may settle on a verdict   *)
(* only from a terminal status of the job as it is when it settles; it    *)
(* then writes one line to $GITHUB_OUTPUT (the verdict's signal, or an    *)
(* empty line without one) and exits, 0 only for success.  It may also    *)
(* die at any time with status 1 and no line.                            *)
(***************************************************************************)
EXTENDS Integers

CONSTANTS
  Documents,  \* status documents the job may publish
  None

VARIABLES
  status,      \* the job's current status document, None before the first
  verdict,     \* "success", "failure" or None
  signal,      \* the line in $GITHUB_OUTPUT, "unwritten" before any
  exitStatus   \* the process exit status, None while it runs

avars == <<status, verdict, signal, exitStatus>>

\* TaskStatusEnum.success and TaskStatusEnum.fail: the two thresholds.
Succeeded(s) == s \in Int /\ s >= 4
Failed(s) == s \in Int /\ s <= -1

SignalOf(v) ==
  CASE v = "success" -> "success=1"
    [] v = "failure" -> "success=-1"
    [] OTHER -> ""

Init ==
  /\ status = None /\ verdict = None /\ signal = "unwritten"
  /\ exitStatus = None

\* The job writes a new status document; a terminal one is its last.
Publish ==
  /\ ~Succeeded(status) /\ ~Failed(status)
  /\ \E d \in Documents \ {status} : status' = d
  /\ UNCHANGED <<verdict, signal, exitStatus>>

\* The monitor settles on the verdict of the job's current, terminal status.
Conclude ==
  /\ exitStatus = None /\ verdict = None
  /\ Succeeded(status) \/ Failed(status)
  /\ verdict' = IF Succeeded(status) THEN "success" ELSE "failure"
  /\ UNCHANGED <<status, signal, exitStatus>>

\* It writes the signal of its verdict (if any) and exits.
Emit ==
  /\ exitStatus = None
  /\ signal' = SignalOf(verdict)
  /\ exitStatus' = IF verdict = "success" THEN 0 ELSE 1
  /\ UNCHANGED <<status, verdict>>

\* It dies without writing anything.
Die ==
  /\ exitStatus = None
  /\ exitStatus' = 1
  /\ UNCHANGED <<status, verdict, signal>>

Next == Publish \/ Conclude \/ Emit \/ Die

Spec == Init /\ [][Next]_avars
=============================================================================
