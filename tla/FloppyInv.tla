----------------------------- MODULE FloppyInv -----------------------------
(***************************************************************************)
(* Why one request is served at a time: the inductive invariant behind     *)
(* ServesCurrent, for a host that neither aborts nor barges.  Each part    *)
(* says what one of the two sides may assume of the other.                 *)
(***************************************************************************)
EXTENDS Floppy

Patient == HostMay \intersect {"abort", "barge"} = {}

Reading == {"READ_1", "READ_2", "READ_3", "READSECT"}
Writing == {"WRITESECT", "WRITE_1", "WRITE_2"}
Waiting == {"WAIT_CPUREAD", "WAIT_CPUWRITE", "WAIT_CPU"}

\* The answers that stand on the port while the workhorse polls for a request.
Standing == {{}, {"COMPLETE"}, {"COMPLETE", "SUCCESS"}, {"COMPLETE", "CRC"}}

\* The length counts down to 1 and not past it: a byte that is still to come is
\* counted in every state of a transfer, and one more where a byte has just gone.
NoUnderrun ==
  /\ wd.state \in {"WAIT_CPUREAD"} \union Reading \union Writing => wd.len >= 1
  /\ wd.state = "READ_1" => wd.len >= 2

\* Every access of a patient host leaves the machine where it is.
InvCourse == wd.state \notin {"ABORT", "DEAD"}

\* The workhorse stands still only while a sector is read out.
InvFrozen ==
  /\ wd.bufRd => wd.state \in Reading
  /\ wd.state \in {"READ_1", "READ_3", "READSECT"} => wd.bufRd

\* The request that each state of the machine leaves on the port.
InvRequest ==
  /\ wd.state \in {"READY"} \union Writing => wd.request.op \in {"NONE", "ACK"}
  /\ wd.state \in {"WAIT_CPUREAD"} \union Reading =>
       wd.request.op \in {"READ", "READADDR"}
  /\ wd.state = "WAIT_CPU" => wd.request.op = "NOP"
  /\ wd.state = "WAIT_CPUWRITE" => wd.request.op = "WRITE"
  /\ wd.state = "ENDCOMMAND" => wd.request.op \in {"READ", "READADDR", "NOP", "WRITE"}
  /\ wd.state = "ENDCOMMAND2" => wd.request.op = "ACK"

\* The answer at each place of the workhorse.
InvStatus ==
  /\ slave.pc \in {"LOOP", "ACKED", "LEAVE"} => status \in Standing
  /\ slave.pc \in {"RAISE", "NOP_BUSY", "IDLE"} => status = {}
  /\ slave.pc \in {"SEEK", "COPY", "ANSWER", "NOP_DONE"} => status = {"BUSY"}
  /\ slave.pc \in {"MOUNT", "ENTER"} => status = {"DRVNOTRDY"}
  /\ slave.pc \in {"BOOT", "START", "INSERT"} => status \in {{}, {"DRVNOTRDY"}}
  /\ slave.pc \notin {"FAIL", "HALT"}
  /\ slave.pc = "LOOP" /\ "SUCCESS" \in status => slave.result = "OK"

\* How long an answer may stand before the controller is past the point where
\* the workhorse could take the same request for a new one.
InvSettling ==
  /\ "COMPLETE" \in status =>
       /\ wd.state \notin {"READY"} \union Writing
       /\ wd.state \in Waiting => slave.pc = "LOOP" /\ slack = 0
       /\ wd.state = "READ_2" /\ ~wd.bufRd => slack <= 1
       /\ wd.bufRd => slack <= 2
       /\ slave.pc = "ACKED" => wd.state = "ENDCOMMAND2"
       /\ slave.pc = "LEAVE" => wd.state \in {"ENDCOMMAND", "ENDCOMMAND2"}
  /\ wd.state \in Reading => slave.pc = "LOOP" /\ {"COMPLETE", "SUCCESS"} \subseteq status
  /\ wd.state = "ENDCOMMAND" /\ slave.pc = "LOOP" => slack <= 2

\* The controller and the workhorse agree at every step on the request that is
\* being served and on how far it got.
Handshake ==
  /\ InvCourse /\ InvFrozen /\ InvRequest /\ InvStatus /\ InvSettling
  /\ ServesCurrent
=============================================================================
