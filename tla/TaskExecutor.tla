----------------------------- MODULE TaskExecutor -----------------------------
(***************************************************************************)
(* What a task pool promises those who give it jobs: a job is begun at     *)
(* most once, from the front of the line, by one of its slots, and once    *)
(* the pool is closed each slot begins at most one more.                   *)
(***************************************************************************)
EXTENDS Sequences

CONSTANTS Jobs, Slots, Idle

VARIABLES line, active, finished, closed, overrun

execVars == <<line, active, finished, closed, overrun>>

Known == {line[i] : i \in DOMAIN line} \cup {active[s] : s \in Slots} \cup finished

Init == /\ line = <<>> /\ active = [s \in Slots |-> Idle] /\ finished = {}
        /\ closed = FALSE /\ overrun = {}

Accept(j) ==
  /\ j \notin Known
  /\ line' \in {Append(line, j), <<j>> \o line}
  /\ UNCHANGED <<active, finished, closed, overrun>>

Begin(s) ==
  /\ line # <<>> /\ active[s] = Idle
  /\ closed => s \notin overrun
  /\ overrun' = IF closed THEN overrun \cup {s} ELSE overrun
  /\ active' = [active EXCEPT ![s] = Head(line)]
  /\ line' = Tail(line)
  /\ UNCHANGED <<finished, closed>>

End(s) ==
  /\ active[s] # Idle
  /\ active' = [active EXCEPT ![s] = Idle]
  /\ finished' = finished \cup {active[s]}
  /\ UNCHANGED <<line, closed, overrun>>

Close ==
  /\ ~closed /\ closed' = TRUE
  /\ UNCHANGED <<line, active, finished, overrun>>

Next == \/ \E j \in Jobs : Accept(j)
        \/ \E s \in Slots : Begin(s) \/ End(s)
        \/ Close

Spec == Init /\ [][Next]_execVars
===============================================================================
