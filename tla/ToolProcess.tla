---------------------------- MODULE ToolProcess ----------------------------
(***************************************************************************)
(* The child processes of a replay.  A ReplayProcessRun                    *)
(* (input_simulator/replay_process.py) starts one original tool per        *)
(* channel at its offset and polls, stops and closes them through one      *)
(* ProcessSupervisor each (input_simulator/tool_process.py), whose two     *)
(* reader threads empty the child's pipes.  One call on the run at a time  *)
(* (its lock); within it a step is one wait, one poll() of the process or  *)
(* one hold of the data lock, and the readers, the processes and whatever  *)
(* keeps a pipe open after them act in between.  A kill the system refuses *)
(* is not modelled.                                                        *)
(***************************************************************************)
EXTENDS Naturals, FiniteSets, TLC

CONSTANTS
  Commands,  \* 1 .. number of commands of the plan
  Offset,    \* [Commands -> first_offset_ns]
  Lateness,  \* start_lateness_ns
  Timeout,   \* timeout_ms of a child
  Limit,     \* output_limit of a child, in chunks
  None,
  Outputs, Rough, MaxNow \* bounds, for finite checking: the chunks a command
             \* may write on each stream, the commands with broken or held pipes

ASSUME ToolProcessAssumption ==
  /\ IsFiniteSet(Commands) /\ Commands = 1 .. Cardinality(Commands)
  /\ Offset \in [Commands -> Nat]
  /\ {Lateness, Timeout, Limit, MaxNow} \subseteq Nat /\ Rough \subseteq Commands
  /\ Outputs \in [Commands -> SUBSET [{1, 2} -> 0 .. 9]]

Streams == {1, 2}

VARIABLES
  now,     \* the monotonic clock
  granted, \* the source, its grant, the authority and the files are as they were
  run,     \* [state, error, attempted, closed, epoch, recorded]
  child,   \* [Commands -> supervisor and process, or None]
  job      \* the call on the run in progress, or None

toolVars == <<now, granted, run, child, job>>

NewRun == [state |-> "NEW", error |-> FALSE, attempted |-> FALSE, closed |-> FALSE,
           epoch |-> None, recorded |-> {}]

\* What a child will write may lie in the pipe from the start: a reader is as
\* late as it likes.
Child(os, failure, readers, out) ==
  [state |-> IF os = "none" THEN "FAILED" ELSE "RUNNING", os |-> os, code |-> 0,
   reaped |-> FALSE, killed |-> FALSE, held |-> FALSE, started |-> now, failure |-> failure,
   written |-> out, got |-> [s \in Streams |-> 0], kept |-> 0,
   reader |-> readers]

ToolInit == now = 0 /\ granted = TRUE /\ run = NewRun /\ child = [i \in Commands |-> None] /\ job = None

Silent == [s \in Streams |-> 0]
Total(f) == f[1] + f[2]
Reading(c) == {s \in Streams : c.reader[s] \notin {"eof", "gone"}}
AllEof(c) == \A s \in Streams : c.reader[s] = "eof"
Because(c, why) == [c EXCEPT !.failure = IF @ = None THEN why ELSE @]
Reap(c) == [c EXCEPT !.reaped = @ \/ c.os = "dead"]
OutputComplete(c) == AllEof(c) /\ c.failure \notin {"BUFFER_FULL", "RESOURCE", "TIMEOUT"}
\* ReplayProcessRun.snapshot: pending_cleanup
Pending(c) == (c.os # "none" /\ ~c.reaped) \/ Reading(c) # {}

----------------------------------------------------------------------------
(* The system: processes, descendants holding their pipes, the clock       *)

Live(i) == child[i] # None /\ child[i].os = "alive"
Exit(i, code, held) ==
  /\ Live(i) /\ (child[i].killed => code = 1) /\ (held => i \in Rough)
  /\ child' = [child EXCEPT ![i].os = "dead", ![i].code = code, ![i].held = held]
  /\ UNCHANGED <<now, granted, run, job>>
Release(i) ==
  /\ child[i] # None /\ child[i].held
  /\ child' = [child EXCEPT ![i].held = FALSE] /\ UNCHANGED <<now, granted, run, job>>
\* Times are relative to the start of the run.
Pass == run.epoch # None /\ now < MaxNow /\ now' = now + 1 /\ UNCHANGED <<granted, run, child, job>>
Revoke == granted /\ granted' = FALSE /\ UNCHANGED <<now, run, child, job>>

(* ProcessSupervisor._reader *)
\* Fault: the limit is one chunk too generous.
ChunkOver(i, s) ==
  LET c == child[i]
      fits == c.kept <= Limit
  IN /\ c # None /\ c.reader[s] = "reading" /\ c.got[s] < c.written[s]
     /\ child' = [child EXCEPT ![i] = [c EXCEPT !.got[s] = @ + 1, !.kept = IF fits THEN @ + 1 ELSE @]]
     /\ UNCHANGED <<now, granted, run, job>>
Chunk(i, s) ==
  LET c == child[i]
      fits == c.kept < Limit
  IN /\ c # None /\ c.reader[s] = "reading" /\ c.got[s] < c.written[s]
     /\ child' = [child EXCEPT ![i] =
          [(IF fits THEN c ELSE Because(c, "BUFFER_FULL")) EXCEPT
             !.got[s] = @ + 1, !.kept = IF fits THEN @ + 1 ELSE @,
             !.reader[s] = IF fits THEN "reading" ELSE "full"]]
     /\ UNCHANGED <<now, granted, run, job>>
EndOfFile(i, s) ==
  LET c == child[i]
  IN /\ c # None /\ c.reader[s] = "reading" /\ c.got[s] = c.written[s]
     /\ c.os = "dead" /\ ~c.held
     /\ child' = [child EXCEPT ![i].reader[s] = "eof"] /\ UNCHANGED <<now, granted, run, job>>
ReadFails(i, s) ==
  /\ i \in Rough /\ child[i] # None /\ child[i].reader[s] = "reading"
  /\ child' = [child EXCEPT ![i] = [Because(@, "RESOURCE") EXCEPT !.reader[s] = "failing"]]
  /\ UNCHANGED <<now, granted, run, job>>
KillDirect(i, s) ==
  /\ child[i] # None /\ child[i].reader[s] \in {"full", "failing"}
  /\ child' = [child EXCEPT ![i] =
       [Reap(@) EXCEPT !.killed = @ \/ child[i].os = "alive",
                       !.reader[s] = IF @ = "full" THEN "reading" ELSE "gone"]]
  /\ UNCHANGED <<now, granted, run, job>>

----------------------------------------------------------------------------
(* ReplayProcessRun: start, poll, stop, close                              *)

Call(op, stage) == [op |-> op, stage |-> stage, at |-> 1, phase |-> "turn", wanted |-> None,
                    back |-> None, now |-> now]

Idle == job = None
Unchanged == UNCHANGED <<now, granted>>

\* Fault: the failure is told, the other children go on.
RunFailsAlone == run' = [run EXCEPT !.state = "FAILED", !.error = TRUE] /\ job' = None
\* _failure: the run is FAILED and every child is told to stop.
RunFails == run' = [run EXCEPT !.state = "FAILED", !.error = TRUE] /\ job' = Call("fail", "stop")

Start ==
  /\ Idle /\ ~run.attempted /\ ~run.closed /\ run.state = "NEW"
  /\ \/ /\ granted /\ run' = [run EXCEPT !.attempted = TRUE, !.state = "RUNNING", !.epoch = now]
        /\ job' = Call("poll", "poll")
     \/ /\ run' = [run EXCEPT !.attempted = TRUE, !.state = "FAILED", !.error = TRUE]
        /\ UNCHANGED job  \* no authority, executable or files: nothing to stop
  /\ UNCHANGED child /\ Unchanged

Poll ==
  /\ Idle /\ run.state = "RUNNING" /\ UNCHANGED child /\ Unchanged
  /\ IF granted THEN job' = Call("poll", "poll") /\ UNCHANGED run ELSE RunFails

Stop == Idle /\ job' = Call("stop", "stop") /\ UNCHANGED <<run, child>> /\ Unchanged
Close == Idle /\ ~run.closed /\ job' = Call("close", "stop") /\ UNCHANGED <<run, child>> /\ Unchanged

Current == child[job.at]
Becomes(c) == child' = [child EXCEPT ![job.at] = c]
Goto(phase) == job' = [job EXCEPT !.phase = phase,
                                   !.wanted = IF phase \in {"told", "settle"} THEN None ELSE @]
At(stage, phase) == ~Idle /\ job.stage = stage /\ job.phase = phase
Next1 == job' = [job EXCEPT !.at = @ + 1, !.phase = "turn", !.wanted = None, !.back = None]
More == job.at \in Commands

\* The next command of _poll: not due, late, or started; ProcessSupervisor.start.
Launch ==
  /\ At("poll", "turn") /\ More /\ Current = None /\ Unchanged
  /\ LET scheduled == run.epoch + Offset[job.at]
     IN IF job.now < scheduled THEN Next1 /\ UNCHANGED <<run, child>>
        ELSE IF ~granted \/ now > scheduled + Lateness
             THEN RunFails /\ UNCHANGED child
             ELSE /\ UNCHANGED run
                  /\ \/ /\ \E out \in Outputs[job.at] :
                             Becomes(Child("alive", None, [s \in Streams |-> "reading"], out))
                        /\ job' = [job EXCEPT !.now = now]
                     \/ /\ Becomes(Child("none", "RESOURCE", [s \in Streams |-> "gone"], Silent))
                        /\ UNCHANGED job
                     \* No thread for the second pipe, or for either.
                     \/ /\ \/ Becomes(Child("alive", "RESOURCE", [s \in Streams |-> "gone"], Silent))
                           \/ \E out \in Outputs[job.at] :
                                Becomes(Child("alive", "RESOURCE", <<"reading", "gone">>, out))
                        /\ job' = [job EXCEPT !.phase = "stopping", !.wanted = "FAILED", !.back = "told"]

\* ProcessSupervisor._poll: the process is polled, then the readers' word read.
PollCode ==
  /\ ~Idle /\ job.phase = "turn" /\ More /\ Current # None /\ UNCHANGED run /\ Unchanged
  /\ Becomes(IF Current.state = "RUNNING" THEN Reap(Current) ELSE Current)
  /\ job' = [job EXCEPT !.phase = IF Current.state = "RUNNING" THEN "look"
                                  ELSE IF job.stage = "stop" THEN "settle" ELSE "told",
                        !.wanted = IF Current.state # "RUNNING" THEN None
                                   ELSE IF now >= Current.started + Timeout THEN "late"
                                   ELSE IF Current.os = "dead" THEN "known" ELSE "unknown"]

AfterPoll == IF job.stage = "stop" THEN "settle" ELSE "told"
StopFor(wanted, back) == job' = [job EXCEPT !.phase = "stopping", !.wanted = wanted, !.back = back]

\* Fault: the exit alone ends the child, its output may still be on the way.
LookExitOnly ==
  LET c == Current
  IN /\ ~Idle /\ job.phase = "look" /\ UNCHANGED run /\ Unchanged
     /\ IF c.failure # None THEN UNCHANGED child /\ StopFor("FAILED", AfterPoll)
        ELSE IF job.wanted = "late"
             THEN Becomes([c EXCEPT !.failure = "TIMEOUT"]) /\ StopFor("FAILED", AfterPoll)
             ELSE /\ Goto(AfterPoll)
                  /\ IF job.wanted = "known"
                     THEN Becomes([c EXCEPT !.failure = IF c.code # 0 THEN "STATE" ELSE None,
                                            !.state = IF c.code # 0 THEN "FAILED" ELSE "EXITED"])
                     ELSE UNCHANGED child
Look ==
  LET c == Current
  IN /\ ~Idle /\ job.phase = "look" /\ UNCHANGED run /\ Unchanged
     /\ IF c.failure # None THEN UNCHANGED child /\ StopFor("FAILED", AfterPoll)
        ELSE IF job.wanted = "late"
             THEN Becomes([c EXCEPT !.failure = "TIMEOUT"]) /\ StopFor("FAILED", AfterPoll)
             ELSE /\ Goto(AfterPoll)
                  /\ IF job.wanted = "known" /\ AllEof(c)
                     THEN Becomes([c EXCEPT !.failure = IF c.code # 0 THEN "STATE" ELSE None,
                                            !.state = IF c.code # 0 THEN "FAILED" ELSE "EXITED"])
                     ELSE UNCHANGED child

\* ProcessSupervisor.stop, after its _poll.
Settle ==
  LET c == Current
  IN /\ At("stop", "settle") /\ UNCHANGED run /\ Unchanged
     /\ IF c.state = "RUNNING" THEN UNCHANGED child /\ StopFor("STOPPED", "told")
        ELSE IF c.os = "none" THEN UNCHANGED child /\ Goto("told")
        ELSE /\ Becomes(Reap(c))
             /\ IF c.os = "alive" THEN StopFor("FAILED", "told")
                ELSE IF ~OutputComplete(c) \/ Reading(c) # {}
                     THEN StopFor(IF c.state = "FAILED" THEN "FAILED" ELSE "EXITED", "told")
                     ELSE Goto("told")

\* ProcessSupervisor._stop: terminate, kill, join the readers, judge.
StopBegins ==
  LET c == Current
      exited == c.os = "dead" /\ job.wanted = "STOPPED"
  IN /\ ~Idle /\ job.phase = "stopping" /\ UNCHANGED run /\ Unchanged
     /\ Becomes(Reap(IF exited /\ c.code # 0 THEN Because(c, "STATE") ELSE c))
     /\ job' = [job EXCEPT !.wanted = IF exited THEN "EXITED" ELSE @,
                           !.phase = IF c.os = "dead" THEN "joining" ELSE "terminated"]

Waited(phase, next) ==
  LET c == Current
  IN /\ ~Idle /\ job.phase = phase /\ UNCHANGED run /\ Unchanged
     /\ \/ c.os = "dead" /\ Becomes(Reap(c)) /\ Goto("joining")
        \/ c.os = "alive" /\ Goto(next)
           /\ Becomes(IF phase = "terminated" THEN [c EXCEPT !.killed = TRUE] ELSE Because(c, "STATE"))

\* Fault: readers still at work when the join gives up are not held against it.
JudgeUnread(c) == LET d == IF ~c.reaped THEN Because(c, "STATE") ELSE c
                  IN [d EXCEPT !.state = IF d.failure # None THEN "FAILED" ELSE job.wanted]
Judge(c) ==
  LET t == IF job.wanted = "EXITED" /\ now >= c.started + Timeout THEN Because(c, "TIMEOUT") ELSE c
      d == IF ~c.reaped \/ ~AllEof(c) THEN Because(t, "STATE") ELSE t
  IN [d EXCEPT !.state = IF d.failure # None THEN "FAILED" ELSE job.wanted]
\* The readers have ended, or waiting for them has.
Joined == /\ ~Idle /\ job.phase = "joining" /\ Becomes(Judge(Current)) /\ Goto(job.back)
          /\ UNCHANGED run /\ Unchanged

\* Fault: what stop() returned is not looked at.
ToldStopLost ==
  LET c == Current
      done == c.reaped /\ OutputComplete(c)
  IN /\ ~Idle /\ job.phase = "told" /\ UNCHANGED child /\ Unchanged
     /\ IF job.stage = "stop" THEN Next1 /\ UNCHANGED run
        ELSE IF c.failure # None THEN RunFails
             ELSE Next1 /\ run' = [run EXCEPT !.recorded = IF done THEN @ \cup {job.at} ELSE @]
\* What the run makes of the supervisor's snapshot.
Told ==
  LET c == Current
      done == c.reaped /\ OutputComplete(c)
  IN /\ ~Idle /\ job.phase = "told" /\ UNCHANGED child /\ Unchanged
     /\ IF job.stage = "stop"
        THEN /\ Next1
             /\ run' = IF c.failure # None THEN [run EXCEPT !.state = "FAILED", !.error = TRUE] ELSE run
        ELSE IF c.failure # None THEN RunFails
             ELSE Next1 /\ run' = [run EXCEPT !.recorded = IF done THEN @ \cup {job.at} ELSE @]

\* A command that was never launched has nothing to stop.
Skip == /\ At("stop", "turn") /\ More /\ Current = None /\ Next1
        /\ UNCHANGED <<run, child>> /\ Unchanged

\* Fault: close asks only for the processes.
NothingPendingProcesses == \A i \in Commands : child[i] # None => child[i].os = "none" \/ child[i].reaped
NothingPending == \A i \in Commands : child[i] # None => ~Pending(child[i])

Finish ==
  /\ ~Idle /\ ~More /\ job' = None /\ UNCHANGED child /\ Unchanged
  /\ run' = CASE job.op = "poll" /\ run.recorded = Commands -> [run EXCEPT !.state = "LOCAL_EXITED"]
              [] job.op = "stop" /\ run.state # "FAILED" -> [run EXCEPT !.state = "LOCAL_STOPPED"]
              [] job.op = "close" /\ NothingPending ->
                   [run EXCEPT !.closed = TRUE,
                      !.state = IF @ \in {"FAILED", "LOCAL_EXITED"} THEN @ ELSE "LOCAL_STOPPED"]
              [] OTHER -> run

Step == \/ Launch \/ PollCode \/ Look \/ Settle \/ StopBegins
        \/ Waited("terminated", "killed") \/ Waited("killed", "joining")
        \/ Joined \/ Told \/ Skip \/ Finish

System == \E i \in Commands : \/ Release(i)
                              \/ \E code \in {0, 1}, held \in BOOLEAN : Exit(i, code, held)
Readers == \E i \in Commands, s \in Streams :
             Chunk(i, s) \/ EndOfFile(i, s) \/ ReadFails(i, s) \/ KillDirect(i, s)

ToolNext == Start \/ Poll \/ Stop \/ Close \/ Step \/ System \/ Readers \/ Pass \/ Revoke

ToolSpec == ToolInit /\ [][ToolNext]_toolVars

----------------------------------------------------------------------------
(* Properties                                                              *)

Started == {i \in Commands : child[i] # None}

\* The records keep their shape; the two streams share one bounded buffer and
\* nothing is read that was not written.
ToolTypeOK ==
  /\ run.recorded \subseteq Started
  /\ \A i \in Started :
       /\ child[i].kept <= Limit /\ child[i].kept <= Total(child[i].got)
       /\ \A s \in Streams : child[i].got[s] <= child[i].written[s]
       /\ child[i].state \in {"RUNNING", "EXITED", "STOPPED", "FAILED"}

\* A child is told EXITED only when it exited with 0 and all it wrote on both
\* pipes was read and kept (tool_process._poll, _stop).
ExitedIsWhole ==
  \A i \in Started :
    child[i].state = "EXITED" =>
      child[i].reaped /\ child[i].code = 0 /\ child[i].got = child[i].written
      /\ child[i].kept = Total(child[i].written)

\* A closed run leaves nothing behind: every child it ever started was reaped
\* and no reader is at work, also after a start that failed half way.
ClosedLeavesNothing ==
  run.closed /\ Idle =>
    \A i \in Started : child[i].os # "alive" /\ (child[i].os = "dead" => child[i].reaped)
                       /\ Reading(child[i]) = {}

\* A run closed as LOCAL_EXITED had every command run to its end, cleanly: a
\* child recorded too early is judged again by the stop that close makes.
CleanWhenClosed ==
  run.closed /\ run.state = "LOCAL_EXITED" =>
    \A i \in Commands : child[i] # None /\ child[i].state = "EXITED"

\* Once a call has told FAILED or LOCAL_STOPPED no child of the run is left
\* running; one that could not be ended, or whose pipes stay open, is told failed.
FailureStopsAll ==
  Idle /\ run.state \in {"FAILED", "LOCAL_STOPPED"} =>
    \A i \in Started : child[i].state # "RUNNING" /\ (Pending(child[i]) => child[i].failure # None)

\* What a run says of its tools is so: whole output before EXITED, nothing left
\* when closed, clean when closed as exited, nobody running after a failure.
ToolsSound ==
  ToolTypeOK /\ ExitedIsWhole /\ ClosedLeavesNothing /\ CleanWhenClosed /\ FailureStopsAll
=============================================================================
