---------------------------- MODULE BoundedCapture ----------------------------
(***************************************************************************)
(* One call of run_bounded_capture (scripts/_bounded_subprocess.py) on     *)
(* POSIX: the calling thread, the two daemon threads that drain stdout and *)
(* stderr, and the processes of the command.                               *)
(*                                                                         *)
(* The calling thread's program counter is `todo`, the labels it still has *)
(* to run, the current one first, so that a call of                        *)
(* _terminate_process_tree or _close_capture_pipes is its labels followed  *)
(* by those of the caller.  A clock is one flag: `expired` once the        *)
(* deadline has passed.  Bytes are counted, not represented.  The command  *)
(* starts as its leader and the descendants it spawned, each of which may  *)
(* hold the write end of either pipe and may have left the leader's        *)
(* process group.                                                          *)
(*                                                                         *)
(* Left out: argument checks, the failure of Popen, the branch for other   *)
(* systems, which signals the leader alone, and the reuse of a reaped      *)
(* leader's number by the system.                                          *)
(***************************************************************************)
EXTENDS Naturals, Sequences, FiniteSets

CONSTANTS
    Leader,         \* the direct child
    Descendants,    \* the processes it spawned
    Limit,          \* max_stdout_bytes = max_stderr_bytes
    PipeCapacity,   \* bytes a pipe holds before its writer blocks
    MaxWritten      \* bound of the model: bytes written to one stream

Streams == {"stdout", "stderr"}
Procs   == {Leader} \cup Descendants

ASSUME ProcsAssumption == Leader \notin Descendants

ASSUME BytesAssumption ==
    Limit \in Nat /\ PipeCapacity \in Nat \ {0} /\ MaxWritten \in Nat

VARIABLES
    todo,           \* labels the calling thread has yet to run
    timedOut,       \* timed_out
    overflowed,     \* overflowed
    verdict,        \* how the call ends, once decided
    expired,        \* the monotonic clock is past the deadline
    proc,           \* "running", "killed" (signal pending) or "dead"
    holds,          \* streams whose write end each process holds while it lives
    escaped,        \* descendants in a process group of their own
    garbled,        \* the stdout of the command is not UTF-8
    written, pipe,  \* bytes written to each stream, and those not read yet
    reader,         \* each drain thread: "idle", "reading" or "done"
    buffer,         \* bytes each drain thread has kept
    overflow,       \* stdout_overflow, stderr_overflow
    closed          \* the parent's end of the pipe is closed

main == <<todo, timedOut, overflowed, verdict>>
os   == <<expired, proc, written>>
drain == <<pipe, reader, buffer, overflow>>
fixed == <<holds, escaped, garbled>>
vars == <<main, os, drain, fixed, closed>>

Group == Procs \ escaped

Labels == {"poll", "look", "check", "wait", "join_stdout", "join_stderr", "kill",
           "kill_tree", "reap", "close_stdout", "close_stderr", "verdict"}

Verdicts == {"none", "timeout", "stdout_overflow", "stderr_overflow",
             "completed", "data_error"}

At(label) == todo # <<>> /\ Head(todo) = label

Returned == todo = <<>>

LeaderExited == proc[Leader] = "dead"

\* Processes that keep a stream from ending.
Holders(s) == {p \in Procs : proc[p] # "dead" /\ s \in holds[p]}

Terminate(then) == <<"kill", "reap">> \o then

Close(then) == <<"close_stdout", "close_stderr">> \o then

-----------------------------------------------------------------------------
(* The calling thread.                                                      *)

Poll ==
    /\ At("poll")
    /\ todo' = IF LeaderExited THEN <<"check">> ELSE <<"look">>
    /\ UNCHANGED <<timedOut, overflowed, verdict, os, drain, fixed, closed>>

\* The body of the polling loop: overflow first, then the deadline.
Look ==
    /\ At("look")
    /\ LET over == \E s \in Streams : overflow[s]
       IN  /\ overflowed' = over
           /\ timedOut' = (~over /\ expired)
           /\ todo' = IF over \/ expired THEN Terminate(<<"check">>) ELSE <<"poll">>
    /\ UNCHANGED <<verdict, os, drain, fixed, closed>>

Check ==
    /\ At("check")
    /\ todo' = IF LeaderExited THEN <<"join_stdout">> ELSE <<"wait">>
    /\ UNCHANGED <<timedOut, overflowed, verdict, os, drain, fixed, closed>>

\* process.wait for what is left of the deadline.
Wait ==
    /\ At("wait")
    /\ LeaderExited \/ expired
    /\ timedOut' = (timedOut \/ ~LeaderExited)
    /\ todo' = IF LeaderExited THEN <<"join_stdout">> ELSE Terminate(<<"join_stdout">>)
    /\ UNCHANGED <<overflowed, verdict, os, drain, fixed, closed>>

JoinLabel(s) == IF s = "stdout" THEN "join_stdout" ELSE "join_stderr"
AfterJoin(s) == IF s = "stdout" THEN <<"join_stderr">> ELSE <<"verdict">>

\* (fault: a reader that is still alive is not counted as a timeout)
JoinWithoutTimeout(s) ==
    /\ At(JoinLabel(s))
    /\ reader[s] = "done" \/ expired
    /\ todo' = IF reader[s] = "done" THEN AfterJoin(s)
               ELSE <<"kill_tree", "reap">> \o Close(<<"verdict">>)
    /\ overflowed' = (overflowed \/ \E t \in Streams : overflow[t])
    /\ UNCHANGED <<timedOut, verdict, os, drain, fixed, closed>>

\* Join a reader for what is left of the deadline.  One that is still alive
\* ends the joins: its pipe's group is killed and both pipes are closed.
Join(s) ==
    /\ At(JoinLabel(s))
    /\ \/ /\ reader[s] = "done"
          /\ todo' = AfterJoin(s)
          /\ UNCHANGED <<overflowed, timedOut>>
       \/ /\ reader[s] # "done" /\ expired
          /\ overflowed' = (overflowed \/ \E t \in Streams : overflow[t])
          /\ timedOut' = (timedOut \/ ~overflowed')
          /\ todo' = <<"kill_tree", "reap">> \o Close(<<"verdict">>)
    /\ UNCHANGED <<verdict, os, drain, fixed, closed>>

\* killpg: every live process of the group gets SIGKILL.
Signalled(targets) ==
    proc' = [p \in Procs |-> IF p \in targets /\ proc[p] = "running"
                             THEN "killed" ELSE proc[p]]

\* (faults: the descendants are never signalled, or only the leader is)
KillLiveTree ==
    /\ At("kill") \/ At("kill_tree")
    /\ IF ~LeaderExited THEN Signalled(Group) ELSE UNCHANGED proc
    /\ todo' = Tail(todo)
    /\ UNCHANGED <<timedOut, overflowed, verdict, expired, written, drain, fixed, closed>>

KillLeader ==
    /\ At("kill") \/ At("kill_tree")
    /\ IF ~LeaderExited \/ At("kill_tree") THEN Signalled({Leader})
       ELSE UNCHANGED proc
    /\ todo' = Tail(todo)
    /\ UNCHANGED <<timedOut, overflowed, verdict, expired, written, drain, fixed, closed>>

\* _terminate_process_tree up to its wait; "kill_tree" is a call with
\* terminate_descendants.
Kill ==
    /\ At("kill") \/ At("kill_tree")
    /\ IF ~LeaderExited \/ At("kill_tree") THEN Signalled(Group)
       ELSE UNCHANGED proc
    /\ todo' = Tail(todo)
    /\ UNCHANGED <<timedOut, overflowed, verdict, expired, written, drain, fixed, closed>>

Reap ==
    /\ At("reap") /\ LeaderExited
    /\ todo' = Tail(todo)
    /\ UNCHANGED <<timedOut, overflowed, verdict, os, drain, fixed, closed>>

\* _PROCESS_REAP_TIMEOUT_SECONDS pass and the leader is still not dead.
ReapTimesOut ==
    /\ At("reap") /\ ~LeaderExited
    /\ todo' = Tail(todo)
    /\ UNCHANGED <<timedOut, overflowed, verdict, os, drain, fixed, closed>>

\* stream.close() takes the lock of the buffered reader, which a drain thread
\* holds as long as it is inside read1.
CloseStream(s) ==
    /\ At(IF s = "stdout" THEN "close_stdout" ELSE "close_stderr")
    /\ reader[s] # "reading"
    /\ closed' = [closed EXCEPT ![s] = TRUE]
    /\ todo' = Tail(todo)
    /\ UNCHANGED <<timedOut, overflowed, verdict, os, drain, fixed>>

\* The ends of run_bounded_capture, in the order the code tries them.
Decide ==
    /\ At("verdict")
    /\ \/ /\ timedOut
          /\ verdict' = "timeout"
       \/ /\ ~timedOut /\ overflow["stdout"]
          /\ verdict' = "stdout_overflow"
       \/ /\ ~timedOut /\ ~overflow["stdout"] /\ overflow["stderr"]
          /\ verdict' = "stderr_overflow"
       \/ /\ ~timedOut /\ \A s \in Streams : ~overflow[s]
          /\ verdict' = IF garbled THEN "data_error" ELSE "completed"
    /\ todo' = IF verdict' \in {"completed", "data_error"}
               THEN Close(<<>>) ELSE Terminate(Close(<<>>))
    /\ UNCHANGED <<timedOut, overflowed, os, drain, fixed, closed>>

Main ==
    \/ Poll \/ Look \/ Check \/ Wait \/ Kill \/ Reap \/ ReapTimesOut \/ Decide
    \/ \E s \in Streams : Join(s) \/ CloseStream(s)

-----------------------------------------------------------------------------
(* The drain threads *)

StartRead(s) ==
    /\ reader[s] = "idle"
    /\ reader' = [reader EXCEPT ![s] = IF closed[s] THEN "done" ELSE "reading"]
    /\ UNCHANGED <<main, os, pipe, buffer, overflow, fixed, closed>>

Least(a, b) == IF a < b THEN a ELSE b

\* (fault: overflow is reported at the limit)
TakeAtLimit(s) ==
    /\ pipe[s] > 0
    /\ buffer' = [buffer EXCEPT ![s] = Least(@ + pipe[s], Limit + 1)]
    /\ overflow' = [overflow EXCEPT ![s] = @ \/ buffer'[s] >= Limit]
    /\ pipe' = [pipe EXCEPT ![s] = 0]
    /\ reader' = [reader EXCEPT ![s] = "idle"]

\* read1 returns what the pipe holds; at most Limit + 1 bytes are kept.
Take(s) ==
    /\ pipe[s] > 0
    /\ buffer' = [buffer EXCEPT ![s] = Least(@ + pipe[s], Limit + 1)]
    /\ overflow' = [overflow EXCEPT ![s] = @ \/ buffer'[s] > Limit]
    /\ pipe' = [pipe EXCEPT ![s] = 0]
    /\ reader' = [reader EXCEPT ![s] = "idle"]

\* End of file: nothing to read and no process left that could write.
EndOfFile(s) ==
    /\ pipe[s] = 0 /\ Holders(s) = {}
    /\ reader' = [reader EXCEPT ![s] = "done"]
    /\ UNCHANGED <<pipe, buffer, overflow>>

FinishRead(s) ==
    /\ reader[s] = "reading"
    /\ Take(s) \/ EndOfFile(s)
    /\ UNCHANGED <<main, os, fixed, closed>>

Drain(s) == StartRead(s) \/ FinishRead(s)

-----------------------------------------------------------------------------
(* The operating system and the command *)

Expire ==
    /\ ~expired /\ expired' = TRUE
    /\ UNCHANGED <<main, proc, written, drain, fixed, closed>>

\* A process writes one byte, if the pipe has room.  Bytes written after the
\* parent closed its end are lost.
Write(p, s) ==
    /\ p \in Holders(s)
    /\ written[s] < MaxWritten
    /\ closed[s] \/ pipe[s] < PipeCapacity
    /\ written' = [written EXCEPT ![s] = @ + 1]
    /\ pipe' = IF closed[s] THEN pipe ELSE [pipe EXCEPT ![s] = @ + 1]
    /\ UNCHANGED <<main, expired, proc, reader, buffer, overflow, fixed, closed>>

\* A process exits, or dies of the signal it was sent.
Exit(p) ==
    /\ proc[p] # "dead"
    /\ proc' = [proc EXCEPT ![p] = "dead"]
    /\ UNCHANGED <<main, expired, written, drain, fixed, closed>>

Die(p) == proc[p] = "killed" /\ Exit(p)

System ==
    \/ Expire
    \/ \E p \in Procs : Exit(p) \/ \E s \in Streams : Write(p, s)

-----------------------------------------------------------------------------

Init ==
    /\ todo = <<"poll">> /\ timedOut = FALSE /\ overflowed = FALSE /\ verdict = "none"
    /\ expired = FALSE
    /\ proc = [p \in Procs |-> "running"]
    /\ holds \in {h \in [Procs -> SUBSET Streams] : h[Leader] = Streams}
    /\ escaped \in SUBSET Descendants /\ garbled \in BOOLEAN
    /\ written = [s \in Streams |-> 0] /\ pipe = [s \in Streams |-> 0]
    /\ reader = [s \in Streams |-> "idle"]
    /\ buffer = [s \in Streams |-> 0]
    /\ overflow = [s \in Streams |-> FALSE]
    /\ closed = [s \in Streams |-> FALSE]

Next == Main \/ System \/ \E s \in Streams : Drain(s)

Spec == Init /\ [][Next]_vars

\* Threads are scheduled, time passes, and SIGKILL kills.  Nothing makes a
\* process exit that was not signalled.
Fairness ==
    /\ WF_vars(Main) /\ WF_vars(Expire)
    /\ \A s \in Streams : WF_vars(Drain(s))
    /\ \A p \in Procs : WF_vars(Die(p))

FairSpec == Spec /\ Fairness

-----------------------------------------------------------------------------
(* Properties *)

TypeOK ==
    /\ todo \in Seq(Labels) /\ Len(todo) <= 5
    /\ timedOut \in BOOLEAN /\ overflowed \in BOOLEAN /\ verdict \in Verdicts
    /\ expired \in BOOLEAN /\ garbled \in BOOLEAN
    /\ proc \in [Procs -> {"running", "killed", "dead"}]
    /\ holds \in [Procs -> SUBSET Streams] /\ escaped \subseteq Descendants
    /\ written \in [Streams -> 0..MaxWritten]
    /\ pipe \in [Streams -> 0..PipeCapacity]
    /\ reader \in [Streams -> {"idle", "reading", "done"}]
    /\ buffer \in [Streams -> 0..(Limit + 1)]
    /\ overflow \in [Streams -> BOOLEAN]
    /\ closed \in [Streams -> BOOLEAN]

\* A captured result is the whole output of a command that ended by itself:
\* no process was signalled, every holder of the pipes is gone, and every
\* byte written by any of them is in the buffers.
ResultIsWhole ==
    verdict \in {"completed", "data_error"} =>
        /\ \A p \in Procs : proc[p] # "killed"
        /\ ~timedOut /\ ~overflowed
        /\ \A s \in Streams : Holders(s) = {} /\ buffer[s] = written[s]

\* A failed call leaves nothing of its own behind: its pipes are closed and
\* no process of the group that holds one of them was spared.
NothingLeftBehind ==
    Returned => /\ \A s \in Streams : closed[s]
                /\ \A p \in Group : proc[p] = "running" => holds[p] = {}

\* A timeout is reported only after the deadline, an overflow only of a
\* stream that carried more than the limit.
VerdictTruthful ==
    /\ verdict = "timeout" => expired
    /\ \A s \in Streams :
         verdict = (IF s = "stdout" THEN "stdout_overflow" ELSE "stderr_overflow")
           => written[s] > Limit

\* The call returns, whatever the command does, unless a descendant that
\* holds one of its pipes left the process group.
CaptureReturns == (\A p \in escaped : holds[p] = {}) => <>Returned

=============================================================================
