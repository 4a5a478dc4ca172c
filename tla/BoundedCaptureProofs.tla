------------------------ MODULE BoundedCaptureProofs ------------------------
(***************************************************************************)
(* One bounded capture, for any number of descendants, wherever they are   *)
(* and whatever they hold, any limit and any capacity of the pipes.        *)
(*                                                                         *)
(* The inductive invariant follows the call by what it has still to run    *)
(* (Places): where it is tells which threads it has seen end (Reached),    *)
(* why it signals anything (Trouble), and from which place on nothing of   *)
(* the group is spared (Spared).  Bytes says where every byte written is.  *)
(***************************************************************************)
EXTENDS BoundedCapture, SequenceTheorems, TLAPS

\* Sequences under a name, which keeps them apart for the provers.
Polling    == <<"poll">>
Looking    == <<"look">>
Checking   == <<"check">>
Waiting    == <<"wait">>
Joining    == <<"join_stdout">>
JoiningErr == <<"join_stderr">>
Deciding   == <<"verdict">>
None       == <<>>

\* What is left of the two helpers when their first label has run.
ToReap(then)     == <<"reap">> \o then
ToCloseErr(then) == <<"close_stderr">> \o then
TerminateTree(then) == <<"kill_tree", "reap">> \o then

\* After the verdict of a call that failed, and of any call.
Ending  == {Terminate(Close(None)), ToReap(Close(None))}
Closing == {Close(None), ToCloseErr(None), None}

\* After a reader was found alive, with its tree not killed yet, and killed.
Stuck == {TerminateTree(Close(Deciding))}
Freed == {ToReap(Close(Deciding)), Close(Deciding), ToCloseErr(Deciding)}

\* While the leader is polled for, and terminated.
Killing == {Terminate(Checking), Terminate(Joining)}
Reaping == {ToReap(Checking), ToReap(Joining)}
Single  == {Polling, Looking, Checking, Waiting, Joining,
            JoiningErr, Deciding}

Places == Single \cup Killing \cup Reaping \cup Stuck \cup Freed \cup Ending \cup Closing

-----------------------------------------------------------------------------

\* The call has a reason to signal the command.
Trouble == timedOut \/ \E s \in Streams : overflow[s]

\* No process of the group that holds a pipe goes on undisturbed.
Spared == \A p \in Group : proc[p] = "running" => holds[p] = {}

Ended(s) == reader[s] = "done" /\ pipe[s] = 0 /\ Holders(s) = {}

Success == verdict \in {"completed", "data_error"}

\* Bytes are in the pipe or in the buffer, until they are too many or the pipe
\* is closed.
Bytes ==
    \A s \in Streams :
        /\ buffer[s] + pipe[s] <= written[s]
        /\ overflow[s] <=> buffer[s] > Limit
        /\ ~closed[s] /\ ~overflow[s] => buffer[s] + pipe[s] = written[s]
        /\ reader[s] = "done" => Ended(s) \/ closed[s]

\* A pipe is closed only after trouble or when all is read.
ClosedLate == \A s \in Streams : closed[s] => Spared /\ (Trouble \/ Success)

\* Processes are signalled only in trouble, of which the flags tell the truth.
Flags ==
    /\ (\E p \in Procs : proc[p] = "killed") => Trouble
    /\ timedOut => expired
    /\ overflowed => \E s \in Streams : overflow[s]

\* What the call knows where it is.
Reached ==
    /\ todo \in Places
    /\ todo \in {Polling, Looking} => ~timedOut
    /\ todo \in Killing \cup Stuck \cup Freed \cup Ending => Trouble
    /\ todo = JoiningErr => reader["stdout"] = "done"
    /\ todo \in Freed \cup Ending \cup Closing \cup {Deciding} => Spared
    /\ todo = Deciding => Trouble \/ \A s \in Streams : Ended(s)
    /\ verdict # "none" <=> todo \in Ending \cup Closing
    /\ todo \in {ToCloseErr(None), None} => closed["stdout"]
    /\ todo = None => closed["stderr"]

Told ==
    /\ verdict = "timeout" => timedOut
    /\ verdict = "stdout_overflow" => overflow["stdout"]
    /\ verdict = "stderr_overflow" => overflow["stderr"]
    /\ Success => ~Trouble /\ \A s \in Streams : Ended(s) /\ buffer[s] = written[s]

IInv == TypeOK /\ Bytes /\ ClosedLate /\ Flags /\ Reached /\ Told

-----------------------------------------------------------------------------
(* Where a label can be current, and what follows it *)

\* One or two labels in front of others.
LEMMA InFront ==
    ASSUME NEW a \in Labels, NEW b \in Labels, NEW t \in Seq(Labels)
    PROVE  /\ <<a, b>> \o t \in Seq(Labels) /\ Len(<<a, b>> \o t) = Len(t) + 2
           /\ Head(<<a, b>> \o t) = a /\ Tail(<<a, b>> \o t) = <<b>> \o t
           /\ <<b>> \o t \in Seq(Labels) /\ Len(<<b>> \o t) = Len(t) + 1
           /\ Head(<<b>> \o t) = b /\ Tail(<<b>> \o t) = t
<1> DEFINE u == <<a, b>> \o t
           v == <<b>> \o t
<1>1. /\ <<a, b>> \in Seq(Labels) /\ <<b>> \in Seq(Labels)
      /\ Len(<<a, b>>) = 2 /\ Len(<<b>>) = 1 /\ Len(t) \in Nat
  BY LenProperties
<1>2. /\ u \in Seq(Labels) /\ Len(u) = Len(t) + 2
      /\ \A i \in 1 .. Len(t) + 2 : u[i] = IF i <= 2 THEN <<a, b>>[i] ELSE t[i - 2]
  BY <1>1, ConcatProperties
<1>3. /\ v \in Seq(Labels) /\ Len(v) = Len(t) + 1
      /\ \A i \in 1 .. Len(t) + 1 : v[i] = IF i <= 1 THEN b ELSE t[i - 1]
  BY <1>1, ConcatProperties
<1>4. u # <<>> /\ v # <<>>
  BY <1>1, <1>2, <1>3, EmptySeq
<1>5. Tail(v) = t
  <2>1. /\ Tail(v) \in Seq(Labels) /\ Len(Tail(v)) = Len(v) - 1
        /\ \A i \in 1 .. Len(Tail(v)) : Tail(v)[i] = v[i + 1]
    BY <1>3, <1>4, HeadTailProperties
  <2>2. Len(Tail(v)) = Len(t)
    BY <2>1, <1>1, <1>3
  <2>3. \A i \in 1 .. Len(t) : Tail(v)[i] = t[i]
    BY <2>1, <2>2, <1>1, <1>3
  <2>4. QED
    BY <2>1, <2>2, <2>3, SeqEqual
<1>6. Tail(u) = v
  <2>1. /\ Tail(u) \in Seq(Labels) /\ Len(Tail(u)) = Len(u) - 1
        /\ \A i \in 1 .. Len(Tail(u)) : Tail(u)[i] = u[i + 1]
    BY <1>2, <1>4, HeadTailProperties
  <2>2. Len(Tail(u)) = Len(v)
    BY <2>1, <1>1, <1>2, <1>3
  <2>3. \A i \in 1 .. Len(v) : Tail(u)[i] = v[i]
    BY <2>1, <2>2, <1>1, <1>2, <1>3
  <2>4. QED
    BY <2>1, <2>2, <2>3, <1>3, SeqEqual
<1>7. Head(u) = a /\ Head(v) = b
  BY <1>1, <1>2, <1>3
<1>8. QED
  BY <1>2, <1>3, <1>5, <1>6, <1>7

\* What the helpers put in front of the labels of their caller.
LEMMA Lengths ==
    ASSUME NEW t \in Seq(Labels)
    PROVE  /\ Terminate(t) \in Seq(Labels) /\ Len(Terminate(t)) = Len(t) + 2
           /\ TerminateTree(t) \in Seq(Labels) /\ Len(TerminateTree(t)) = Len(t) + 2
           /\ ToReap(t) \in Seq(Labels) /\ Len(ToReap(t)) = Len(t) + 1
           /\ Close(t) \in Seq(Labels) /\ Len(Close(t)) = Len(t) + 2
           /\ ToCloseErr(t) \in Seq(Labels) /\ Len(ToCloseErr(t)) = Len(t) + 1
<1>1. "kill" \in Labels /\ "kill_tree" \in Labels /\ "reap" \in Labels
      /\ "close_stdout" \in Labels /\ "close_stderr" \in Labels
  BY DEF Labels
<1>2. Terminate(t) \in Seq(Labels) /\ Len(Terminate(t)) = Len(t) + 2
  BY <1>1, InFront DEF Terminate
<1>3. TerminateTree(t) \in Seq(Labels) /\ Len(TerminateTree(t)) = Len(t) + 2
  BY <1>1, InFront DEF TerminateTree
<1>4. ToReap(t) \in Seq(Labels) /\ Len(ToReap(t)) = Len(t) + 1
  BY <1>1, InFront DEF ToReap
<1>5. Close(t) \in Seq(Labels) /\ Len(Close(t)) = Len(t) + 2
  BY <1>1, InFront DEF Close
<1>6. ToCloseErr(t) \in Seq(Labels) /\ Len(ToCloseErr(t)) = Len(t) + 1
  BY <1>1, InFront DEF ToCloseErr
<1>7. QED
  BY <1>2, <1>3, <1>4, <1>5, <1>6

\* The first label of what the helpers left to run, and what follows it.
LEMMA Heads ==
    ASSUME NEW t \in Seq(Labels)
    PROVE  /\ Head(Terminate(t)) = "kill" /\ Tail(Terminate(t)) = ToReap(t)
           /\ Head(TerminateTree(t)) = "kill_tree" /\ Tail(TerminateTree(t)) = ToReap(t)
           /\ Head(ToReap(t)) = "reap" /\ Tail(ToReap(t)) = t
           /\ Head(Close(t)) = "close_stdout" /\ Tail(Close(t)) = ToCloseErr(t)
           /\ Head(ToCloseErr(t)) = "close_stderr" /\ Tail(ToCloseErr(t)) = t
<1>1. "kill" \in Labels /\ "kill_tree" \in Labels /\ "reap" \in Labels
      /\ "close_stdout" \in Labels /\ "close_stderr" \in Labels
  BY DEF Labels
<1>2. Head(Terminate(t)) = "kill" /\ Tail(Terminate(t)) = ToReap(t)
  BY <1>1, InFront DEF Terminate, ToReap
<1>3. Head(TerminateTree(t)) = "kill_tree" /\ Tail(TerminateTree(t)) = ToReap(t)
  BY <1>1, InFront DEF TerminateTree, ToReap
<1>4. Head(ToReap(t)) = "reap" /\ Tail(ToReap(t)) = t
  BY <1>1, InFront DEF ToReap
<1>5. Head(Close(t)) = "close_stdout" /\ Tail(Close(t)) = ToCloseErr(t)
  BY <1>1, InFront DEF Close, ToCloseErr
<1>6. Head(ToCloseErr(t)) = "close_stderr" /\ Tail(ToCloseErr(t)) = t
  BY <1>1, InFront DEF ToCloseErr
<1>7. QED
  BY <1>2, <1>3, <1>4, <1>5, <1>6

\* The places with one label left, by their label.
LEMMA OneLabel ==
    /\ \A t \in Single : t \in Seq(Labels) /\ Len(t) = 1
    /\ Head(Polling) = "poll" /\ Head(Looking) = "look" /\ Head(Checking) = "check"
    /\ Head(Waiting) = "wait" /\ Head(Joining) = "join_stdout"
    /\ Head(JoiningErr) = "join_stderr" /\ Head(Deciding) = "verdict"
BY DEF Single, Polling, Looking, Checking, Waiting, Joining, JoiningErr, Deciding, Labels

Rests == {None, Checking, Joining, Deciding, Close(None), Close(Deciding)}

\* The length of what is left to run tells places with the same label apart.
LEMMA RestLengths ==
    /\ Rests \subseteq Seq(Labels)
    /\ Len(None) = 0 /\ Len(Checking) = 1 /\ Len(Joining) = 1 /\ Len(Deciding) = 1
    /\ Len(Close(None)) = 2 /\ Len(Close(Deciding)) = 3
<1>1. /\ Checking \in Seq(Labels) /\ Len(Checking) = 1
      /\ Joining \in Seq(Labels) /\ Len(Joining) = 1
      /\ Deciding \in Seq(Labels) /\ Len(Deciding) = 1
  BY OneLabel DEF Single
<1>2. None \in Seq(Labels) /\ Len(None) = 0
  BY EmptySeq DEF None
<1>3. /\ Close(None) \in Seq(Labels) /\ Len(Close(None)) = Len(None) + 2
      /\ Close(Deciding) \in Seq(Labels) /\ Len(Close(Deciding)) = Len(Deciding) + 2
  BY <1>1, <1>2, Lengths
<1>4. Len(Close(None)) = 2 /\ Len(Close(Deciding)) = 3
  BY <1>1, <1>2, <1>3
<1>5. QED
  BY <1>1, <1>2, <1>3, <1>4 DEF Rests

\* How many labels are left at the places inside the helpers.
LEMMA PlaceLengths ==
    /\ Len(ToCloseErr(None)) = 1 /\ Len(ToCloseErr(Deciding)) = 2
    /\ Len(ToReap(Checking)) = 2 /\ Len(ToReap(Joining)) = 2
    /\ Len(ToReap(Close(None))) = 3 /\ Len(ToReap(Close(Deciding))) = 4
    /\ Len(Terminate(Checking)) = 3 /\ Len(Terminate(Joining)) = 3
    /\ Len(Terminate(Close(None))) = 4 /\ Len(TerminateTree(Close(Deciding))) = 5
<1>1. None \in Rests /\ Checking \in Rests /\ Joining \in Rests /\ Deciding \in Rests
      /\ Close(None) \in Rests /\ Close(Deciding) \in Rests
  BY DEF Rests
<1>2. \A t \in Rests : t \in Seq(Labels)
  BY RestLengths
<1>3. \A t \in Rests : /\ Len(Terminate(t)) = Len(t) + 2 /\ Len(TerminateTree(t)) = Len(t) + 2
                       /\ Len(ToReap(t)) = Len(t) + 1 /\ Len(ToCloseErr(t)) = Len(t) + 1
  BY <1>2, Lengths
<1>4. /\ Len(ToCloseErr(None)) = Len(None) + 1 /\ Len(ToCloseErr(Deciding)) = Len(Deciding) + 1
      /\ Len(ToReap(Checking)) = Len(Checking) + 1
      /\ Len(ToReap(Joining)) = Len(Joining) + 1
      /\ Len(Terminate(Checking)) = Len(Checking) + 2
      /\ Len(Terminate(Joining)) = Len(Joining) + 2
  BY <1>1, <1>3
<1>5. /\ Len(ToReap(Close(None))) = Len(Close(None)) + 1
      /\ Len(ToReap(Close(Deciding))) = Len(Close(Deciding)) + 1
      /\ Len(Terminate(Close(None))) = Len(Close(None)) + 2
      /\ Len(TerminateTree(Close(Deciding))) = Len(Close(Deciding)) + 2
  BY <1>1, <1>3
<1>6. Len(Close(None)) = 2 /\ Len(Close(Deciding)) = 3
  BY RestLengths
<1>7. Len(ToReap(Close(None))) = 3 /\ Len(ToReap(Close(Deciding))) = 4
  BY <1>5, <1>6
<1>8. Len(Terminate(Close(None))) = 4 /\ Len(TerminateTree(Close(Deciding))) = 5
  BY <1>5, <1>6
<1>9. QED
  BY <1>4, <1>7, <1>8, RestLengths

\* The first label of what is left, and what follows it.
LEMMA Follows ==
    \A t \in Rests :
        /\ t \in Seq(Labels)
        /\ Terminate(t) \in Seq(Labels) /\ TerminateTree(t) \in Seq(Labels)
        /\ ToReap(t) \in Seq(Labels) /\ Close(t) \in Seq(Labels) /\ ToCloseErr(t) \in Seq(Labels)
        /\ Head(Terminate(t)) = "kill" /\ Tail(Terminate(t)) = ToReap(t)
        /\ Head(TerminateTree(t)) = "kill_tree" /\ Tail(TerminateTree(t)) = ToReap(t)
        /\ Head(ToReap(t)) = "reap" /\ Tail(ToReap(t)) = t
        /\ Head(Close(t)) = "close_stdout" /\ Tail(Close(t)) = ToCloseErr(t)
        /\ Head(ToCloseErr(t)) = "close_stderr" /\ Tail(ToCloseErr(t)) = t
<1> SUFFICES ASSUME NEW t \in Rests
             PROVE  /\ t \in Seq(Labels)
                    /\ Terminate(t) \in Seq(Labels) /\ TerminateTree(t) \in Seq(Labels)
                    /\ ToReap(t) \in Seq(Labels) /\ Close(t) \in Seq(Labels)
                    /\ ToCloseErr(t) \in Seq(Labels)
                    /\ Head(Terminate(t)) = "kill" /\ Tail(Terminate(t)) = ToReap(t)
                    /\ Head(TerminateTree(t)) = "kill_tree" /\ Tail(TerminateTree(t)) = ToReap(t)
                    /\ Head(ToReap(t)) = "reap" /\ Tail(ToReap(t)) = t
                    /\ Head(Close(t)) = "close_stdout" /\ Tail(Close(t)) = ToCloseErr(t)
                    /\ Head(ToCloseErr(t)) = "close_stderr" /\ Tail(ToCloseErr(t)) = t
  OBVIOUS
<1>1. t \in Seq(Labels) /\ Len(t) \in Nat
  BY RestLengths, LenProperties
<1>2. /\ Terminate(t) \in Seq(Labels) /\ TerminateTree(t) \in Seq(Labels)
      /\ ToReap(t) \in Seq(Labels) /\ Close(t) \in Seq(Labels) /\ ToCloseErr(t) \in Seq(Labels)
  BY <1>1, Lengths
<1>3. QED
  BY <1>1, <1>2, Heads

\* The places by their first label.
AtKill     == Killing \cup {Terminate(Close(None))}
AtReap     == Reaping \cup {ToReap(Close(None)), ToReap(Close(Deciding))}
AtCloseOut == {Close(None), Close(Deciding)}
AtCloseErr == {ToCloseErr(None), ToCloseErr(Deciding)}

\* Every place is among those of one of the labels.
LEMMA AllPlaces == Places = Single \cup AtKill \cup Stuck \cup AtReap \cup AtCloseOut \cup AtCloseErr \cup {None}
BY DEF Places, Freed, Ending, Closing, AtKill, AtReap, AtCloseOut, AtCloseErr

\* The label of the places inside the helpers.
LEMMA PlaceHeads ==
    /\ \A t \in AtKill : Head(t) = "kill"
    /\ \A t \in Stuck : Head(t) = "kill_tree"
    /\ \A t \in AtReap : Head(t) = "reap"
    /\ \A t \in AtCloseOut : Head(t) = "close_stdout"
    /\ \A t \in AtCloseErr : Head(t) = "close_stderr"
<1>1. None \in Rests /\ Checking \in Rests /\ Joining \in Rests /\ Deciding \in Rests
      /\ Close(None) \in Rests /\ Close(Deciding) \in Rests
  BY DEF Rests
<1>2. \A t \in AtKill : Head(t) = "kill"
  <2>1. \A t \in Rests : Head(Terminate(t)) = "kill"
    BY Follows
  <2>2. QED
    BY <1>1, <2>1 DEF AtKill, Killing
<1>3. \A t \in Stuck : Head(t) = "kill_tree"
  <2>1. \A t \in Rests : Head(TerminateTree(t)) = "kill_tree"
    BY Follows
  <2>2. QED
    BY <1>1, <2>1 DEF Stuck
<1>4. \A t \in AtReap : Head(t) = "reap"
  <2>1. \A t \in Rests : Head(ToReap(t)) = "reap"
    BY Follows
  <2>2. QED
    BY <1>1, <2>1 DEF AtReap, Reaping
<1>5. \A t \in AtCloseOut : Head(t) = "close_stdout"
  <2>1. \A t \in Rests : Head(Close(t)) = "close_stdout"
    BY Follows
  <2>2. QED
    BY <1>1, <2>1 DEF AtCloseOut
<1>6. \A t \in AtCloseErr : Head(t) = "close_stderr"
  <2>1. \A t \in Rests : Head(ToCloseErr(t)) = "close_stderr"
    BY Follows
  <2>2. QED
    BY <1>1, <2>1 DEF AtCloseErr
<1>7. QED
  BY <1>2, <1>3, <1>4, <1>5, <1>6

\* No place has more than five labels left.
LEMMA PlacesAreShort == \A t \in Places : t \in Seq(Labels) /\ Len(t) <= 5
<1>1. None \in Rests /\ Checking \in Rests /\ Joining \in Rests /\ Deciding \in Rests
      /\ Close(None) \in Rests /\ Close(Deciding) \in Rests
  BY DEF Rests
<1>2. \A t \in AtKill : t \in Seq(Labels)
  <2>1. \A t \in Rests : Terminate(t) \in Seq(Labels)
    BY Follows
  <2>2. QED
    BY <1>1, <2>1 DEF AtKill, Killing
<1>3. \A t \in Stuck : t \in Seq(Labels)
  <2>1. \A t \in Rests : TerminateTree(t) \in Seq(Labels)
    BY Follows
  <2>2. QED
    BY <1>1, <2>1 DEF Stuck
<1>4. \A t \in AtReap : t \in Seq(Labels)
  <2>1. \A t \in Rests : ToReap(t) \in Seq(Labels)
    BY Follows
  <2>2. QED
    BY <1>1, <2>1 DEF AtReap, Reaping
<1>5. \A t \in AtCloseOut : t \in Seq(Labels)
  <2>1. \A t \in Rests : Close(t) \in Seq(Labels)
    BY Follows
  <2>2. QED
    BY <1>1, <2>1 DEF AtCloseOut
<1>6. \A t \in AtCloseErr : t \in Seq(Labels)
  <2>1. \A t \in Rests : ToCloseErr(t) \in Seq(Labels)
    BY Follows
  <2>2. QED
    BY <1>1, <2>1 DEF AtCloseErr
<1>7. None \in Seq(Labels)
  BY <1>1, Follows
<1>8. \A t \in Single : t \in Seq(Labels) /\ Len(t) = 1
  BY OneLabel
<1>9. \A t \in AtKill \cup Stuck \cup AtReap : Len(t) \in {2, 3, 4, 5}
  BY PlaceLengths DEF AtKill, Killing, Stuck, AtReap, Reaping
<1>10. \A t \in AtCloseOut \cup AtCloseErr \cup {None} : Len(t) \in {0, 1, 2, 3}
  BY RestLengths, PlaceLengths DEF AtCloseOut, AtCloseErr
<1>11. \A t \in Places : t \in Seq(Labels)
  BY <1>2, <1>3, <1>4, <1>5, <1>6, <1>7, <1>8, AllPlaces
<1>12. \A t \in Places : Len(t) \in 0 .. 5
  BY <1>8, <1>9, <1>10, AllPlaces
<1>13. ASSUME NEW t \in Places PROVE Len(t) <= 5
  <2>1. Len(t) \in 0 .. 5
    BY <1>12
  <2>2. \A n \in 0 .. 5 : n <= 5
    OBVIOUS
  <2>3. QED
    BY <2>1, <2>2
<1>14. QED
  BY <1>11, <1>13

\* Where the call is when a label is its next.
LEMMA PlaceOf ==
    ASSUME todo \in Places
    PROVE  /\ At("poll") => todo = Polling
           /\ At("look") => todo = Looking
           /\ At("check") => todo = Checking
           /\ At("wait") => todo = Waiting
           /\ At("join_stdout") => todo = Joining
           /\ At("join_stderr") => todo = JoiningErr
           /\ At("verdict") => todo = Deciding
           /\ At("kill") => todo \in AtKill
           /\ At("kill_tree") => todo \in Stuck
           /\ At("reap") => todo \in AtReap
           /\ At("close_stdout") => todo \in AtCloseOut
           /\ At("close_stderr") => todo \in AtCloseErr
<1>1. CASE todo \in Single
  BY <1>1, OneLabel DEF At, Single
<1>2. CASE todo \in AtKill \cup Stuck \cup AtReap \cup AtCloseOut \cup AtCloseErr
  BY <1>2, PlaceHeads DEF At
<1>3. CASE todo = None
  BY <1>3 DEF At, None
<1>4. QED
  BY <1>1, <1>2, <1>3, AllPlaces

\* Places are told apart by their first label, and those with the same by length.
LEMMA PlacesDiffer ==
    /\ Single \cap (AtKill \cup Stuck \cup AtReap \cup AtCloseOut \cup AtCloseErr \cup {None}) = {}
    /\ AtKill \cap (Stuck \cup AtReap \cup AtCloseOut \cup AtCloseErr \cup {None}) = {}
    /\ Stuck \cap (AtReap \cup AtCloseOut \cup AtCloseErr \cup {None}) = {}
    /\ AtReap \cap (AtCloseOut \cup AtCloseErr \cup {None}) = {}
    /\ AtCloseOut \cap (AtCloseErr \cup {None}) = {}
    /\ AtCloseErr \cap {None} = {}
<1>1. None \notin Single \cup AtKill \cup Stuck \cup AtReap \cup AtCloseOut \cup AtCloseErr
  <2>1. \A t \in Single : Len(t) = 1
    BY OneLabel
  <2>2. \A t \in AtKill \cup Stuck \cup AtReap : Len(t) # 0
    <3>1. \A t \in AtKill : Len(t) \in {3, 4}
      BY PlaceLengths DEF AtKill, Killing
    <3>2. \A t \in Stuck : Len(t) = 5
      BY PlaceLengths DEF Stuck
    <3>3. \A t \in AtReap : Len(t) \in {2, 3, 4}
      BY PlaceLengths DEF AtReap, Reaping
    <3>4. QED
      BY <3>1, <3>2, <3>3
  <2>3. \A t \in AtCloseOut \cup AtCloseErr : Len(t) # 0
    BY RestLengths, PlaceLengths DEF AtCloseOut, AtCloseErr
  <2>4. Len(None) = 0
    BY RestLengths
  <2>5. QED
    BY <2>1, <2>2, <2>3, <2>4
<1>2. \A t \in Single : Head(t) \notin {"kill", "kill_tree", "reap", "close_stdout", "close_stderr"}
  BY OneLabel DEF Single
<1>3. QED
  BY <1>1, <1>2, PlaceHeads

\* Places with the same label, or with one label, are told apart.
LEMMA SameLabelsDiffer ==
    /\ Polling # Checking /\ Polling # Waiting /\ Polling # Joining /\ Polling # JoiningErr
    /\ Polling # Deciding /\ Looking # Checking /\ Looking # Waiting /\ Looking # Joining
    /\ Looking # JoiningErr /\ Looking # Deciding /\ Checking # JoiningErr /\ Checking # Deciding
    /\ Waiting # JoiningErr /\ Waiting # Deciding /\ Joining # JoiningErr /\ Joining # Deciding
    /\ JoiningErr # Deciding
    /\ Terminate(Close(None)) \notin Killing
    /\ ToReap(Close(None)) \notin Reaping \cup {ToReap(Close(Deciding))}
    /\ ToReap(Close(Deciding)) \notin Reaping
    /\ Close(None) # Close(Deciding) /\ ToCloseErr(None) # ToCloseErr(Deciding)
<1>1. /\ Polling # Checking /\ Polling # Waiting /\ Polling # Joining /\ Polling # JoiningErr
      /\ Polling # Deciding /\ Looking # Checking /\ Looking # Waiting /\ Looking # Joining
      /\ Looking # JoiningErr /\ Looking # Deciding /\ Checking # JoiningErr /\ Checking # Deciding
      /\ Waiting # JoiningErr /\ Waiting # Deciding /\ Joining # JoiningErr /\ Joining # Deciding
      /\ JoiningErr # Deciding
  BY OneLabel
<1>2. Terminate(Close(None)) \notin Killing
  BY PlaceLengths DEF Killing
<1>3. /\ ToReap(Close(None)) \notin Reaping /\ ToReap(Close(None)) # ToReap(Close(Deciding))
      /\ ToReap(Close(Deciding)) \notin Reaping
  BY PlaceLengths DEF Reaping
<1>4. Close(None) # Close(Deciding) /\ ToCloseErr(None) # ToCloseErr(Deciding)
  <2>1. Len(Close(None)) = 2 /\ Len(Close(Deciding)) = 3
    BY RestLengths
  <2>2. Len(ToCloseErr(None)) = 1 /\ Len(ToCloseErr(Deciding)) = 2
    BY PlaceLengths
  <2>3. QED
    BY <2>1, <2>2
<1>5. QED
  BY <1>1, <1>2, <1>3, <1>4

-----------------------------------------------------------------------------
(* The calling thread *)

\* A place by its kind.
LEMMA AtSingle ==
    ASSUME NEW t \in Single
    PROVE  t \notin Killing \cup Reaping \cup Stuck \cup Freed \cup Ending \cup Closing
BY PlacesDiffer, AllPlaces DEF Freed, Ending, Closing, AtKill, AtReap, AtCloseOut, AtCloseErr

\* The kinds of places exclude each other.
LEMMA AtKilling ==
    /\ \A t \in Killing \cup Reaping : t \notin Single \cup Stuck \cup Freed \cup Ending \cup Closing
    /\ \A t \in Stuck : t \notin Single \cup Freed \cup Ending \cup Closing
    /\ \A t \in Freed : t \notin Single \cup Ending \cup Closing
    /\ \A t \in Ending : t \notin Single \cup Closing
    /\ \A t \in Closing : t \notin Single \cup Killing \cup Reaping \cup Stuck \cup Freed \cup Ending
    /\ ToCloseErr(Deciding) # ToCloseErr(None) /\ Close(None) # ToCloseErr(None)
    /\ None \notin Single \cup Killing \cup Reaping \cup Stuck \cup Freed \cup Ending
    /\ None # Close(None) /\ None # ToCloseErr(None)
<1>1. \A t \in Killing \cup Reaping : t \notin Single \cup Stuck \cup Freed \cup Ending \cup Closing
  BY PlacesDiffer, SameLabelsDiffer DEF Freed, Ending, Closing, AtKill, AtReap, AtCloseOut, AtCloseErr
<1>2. \A t \in Stuck : t \notin Single \cup Freed \cup Ending \cup Closing
  BY PlacesDiffer, SameLabelsDiffer DEF Freed, Ending, Closing, AtKill, AtReap, AtCloseOut, AtCloseErr
<1>3. \A t \in Freed : t \notin Single \cup Ending \cup Closing
  BY PlacesDiffer, SameLabelsDiffer DEF Freed, Ending, Closing, AtKill, AtReap, AtCloseOut, AtCloseErr
<1>4. \A t \in Ending : t \notin Single \cup Closing
  BY PlacesDiffer, SameLabelsDiffer DEF Freed, Ending, Closing, AtKill, AtReap, AtCloseOut, AtCloseErr
<1>5. /\ ToCloseErr(Deciding) # ToCloseErr(None) /\ Close(None) # ToCloseErr(None)
      /\ None # Close(None) /\ None # ToCloseErr(None)
  BY PlacesDiffer, SameLabelsDiffer DEF AtCloseOut, AtCloseErr
<1>6. None \notin Single \cup Killing \cup Reaping \cup Stuck \cup Freed \cup Ending
  BY PlacesDiffer DEF Freed, Ending, AtKill, AtReap, AtCloseOut, AtCloseErr
<1>7. \A t \in Closing : t \notin Single \cup Killing \cup Reaping \cup Stuck \cup Freed \cup Ending
  <2> SUFFICES ASSUME NEW t \in Closing
               PROVE  t \notin Single \cup Killing \cup Reaping \cup Stuck \cup Freed \cup Ending
    OBVIOUS
  <2>1. t \notin Killing /\ t \notin Reaping /\ t \notin Stuck /\ t \notin Freed /\ t \notin Ending
    BY <1>1, <1>2, <1>3, <1>4
  <2>2. t \notin Single
    BY AtSingle
  <2>3. QED
    BY <2>1, <2>2
<1>8. QED
  BY <1>1, <1>2, <1>3, <1>4, <1>5, <1>6, <1>7

\* A step of the thread that changes nothing but its flags and its place.
LEMMA Moves ==
    ASSUME IInv, UNCHANGED <<os, drain, fixed, closed, verdict>>,
           timedOut' \in BOOLEAN, overflowed' \in BOOLEAN,
           verdict = "none" \/ UNCHANGED timedOut,
           timedOut => Trouble', timedOut' => expired,
           overflowed' => \E s \in Streams : overflow[s],
           Reached'
    PROVE  IInv'
<1> USE DEF os, drain, fixed
<1>1. TypeOK'
  BY PlacesAreShort DEF IInv, TypeOK, Reached
<1>2. Trouble => Trouble'
  BY DEF Trouble
<1>3. \A s \in Streams : Holders(s)' = Holders(s)
  BY DEF Holders
<1>4. Bytes'
  BY <1>3 DEF IInv, Bytes, Ended
<1>5. Spared' <=> Spared
  BY DEF Spared, Group
<1>6. ClosedLate'
  BY <1>2, <1>5 DEF IInv, ClosedLate, Success
<1>7. Flags'
  BY <1>2 DEF IInv, Flags
<1>8. Told'
  <2>1. CASE verdict = "none"
    BY <2>1 DEF Told, Success
  <2>2. CASE UNCHANGED timedOut
    BY <2>2, <1>3 DEF IInv, Told, Success, Trouble, Ended
  <2>3. QED
    BY <2>1, <2>2
<1>9. QED
  BY <1>1, <1>4, <1>6, <1>7, <1>8 DEF IInv

\* A step after which the call is at a place that promises little.
LEMMA Onward ==
    ASSUME IInv, todo \notin Ending \cup Closing, UNCHANGED verdict, todo' \in Places,
           todo' \notin Freed \cup Ending \cup Closing \cup {Deciding},
           todo' \in {Polling, Looking} => ~timedOut',
           todo' \in Killing \cup Stuck => Trouble',
           todo' = JoiningErr => reader'["stdout"] = "done"
    PROVE  Reached'
<1>1. verdict' = "none"
  BY DEF IInv, Reached
<1>2. todo' \notin {ToCloseErr(None), None}
  BY DEF Closing
<1>3. QED
  BY <1>1, <1>2 DEF Reached

\* The places with one label left.
LEMMA InSingle ==
    /\ Polling \in Single /\ Looking \in Single /\ Checking \in Single /\ Waiting \in Single
    /\ Joining \in Single /\ JoiningErr \in Single /\ Deciding \in Single
BY DEF Single

\* Polling moves on to a look or to the check, and decides nothing.
LEMMA PollKeeps == IInv /\ Poll => IInv'
<1> SUFFICES ASSUME IInv, Poll PROVE IInv'
  OBVIOUS
<1>1. todo = Polling
  BY PlaceOf DEF IInv, Reached, Poll
<1>2. todo' \in {Checking, Looking} /\ UNCHANGED <<timedOut, overflowed, verdict, os, drain, fixed, closed>>
  BY DEF Poll, Checking, Looking
<1>3. ~timedOut
  BY <1>1 DEF IInv, Reached
<1>4. todo' \in Single /\ todo' \in Places
  BY <1>2, InSingle DEF Places
<1>5. todo' # JoiningErr /\ todo' # Deciding
  BY <1>2, SameLabelsDiffer
<1>6. Reached'
  BY <1>1, <1>2, <1>3, <1>4, <1>5, InSingle, AtSingle, Onward
<1>7. QED
  BY <1>2, <1>3, <1>6, Moves DEF IInv, TypeOK, Flags

\* The check moves on to the joins or the wait, and decides nothing.
LEMMA CheckKeeps == IInv /\ Check => IInv'
<1> SUFFICES ASSUME IInv, Check PROVE IInv'
  OBVIOUS
<1>1. todo = Checking
  BY PlaceOf DEF IInv, Reached, Check
<1>2. todo' \in {Joining, Waiting} /\ UNCHANGED <<timedOut, overflowed, verdict, os, drain, fixed, closed>>
  BY DEF Check, Joining, Waiting
<1>3. todo' \in Single /\ todo' \in Places
  BY <1>2, InSingle DEF Places
<1>4. todo' # JoiningErr /\ todo' # Deciding /\ todo' # Polling /\ todo' # Looking
  BY <1>2, SameLabelsDiffer
<1>5. Reached'
  BY <1>1, <1>2, <1>3, <1>4, InSingle, AtSingle, Onward
<1>6. verdict = "none"
  BY <1>1, InSingle, AtSingle DEF IInv, Reached
<1>7. QED
  BY <1>2, <1>5, <1>6, Moves DEF IInv, TypeOK, Flags, Trouble, drain

\* The loop terminates the command only for an overflow or the deadline.
LEMMA LookKeeps == IInv /\ Look => IInv'
<1> SUFFICES ASSUME IInv, Look PROVE IInv'
  OBVIOUS
<1> DEFINE over == \E s \in Streams : overflow[s]
<1>1. todo = Looking
  BY PlaceOf DEF IInv, Reached, Look
<1>2. /\ overflowed' = over /\ timedOut' = (~over /\ expired)
      /\ todo' = IF over \/ expired THEN Terminate(Checking) ELSE Polling
      /\ UNCHANGED <<verdict, os, drain, fixed, closed>>
  BY DEF Look, Checking, Polling
<1>3. ~timedOut /\ verdict = "none" /\ todo \notin Ending \cup Closing
  BY <1>1, InSingle, AtSingle DEF IInv, Reached
<1>4. expired \in BOOLEAN /\ over \in BOOLEAN
  BY DEF IInv, TypeOK
<1>5. CASE over \/ expired
  <2>1. todo' \in Killing /\ todo' \in Places
    BY <1>2, <1>5 DEF Killing, Places
  <2>2. Trouble'
    BY <1>2, <1>5, <1>4 DEF Trouble, drain
  <2>3. todo' \notin Single \cup Stuck \cup Freed \cup Ending \cup Closing
    BY <2>1, AtKilling
  <2>4. Reached'
    BY <1>2, <1>3, <2>1, <2>2, <2>3, InSingle, Onward
  <2>5. QED
    BY <1>2, <1>3, <1>4, <2>4, Moves
<1>6. CASE ~(over \/ expired)
  <2>1. todo' = Polling /\ timedOut' = FALSE
    BY <1>2, <1>4, <1>6
  <2>2. todo' \in Places /\ todo' # JoiningErr /\ todo' # Deciding
    BY <2>1, InSingle, SameLabelsDiffer DEF Places
  <2>3. Reached'
    BY <1>2, <1>3, <2>1, <2>2, InSingle, AtSingle, Onward
  <2>4. QED
    BY <1>2, <1>3, <1>4, <2>1, <2>3, Moves
<1>7. QED
  BY <1>5, <1>6

\* The wait terminates the command only when the deadline has passed.
LEMMA WaitKeeps == IInv /\ Wait => IInv'
<1> SUFFICES ASSUME IInv, Wait PROVE IInv'
  OBVIOUS
<1>1. todo = Waiting
  BY PlaceOf DEF IInv, Reached, Wait
<1>2. /\ LeaderExited \/ expired
      /\ timedOut' = (timedOut \/ ~LeaderExited)
      /\ todo' = IF LeaderExited THEN Joining ELSE Terminate(Joining)
      /\ UNCHANGED <<overflowed, verdict, os, drain, fixed, closed>>
  BY DEF Wait, Joining
<1>3. verdict = "none" /\ todo \notin Ending \cup Closing
  BY <1>1, InSingle, AtSingle DEF IInv, Reached
<1>4. timedOut \in BOOLEAN /\ LeaderExited \in BOOLEAN /\ overflowed \in BOOLEAN
  BY DEF IInv, TypeOK, LeaderExited
<1>5. timedOut' \in BOOLEAN
  BY <1>2, <1>4
<1>6. timedOut => timedOut'
  BY <1>2, <1>4
<1>7. timedOut' => expired
  BY <1>2, <1>4 DEF IInv, Flags
<1>8. overflowed' \in BOOLEAN /\ (overflowed' => \E s \in Streams : overflow[s])
  BY <1>2, <1>4 DEF IInv, Flags
<1>9. timedOut => Trouble'
  BY <1>6 DEF Trouble
<1>10. CASE LeaderExited
  <2>1. todo' = Joining
    BY <1>2, <1>10
  <2>2. todo' \in Places /\ todo' # JoiningErr /\ todo' # Deciding /\ todo' # Polling /\ todo' # Looking
    BY <2>1, InSingle, SameLabelsDiffer DEF Places
  <2>3. Reached'
    BY <1>2, <1>3, <2>1, <2>2, InSingle, AtSingle, Onward
  <2>4. QED
    BY <1>2, <1>3, <1>5, <1>7, <1>8, <1>9, <2>3, Moves
<1>11. CASE ~LeaderExited
  <2>1. todo' \in Killing /\ todo' \in Places /\ timedOut'
    BY <1>2, <1>4, <1>11 DEF Killing, Places
  <2>2. Trouble'
    BY <2>1 DEF Trouble
  <2>3. todo' \notin Single \cup Stuck \cup Freed \cup Ending \cup Closing
    BY <2>1, AtKilling
  <2>4. Reached'
    BY <1>2, <1>3, <2>1, <2>2, <2>3, InSingle, Onward
  <2>5. QED
    BY <1>2, <1>3, <1>5, <1>7, <1>8, <1>9, <2>4, Moves
<1>12. QED
  BY <1>10, <1>11

\* A reader has ended; when it was the second, everything has, or the
\* pipes were closed.
LEMMA JoinedKeeps ==
    ASSUME IInv, NEW s \in Streams, At(JoinLabel(s)), reader[s] = "done",
           todo' = AfterJoin(s),
           UNCHANGED <<timedOut, overflowed, verdict, os, drain, fixed, closed>>
    PROVE  IInv'
<1>1. timedOut \in BOOLEAN /\ overflowed \in BOOLEAN
  BY DEF IInv, TypeOK
<1>2. (timedOut => Trouble') /\ (timedOut' => expired)
  BY DEF IInv, Flags, Trouble
<1>3. overflowed' => \E t \in Streams : overflow[t]
  BY DEF IInv, Flags
<1>4. reader' = reader
  BY DEF drain
<1>5. CASE s = "stdout"
  <2>1. todo = Joining /\ todo' = JoiningErr
    BY <1>5, PlaceOf DEF IInv, Reached, JoinLabel, AfterJoin, JoiningErr
  <2>2. todo' \in Places /\ todo' # Deciding /\ todo' # Polling /\ todo' # Looking
    BY <2>1, InSingle, SameLabelsDiffer DEF Places
  <2>3. Reached'
    BY <1>4, <1>5, <2>1, <2>2, InSingle, AtSingle, Onward
  <2>4. QED
    BY <1>1, <1>2, <1>3, <2>3, Moves
<1>6. CASE s = "stderr"
  <2>1. todo = JoiningErr /\ todo' = Deciding
    BY <1>6, PlaceOf DEF IInv, Reached, JoinLabel, AfterJoin, Deciding
  <2>2. \A t \in Streams : reader[t] = "done"
    BY <1>6, <2>1 DEF IInv, Reached, Streams
  <2>3. verdict = "none"
    BY <2>1, InSingle, AtSingle DEF IInv, Reached
  <2>4. Spared /\ (Trouble \/ \A t \in Streams : Ended(t))
    <3>1. CASE \E t \in Streams : closed[t]
      BY <2>3, <3>1 DEF IInv, ClosedLate, Success
    <3>2. CASE \A t \in Streams : ~closed[t]
      <4>1. \A t \in Streams : Ended(t)
        BY <2>2, <3>2 DEF IInv, Bytes
      <4>2. Spared
        BY <4>1 DEF IInv, TypeOK, Spared, Ended, Holders, Group
      <4>3. QED
        BY <4>1, <4>2
    <3>3. QED
      BY <3>1, <3>2
  <2>5. Spared' /\ (Trouble' \/ \A t \in Streams : Ended(t)')
    <3>1. Spared'
      BY <2>4 DEF Spared, Group, os, fixed
    <3>2. Trouble => Trouble'
      BY DEF Trouble, drain
    <3>3. \A t \in Streams : Ended(t) => Ended(t)'
      BY DEF Ended, Holders, drain, os, fixed
    <3>4. QED
      BY <2>4, <3>1, <3>2, <3>3
  <2>6. todo' \in Places /\ todo' # JoiningErr /\ todo' # Polling /\ todo' # Looking
    BY <2>1, InSingle, SameLabelsDiffer DEF Places
  <2>7. todo' \notin Killing \cup Reaping \cup Stuck \cup Freed \cup Ending \cup Closing
    BY <2>1, InSingle, AtSingle
  <2>8. todo' \notin {ToCloseErr(None), None}
    BY <2>7 DEF Closing
  <2>9. Reached'
    BY <2>3, <2>5, <2>6, <2>7, <2>8 DEF Reached
  <2>10. QED
    BY <1>1, <1>2, <1>3, <2>9, Moves
<1>7. QED
  BY <1>5, <1>6 DEF Streams

\* A reader found alive at the deadline is trouble; two that ended are all read.
LEMMA JoinKeeps == ASSUME IInv, NEW s \in Streams, Join(s) PROVE IInv'
<1>1. CASE /\ reader[s] = "done" /\ todo' = AfterJoin(s)
           /\ UNCHANGED <<overflowed, timedOut>>
  BY <1>1, JoinedKeeps DEF Join
<1>2. CASE /\ reader[s] # "done" /\ expired
           /\ overflowed' = (overflowed \/ \E t \in Streams : overflow[t])
           /\ timedOut' = (timedOut \/ ~overflowed')
           /\ todo' = TerminateTree(Close(Deciding))
  <2>1. UNCHANGED <<verdict, os, drain, fixed, closed>> /\ At(JoinLabel(s))
    BY DEF Join
  <2>2. todo \in {Joining, JoiningErr}
    BY <2>1, PlaceOf DEF IInv, Reached, JoinLabel, Streams
  <2>3. verdict = "none" /\ todo \notin Ending \cup Closing
    BY <2>2, InSingle, AtSingle DEF IInv, Reached
  <2>4. timedOut \in BOOLEAN /\ overflowed \in BOOLEAN
    BY DEF IInv, TypeOK
  <2>5. overflowed' \in BOOLEAN /\ (overflowed' => \E t \in Streams : overflow[t])
    BY <1>2, <2>4 DEF IInv, Flags
  <2>6. timedOut' \in BOOLEAN /\ (timedOut => timedOut')
    BY <1>2, <2>4, <2>5
  <2>7. Trouble'
    BY <1>2, <2>1, <2>4, <2>5 DEF Trouble, drain
  <2>8. todo' \in Stuck /\ todo' \in Places
    BY <1>2 DEF Stuck, Places
  <2>9. todo' \notin Single \cup Freed \cup Ending \cup Closing
    BY <2>8, AtKilling
  <2>10. Reached'
    BY <2>1, <2>3, <2>7, <2>8, <2>9, InSingle, Onward
  <2>11. QED
    BY <1>2, <2>1, <2>3, <2>5, <2>6, <2>7, <2>10, Moves
<1>3. QED
  BY <1>1, <1>2 DEF Join, TerminateTree, Deciding

\* What follows a place that the call leaves by its tail.
LEMMA Tails ==
    /\ \A t \in Killing : Tail(t) \in Reaping
    /\ Tail(Terminate(Close(None))) = ToReap(Close(None))
    /\ \A t \in Stuck : Tail(t) = ToReap(Close(Deciding))
    /\ \A t \in Reaping : Tail(t) \in {Checking, Joining}
    /\ Tail(ToReap(Close(None))) = Close(None) /\ Tail(ToReap(Close(Deciding))) = Close(Deciding)
    /\ Tail(Close(None)) = ToCloseErr(None) /\ Tail(Close(Deciding)) = ToCloseErr(Deciding)
    /\ Tail(ToCloseErr(None)) = None /\ Tail(ToCloseErr(Deciding)) = Deciding
<1>1. None \in Rests /\ Checking \in Rests /\ Joining \in Rests /\ Deciding \in Rests
      /\ Close(None) \in Rests /\ Close(Deciding) \in Rests
  BY DEF Rests
<1>2. \A t \in Rests : Tail(Terminate(t)) = ToReap(t)
  BY Follows
<1>3. \A t \in Rests : Tail(TerminateTree(t)) = ToReap(t)
  BY Follows
<1>4. \A t \in Rests : Tail(ToReap(t)) = t
  BY Follows
<1>5. \A t \in Rests : Tail(Close(t)) = ToCloseErr(t) /\ Tail(ToCloseErr(t)) = t
  BY Follows
<1>6. \A t \in Killing : Tail(t) \in Reaping
  BY <1>1, <1>2 DEF Killing, Reaping
<1>7. \A t \in Reaping : Tail(t) \in {Checking, Joining}
  BY <1>1, <1>4 DEF Reaping
<1>8. \A t \in Stuck : Tail(t) = ToReap(Close(Deciding))
  BY <1>1, <1>3 DEF Stuck
<1>9. QED
  BY <1>1, <1>2, <1>4, <1>5, <1>6, <1>7, <1>8

\* A verdict is a success or has a reason.
LEMMA VerdictHasReason == IInv /\ verdict # "none" => Trouble \/ Success
BY DEF IInv, TypeOK, Told, Trouble, Success, Verdicts, Streams

\* A place with a tail that the call leaves by waiting for the leader.
LEMMA ReapKeeps == IInv /\ (Reap \/ ReapTimesOut) => IInv'
<1> SUFFICES ASSUME IInv, Reap \/ ReapTimesOut PROVE IInv'
  OBVIOUS
<1>1. /\ todo \in AtReap /\ todo' = Tail(todo)
      /\ UNCHANGED <<timedOut, overflowed, verdict, os, drain, fixed, closed>>
  BY PlaceOf DEF IInv, Reached, Reap, ReapTimesOut
<1>2. /\ timedOut \in BOOLEAN /\ overflowed \in BOOLEAN
      /\ timedOut => expired
      /\ overflowed => \E s \in Streams : overflow[s]
  BY DEF IInv, TypeOK, Flags
<1>3. (Trouble => Trouble') /\ (Spared => Spared')
  BY <1>1 DEF Trouble, Spared, Group, os, drain, fixed
<1>4. CASE todo \in Reaping
  <2>1. todo' \in {Checking, Joining}
    BY <1>1, <1>4, Tails
  <2>2. todo' \in Single /\ todo' \in Places
    BY <2>1, InSingle DEF Places
  <2>3. todo' # JoiningErr /\ todo' # Deciding /\ todo' # Polling /\ todo' # Looking
    BY <2>1, SameLabelsDiffer
  <2>4. todo \notin Ending \cup Closing
    BY <1>4, AtKilling
  <2>5. Reached'
    BY <1>1, <2>2, <2>3, <2>4, AtSingle, Onward
  <2>6. QED
    BY <1>1, <1>2, <2>5, Moves DEF Trouble, drain
<1>5. CASE todo = ToReap(Close(None))
  <2>1. todo' = Close(None) /\ todo \in Ending
    BY <1>1, <1>5, Tails DEF Ending
  <2>2. todo' \in Closing /\ todo' \in Places
    BY <2>1 DEF Closing, Places
  <2>3. todo' \notin Single \cup Killing \cup Reaping \cup Stuck \cup Freed \cup Ending
    BY <2>2, AtKilling
  <2>4. verdict' # "none" /\ Spared'
    BY <1>1, <1>3, <2>1 DEF IInv, Reached
  <2>5. todo' \notin {ToCloseErr(None), None}
    BY <2>1, AtKilling
  <2>6. Reached'
    BY <2>2, <2>3, <2>4, <2>5, InSingle DEF Reached
  <2>7. QED
    BY <1>1, <1>2, <2>6, Moves DEF Trouble, drain
<1>6. CASE todo = ToReap(Close(Deciding))
  <2>1. todo' = Close(Deciding) /\ todo \in Freed
    BY <1>1, <1>6, Tails DEF Freed
  <2>2. todo' \in Freed /\ todo' \in Places
    BY <2>1 DEF Freed, Places
  <2>3. todo' \notin Single \cup Killing \cup Reaping \cup Stuck \cup Ending \cup Closing
    BY <2>2, AtKilling
  <2>4. verdict' = "none" /\ Spared' /\ Trouble'
    BY <1>1, <1>3, <2>1, AtKilling DEF IInv, Reached
  <2>5. todo' \notin {ToCloseErr(None), None}
    BY <2>3 DEF Closing
  <2>6. Reached'
    BY <2>2, <2>3, <2>4, <2>5, InSingle DEF Reached
  <2>7. QED
    BY <1>1, <1>2, <2>6, Moves DEF Trouble, drain
<1>7. QED
  BY <1>1, <1>4, <1>5, <1>6 DEF AtReap

\* A signal leaves the pipes their holders, and none of those it is for running.
LEMMA Signals ==
    ASSUME IInv, Kill
    PROVE  /\ proc' \in [Procs -> {"running", "killed", "dead"}]
           /\ \A p \in Procs : proc'[p] = "dead" <=> proc[p] = "dead"
           /\ \A p \in Procs : proc'[p] = "running" => proc[p] = "running"
           /\ At("kill_tree") => \A p \in Group : proc'[p] # "running"
<1>1. proc \in [Procs -> {"running", "killed", "dead"}] /\ Group \subseteq Procs
  BY DEF IInv, TypeOK, Group
<1>2. CASE Signalled(Group)
  BY <1>1, <1>2 DEF Signalled
<1>3. CASE ~At("kill_tree") /\ UNCHANGED proc
  BY <1>1, <1>3
<1>4. QED
  BY <1>2, <1>3 DEF Kill

\* Processes are signalled in trouble only.
LEMMA KillKeeps == IInv /\ Kill => IInv'
<1> SUFFICES ASSUME IInv, Kill PROVE IInv'
  OBVIOUS
<1>1. /\ todo \in AtKill \cup Stuck /\ todo' = Tail(todo)
      /\ UNCHANGED <<timedOut, overflowed, verdict, expired, written, drain, fixed, closed>>
  BY PlaceOf DEF IInv, Reached, Kill
<1>2. /\ proc' \in [Procs -> {"running", "killed", "dead"}]
      /\ \A p \in Procs : proc'[p] = "dead" <=> proc[p] = "dead"
      /\ \A p \in Procs : proc'[p] = "running" => proc[p] = "running"
  BY Signals
<1>3. Group' = Group /\ Group \subseteq Procs
  BY <1>1 DEF IInv, TypeOK, Group, fixed
<1>4. \A s \in Streams : Holders(s)' = Holders(s)
  BY <1>1, <1>2 DEF Holders, fixed
<1>5. Spared => Spared'
  BY <1>1, <1>2, <1>3 DEF Spared, fixed
<1>6. Trouble' <=> Trouble
  BY <1>1 DEF Trouble, drain
<1>7. Trouble
  BY <1>1 DEF IInv, Reached, AtKill, Ending
<1>8. Reached'
  <2>1. CASE todo \in Killing
    <3>1. todo' \in Reaping /\ todo' \in Places
      BY <1>1, <2>1, Tails DEF Places
    <3>2. todo' \notin Single \cup Stuck \cup Freed \cup Ending \cup Closing
      BY <3>1, AtKilling
    <3>3. todo \notin Ending \cup Closing
      BY <2>1, AtKilling
    <3>4. QED
      BY <1>1, <1>6, <1>7, <3>1, <3>2, <3>3, InSingle, Onward
  <2>2. CASE todo = Terminate(Close(None))
    <3>1. todo' = ToReap(Close(None)) /\ todo \in Ending
      BY <1>1, <2>2, Tails DEF Ending
    <3>2. todo' \in Ending /\ todo' \in Places
      BY <3>1 DEF Ending, Places
    <3>3. todo' \notin Single \cup Closing
      BY <3>2, AtKilling
    <3>4. verdict' # "none" /\ Spared'
      BY <1>1, <1>5, <3>1 DEF IInv, Reached
    <3>5. todo' \notin {ToCloseErr(None), None}
      BY <3>3 DEF Closing
    <3>6. QED
      BY <1>6, <1>7, <3>2, <3>3, <3>4, <3>5, InSingle DEF Reached
  <2>3. CASE todo \in Stuck
    <3>1. todo' = ToReap(Close(Deciding))
      BY <1>1, <2>3, Tails
    <3>2. todo' \in Freed /\ todo' \in Places
      BY <3>1 DEF Freed, Places
    <3>3. todo' \notin Single \cup Ending \cup Closing
      BY <3>2, AtKilling
    <3>4. verdict' = "none"
      BY <1>1, <2>3, AtKilling DEF IInv, Reached
    <3>5. Spared'
      <4>1. todo \notin AtKill
        BY <2>3, PlacesDiffer
      <4>2. At("kill_tree")
        BY <4>1, PlaceOf DEF Kill, IInv, Reached
      <4>3. QED
        BY <4>2, <1>3, Signals DEF Spared
    <3>6. todo' \notin {ToCloseErr(None), None}
      BY <3>3 DEF Closing
    <3>7. QED
      BY <1>6, <1>7, <3>2, <3>3, <3>4, <3>5, <3>6, InSingle DEF Reached
  <2>4. QED
    BY <1>1, <2>1, <2>2, <2>3 DEF AtKill
<1>9. TypeOK'
  BY <1>1, <1>2, <1>8, PlacesAreShort DEF IInv, TypeOK, Reached, drain, fixed
<1>10. Bytes'
  BY <1>1, <1>4 DEF IInv, Bytes, Ended, drain
<1>11. ClosedLate'
  BY <1>1, <1>5, <1>6, <1>7 DEF IInv, ClosedLate
<1>12. Flags'
  BY <1>1, <1>6, <1>7 DEF IInv, Flags, drain
<1>13. Told'
  BY <1>1, <1>4, <1>6 DEF IInv, Told, Success, Ended, drain
<1>14. QED
  BY <1>8, <1>9, <1>10, <1>11, <1>12, <1>13 DEF IInv

\* Where the call closes a pipe, and what it has left then.
LEMMA ClosingMoves ==
    ASSUME IInv, NEW s \in Streams, CloseStream(s)
    PROVE  \/ s = "stdout" /\ todo = Close(None) /\ todo' = ToCloseErr(None)
           \/ s = "stdout" /\ todo = Close(Deciding) /\ todo' = ToCloseErr(Deciding)
           \/ s = "stderr" /\ todo = ToCloseErr(None) /\ todo' = None
           \/ s = "stderr" /\ todo = ToCloseErr(Deciding) /\ todo' = Deciding
<1>1. todo' = Tail(todo)
  BY DEF CloseStream
<1>2. CASE s = "stdout"
  <2>1. At("close_stdout")
    BY <1>2 DEF CloseStream
  <2>2. todo \in AtCloseOut
    BY <2>1, PlaceOf DEF IInv, Reached
  <2>3. QED
    BY <1>1, <1>2, <2>2, Tails DEF AtCloseOut
<1>3. CASE s = "stderr"
  <2>1. At("close_stderr")
    BY <1>3 DEF CloseStream
  <2>2. todo \in AtCloseErr
    BY <2>1, PlaceOf DEF IInv, Reached
  <2>3. QED
    BY <1>1, <1>3, <2>2, Tails DEF AtCloseErr
<1>4. QED
  BY <1>2, <1>3 DEF Streams

\* A pipe is closed only after trouble, or after a success.
LEMMA CloseKeeps == ASSUME IInv, NEW s \in Streams, CloseStream(s) PROVE IInv'
<1>1. /\ closed' = [closed EXCEPT ![s] = TRUE]
      /\ UNCHANGED <<timedOut, overflowed, verdict, os, drain, fixed>>
  BY DEF CloseStream
<1>2. todo \in Freed \cup Closing
  BY ClosingMoves DEF Freed, Closing
<1>3. Spared /\ (Trouble \/ Success)
  BY <1>2, VerdictHasReason DEF IInv, Reached
<1>4. /\ Spared' <=> Spared
      /\ Trouble' <=> Trouble
      /\ Success' <=> Success
      /\ \A t \in Streams : Ended(t)' <=> Ended(t)
  BY <1>1 DEF Spared, Trouble, Success, Ended, Holders, Group, os, drain, fixed
<1>5. /\ closed \in [Streams -> BOOLEAN]
      /\ \A t \in Streams : closed[t] => closed'[t]
      /\ closed'[s]
  BY <1>1 DEF IInv, TypeOK
<1>6. Reached'
  <2>1. CASE s = "stdout" /\ todo = Close(None) /\ todo' = ToCloseErr(None)
    <3>1. todo \in Closing /\ todo' \in Closing /\ todo' \in Places
      BY <2>1 DEF Closing, Places
    <3>2. todo' \notin Single \cup Killing \cup Stuck \cup Freed \cup Ending
      BY <3>1, AtKilling
    <3>3. todo' # None /\ verdict' # "none"
      BY <1>1, <2>1, <3>1, AtKilling DEF IInv, Reached
    <3>4. QED
      BY <1>3, <1>4, <1>5, <2>1, <3>1, <3>2, <3>3, InSingle DEF Reached
  <2>2. CASE s = "stdout" /\ todo = Close(Deciding) /\ todo' = ToCloseErr(Deciding)
    <3>1. todo \in Freed /\ todo' \in Freed /\ todo' \in Places
      BY <2>2 DEF Freed, Places
    <3>2. todo' \notin Single \cup Ending \cup Closing /\ todo \notin Ending \cup Closing
      BY <3>1, AtKilling
    <3>3. Trouble /\ verdict' = "none"
      BY <1>1, <3>1, <3>2 DEF IInv, Reached
    <3>4. todo' \notin {ToCloseErr(None), None}
      BY <3>2 DEF Closing
    <3>5. QED
      BY <1>3, <1>4, <3>1, <3>2, <3>3, <3>4, InSingle DEF Reached
  <2>3. CASE s = "stderr" /\ todo = ToCloseErr(None) /\ todo' = None
    <3>1. todo \in Closing /\ todo' \in Closing /\ todo' \in Places
      BY <2>3 DEF Closing, Places
    <3>2. todo' \notin Single \cup Killing \cup Stuck \cup Freed \cup Ending
      BY <3>1, AtKilling
    <3>3. verdict' # "none" /\ closed["stdout"]
      BY <1>1, <2>3, <3>1 DEF IInv, Reached
    <3>4. closed'["stdout"] /\ closed'["stderr"]
      BY <1>5, <2>3, <3>3 DEF Streams
    <3>5. QED
      BY <1>3, <1>4, <3>1, <3>2, <3>3, <3>4, InSingle DEF Reached
  <2>4. CASE s = "stderr" /\ todo = ToCloseErr(Deciding) /\ todo' = Deciding
    <3>1. todo \in Freed /\ todo' \in Places
      BY <2>4, InSingle DEF Freed, Places
    <3>2. todo' \notin Killing \cup Reaping \cup Stuck \cup Freed \cup Ending \cup Closing
      BY <2>4, InSingle, AtSingle
    <3>3. todo \notin Ending \cup Closing
      BY <3>1, AtKilling
    <3>4. Trouble /\ verdict' = "none"
      BY <1>1, <3>1, <3>3 DEF IInv, Reached
    <3>5. todo' \notin {ToCloseErr(None), None}
      BY <3>2 DEF Closing
    <3>6. todo' # Polling /\ todo' # Looking /\ todo' # JoiningErr
      BY <2>4, SameLabelsDiffer
    <3>7. QED
      BY <1>3, <1>4, <3>1, <3>2, <3>4, <3>5, <3>6 DEF Reached
  <2>5. QED
    BY <2>1, <2>2, <2>3, <2>4, ClosingMoves
<1>7. TypeOK'
  BY <1>1, <1>6, PlacesAreShort DEF IInv, TypeOK, Reached, os, drain, fixed
<1>8. Bytes'
  BY <1>1, <1>4, <1>5 DEF IInv, Bytes, os, drain
<1>9. ClosedLate'
  BY <1>3, <1>4 DEF ClosedLate
<1>10. Flags'
  BY <1>1, <1>4 DEF IInv, Flags, os, drain
<1>11. Told'
  <2>1. Success' => \A t \in Streams : Ended(t)' /\ buffer'[t] = written'[t]
    BY <1>1, <1>4 DEF IInv, Told, os, drain
  <2>2. QED
    BY <1>1, <1>4, <2>1 DEF IInv, Told, drain
<1>12. QED
  BY <1>6, <1>7, <1>8, <1>9, <1>10, <1>11 DEF IInv

\* The verdict is the one the flags call for; a success has read everything.
LEMMA DecideKeeps == IInv /\ Decide => IInv'
<1> SUFFICES ASSUME IInv, Decide PROVE IInv'
  OBVIOUS
<1>1. /\ verdict' \in Verdicts \ {"none"}
      /\ todo' = IF Success' THEN Close(None) ELSE Terminate(Close(None))
      /\ UNCHANGED <<timedOut, overflowed, os, drain, fixed, closed>>
  BY DEF Decide, Verdicts, None, Success
<1>2. todo = Deciding
  BY PlaceOf DEF IInv, Reached, Decide
<1>3. verdict = "none" /\ Spared /\ (Trouble \/ \A s \in Streams : Ended(s))
  BY <1>2, InSingle, AtSingle DEF IInv, Reached
<1>4. /\ Spared' <=> Spared
      /\ Trouble' <=> Trouble
      /\ \A s \in Streams : Ended(s)' <=> Ended(s)
  BY <1>1 DEF Spared, Trouble, Ended, Holders, Group, os, drain, fixed
<1>5. /\ verdict' = "timeout" => timedOut
      /\ verdict' = "stdout_overflow" => overflow["stdout"]
      /\ verdict' = "stderr_overflow" => overflow["stderr"]
      /\ Success' => ~Trouble
  BY DEF Decide, Success, Trouble
<1>6. Success' => \A s \in Streams : Ended(s) /\ buffer[s] = written[s]
  <2> SUFFICES ASSUME Success', NEW s \in Streams PROVE Ended(s) /\ buffer[s] = written[s]
    OBVIOUS
  <2>1. ~Trouble /\ Ended(s)
    BY <1>3, <1>5
  <2>2. ~closed[s]
    BY <1>3, <2>1 DEF IInv, ClosedLate, Success
  <2>3. ~overflow[s]
    BY <2>1 DEF Trouble
  <2>4. buffer[s] + pipe[s] = written[s] /\ pipe[s] = 0
    BY <2>1, <2>2, <2>3 DEF IInv, Bytes, Ended
  <2>5. QED
    BY <2>1, <2>4 DEF IInv, TypeOK
<1>7. Told'
  <2>1. Success' => \A s \in Streams : Ended(s)' /\ buffer'[s] = written'[s]
    BY <1>1, <1>4, <1>6 DEF os, drain
  <2>2. QED
    BY <1>1, <1>4, <1>5, <2>1 DEF Told, drain
<1>8. ~Success' => Trouble
  BY <1>1, <1>5 DEF Success, Verdicts, Trouble, Streams
<1>9. Reached'
  <2>1. CASE Success'
    <3>1. todo' = Close(None) /\ todo' \in Closing /\ todo' \in Places
      BY <1>1, <2>1 DEF Closing, Places
    <3>2. todo' \notin Single \cup Killing \cup Stuck \cup Freed \cup Ending
      BY <3>1, AtKilling
    <3>3. todo' \notin {ToCloseErr(None), None}
      BY <3>1, AtKilling
    <3>4. QED
      BY <1>1, <1>3, <1>4, <3>1, <3>2, <3>3, InSingle DEF Reached
  <2>2. CASE ~Success'
    <3>1. todo' \in Ending /\ todo' \in Places
      BY <1>1, <2>2 DEF Ending, Places
    <3>2. todo' \notin Single \cup Closing
      BY <3>1, AtKilling
    <3>3. todo' \notin {ToCloseErr(None), None}
      BY <3>2 DEF Closing
    <3>4. QED
      BY <1>1, <1>3, <1>4, <1>8, <2>2, <3>1, <3>2, <3>3, InSingle DEF Reached
  <2>3. QED
    BY <2>1, <2>2
<1>10. TypeOK'
  BY <1>1, <1>9, PlacesAreShort DEF IInv, TypeOK, Reached, os, drain, fixed
<1>11. Bytes'
  BY <1>1, <1>4 DEF IInv, Bytes, os, drain
<1>12. ClosedLate'
  BY <1>1, <1>3, <1>4, <1>8 DEF IInv, ClosedLate
<1>13. Flags'
  BY <1>1, <1>4 DEF IInv, Flags, os, drain
<1>14. QED
  BY <1>7, <1>9, <1>10, <1>11, <1>12, <1>13 DEF IInv

\* Every step of the calling thread.
LEMMA MainKeeps == IInv /\ Main => IInv'
BY PollKeeps, LookKeeps, CheckKeeps, WaitKeeps, KillKeeps, ReapKeeps, DecideKeeps,
   JoinKeeps, CloseKeeps DEF Main

-----------------------------------------------------------------------------
(* The drain threads, the system and the command *)

\* A step of another that takes nothing back of what the call has reached.
LEMMA Beside ==
    ASSUME IInv, UNCHANGED <<main, closed>>, TypeOK', Bytes',
           Spared => Spared', Trouble => Trouble',
           \A p \in Procs : proc'[p] = "killed" => proc[p] = "killed",
           expired => expired', \A s \in Streams : overflow[s] => overflow'[s],
           reader["stdout"] = "done" => reader'["stdout"] = "done",
           \A s \in Streams : Ended(s) => Ended(s)',
           Success => UNCHANGED <<buffer, written, overflow>>
    PROVE  IInv'
<1> USE DEF main
<1>1. Reached'
  <2>1. todo = Deciding => Trouble' \/ \A s \in Streams : Ended(s)'
    BY DEF IInv, Reached
  <2>2. QED
    BY <2>1 DEF IInv, Reached
<1>2. ClosedLate'
  BY DEF IInv, ClosedLate, Success
<1>3. Flags'
  BY DEF IInv, Flags
<1>4. Told'
  <2>1. Success' <=> Success
    BY DEF Success
  <2>2. Success => ~Trouble'
    BY DEF IInv, Told, Trouble
  <2>3. Success' => \A s \in Streams : Ended(s)' /\ buffer'[s] = written'[s]
    BY <2>1 DEF IInv, Told
  <2>4. \A s \in Streams : overflow[s] => overflow'[s]
    OBVIOUS
  <2>5. "stdout" \in Streams /\ "stderr" \in Streams
    BY DEF Streams
  <2>6. QED
    BY <2>1, <2>2, <2>3, <2>4, <2>5 DEF IInv, Told
<1>5. QED
  BY <1>1, <1>2, <1>3, <1>4 DEF IInv

\* A read begins, or ends at once at a closed pipe.
LEMMA StartReadKeeps == ASSUME IInv, NEW s \in Streams, StartRead(s) PROVE IInv'
<1>1. /\ reader[s] = "idle"
      /\ reader' = [reader EXCEPT ![s] = IF closed[s] THEN "done" ELSE "reading"]
      /\ UNCHANGED <<main, os, pipe, buffer, overflow, fixed, closed>>
  BY DEF StartRead
<1>2. TypeOK'
  BY <1>1 DEF IInv, TypeOK, main, os, fixed
<1>3. \A t \in Streams : Ended(t) => Ended(t)'
  BY <1>1 DEF IInv, TypeOK, Ended, Holders, os, fixed
<1>4. \A t \in Streams : reader'[t] = "done" => reader[t] = "done" \/ closed[t]
  BY <1>1 DEF IInv, TypeOK
<1>5. Bytes'
  BY <1>1, <1>3, <1>4 DEF IInv, Bytes, os
<1>6. (Spared => Spared') /\ (Trouble => Trouble')
  BY <1>1 DEF Spared, Trouble, Group, main, os, fixed
<1>7. reader["stdout"] = "done" => reader'["stdout"] = "done"
  BY <1>1 DEF IInv, TypeOK, Streams
<1>8. QED
  BY <1>1, <1>2, <1>3, <1>5, <1>6, <1>7, Beside DEF os

\* What read1 returned is kept, up to one byte more than the limit.
LEMMA TakeKeeps ==
    ASSUME IInv, NEW s \in Streams, reader[s] = "reading", Take(s),
           UNCHANGED <<main, os, fixed, closed>>
    PROVE  IInv'
<1>1. /\ pipe \in [Streams -> 0 .. PipeCapacity] /\ buffer \in [Streams -> 0 .. (Limit + 1)]
      /\ reader \in [Streams -> {"idle", "reading", "done"}]
      /\ overflow \in [Streams -> BOOLEAN] /\ written \in [Streams -> 0 .. MaxWritten]
      /\ Limit \in Nat /\ PipeCapacity \in Nat \ {0} /\ MaxWritten \in Nat
  BY BytesAssumption DEF IInv, TypeOK
<1>2. /\ buffer' = [buffer EXCEPT ![s] = Least(buffer[s] + pipe[s], Limit + 1)]
      /\ overflow' = [overflow EXCEPT ![s] = overflow[s] \/ buffer'[s] > Limit]
      /\ pipe' = [pipe EXCEPT ![s] = 0]
      /\ reader' = [reader EXCEPT ![s] = "idle"]
  BY DEF Take
<1> DEFINE total == buffer[s] + pipe[s]
<1>3. total \in Nat /\ buffer[s] \in 0 .. (Limit + 1) /\ written[s] \in Nat
  BY <1>1
<1>4. buffer'[s] = IF total < Limit + 1 THEN total ELSE Limit + 1
  BY <1>1, <1>2 DEF Least
<1>5. buffer'[s] \in 0 .. (Limit + 1) /\ buffer'[s] <= total
  BY <1>1, <1>3, <1>4
<1>6. /\ total <= written[s]
      /\ overflow[s] <=> buffer[s] > Limit
      /\ ~closed[s] /\ ~overflow[s] => total = written[s]
  BY DEF IInv, Bytes
<1>7. overflow'[s] <=> buffer'[s] > Limit
  <2>1. overflow'[s] <=> overflow[s] \/ buffer'[s] > Limit
    BY <1>1, <1>2
  <2>2. overflow[s] => buffer'[s] > Limit
    <3>1. pipe[s] \in Nat
      BY <1>1
    <3>2. overflow[s] => total >= Limit + 1
      BY <1>1, <1>3, <1>6, <3>1
    <3>3. total >= Limit + 1 => buffer'[s] > Limit
      BY <1>1, <1>3, <1>4
    <3>4. QED
      BY <3>2, <3>3
  <2>3. QED
    BY <2>1, <2>2
<1>8. ~closed[s] /\ ~overflow'[s] => buffer'[s] = written[s]
  <2>1. ~overflow'[s] => ~overflow[s]
    BY <1>1, <1>2
  <2>2. ~overflow'[s] => buffer'[s] = total
    BY <1>1, <1>3, <1>4, <1>5, <1>7
  <2>3. QED
    BY <1>6, <2>1, <2>2
<1>9. \A t \in Streams : t # s => /\ buffer'[t] = buffer[t] /\ overflow'[t] = overflow[t]
                                  /\ pipe'[t] = pipe[t] /\ reader'[t] = reader[t]
  BY <1>1, <1>2
<1>10. pipe'[s] = 0 /\ reader'[s] = "idle"
  BY <1>1, <1>2
<1>11. TypeOK'
  <2>1. buffer' \in [Streams -> 0 .. (Limit + 1)]
    BY <1>1, <1>2, <1>5
  <2>2. overflow' \in [Streams -> BOOLEAN]
    BY <1>1, <1>2
  <2>3. pipe' \in [Streams -> 0 .. PipeCapacity]
    BY <1>1, <1>2
  <2>4. reader' \in [Streams -> {"idle", "reading", "done"}]
    BY <1>1, <1>2
  <2>5. QED
    BY <2>1, <2>2, <2>3, <2>4 DEF IInv, TypeOK, main, os, fixed
<1>12. \A t \in Streams : Ended(t) => t # s /\ Ended(t)'
  BY <1>9 DEF Ended, Holders, os, fixed
<1>13. Bytes'
  <2> SUFFICES ASSUME NEW t \in Streams
               PROVE  (/\ buffer[t] + pipe[t] <= written[t]
                       /\ overflow[t] <=> buffer[t] > Limit
                       /\ ~closed[t] /\ ~overflow[t] => buffer[t] + pipe[t] = written[t]
                       /\ reader[t] = "done" => Ended(t) \/ closed[t])'
    BY DEF Bytes
  <2>1. written' = written /\ closed' = closed
    BY DEF os
  <2>2. CASE t = s
    <3>1. buffer'[s] + pipe'[s] = buffer'[s]
      BY <1>5, <1>1, <1>10
    <3>2. buffer'[s] <= written[s]
      BY <1>1, <1>3, <1>5, <1>6
    <3>3. QED
      BY <1>7, <1>8, <1>10, <2>1, <2>2, <3>1, <3>2
  <2>3. CASE t # s
    BY <1>9, <1>12, <2>1, <2>3 DEF IInv, Bytes
  <2>4. QED
    BY <2>2, <2>3
<1>14. \A t \in Streams : overflow[t] => overflow'[t]
  BY <1>1, <1>2
<1>15. (Spared => Spared') /\ (Trouble => Trouble')
  BY <1>14 DEF Spared, Trouble, Group, main, os, fixed
<1>16. ~Success
  BY <1>12 DEF IInv, Told
<1>17. reader["stdout"] = "done" => reader'["stdout"] = "done"
  BY <1>9 DEF Streams
<1>18. QED
  BY <1>11, <1>12, <1>13, <1>14, <1>15, <1>16, <1>17, Beside DEF os

\* End of file comes when nobody is left to write.
LEMMA EndOfFileKeeps ==
    ASSUME IInv, NEW s \in Streams, reader[s] = "reading", EndOfFile(s),
           UNCHANGED <<main, os, fixed, closed>>
    PROVE  IInv'
<1>1. /\ pipe[s] = 0 /\ Holders(s) = {}
      /\ reader' = [reader EXCEPT ![s] = "done"]
      /\ UNCHANGED <<pipe, buffer, overflow>>
  BY DEF EndOfFile
<1>2. TypeOK'
  BY <1>1 DEF IInv, TypeOK, main, os, fixed
<1>3. reader \in [Streams -> {"idle", "reading", "done"}]
  BY DEF IInv, TypeOK
<1>4. \A t \in Streams : Holders(t)' = Holders(t)
  BY DEF Holders, os, fixed
<1>5. \A t \in Streams : reader'[t] = "done" => reader[t] = "done" \/ t = s
  BY <1>1, <1>3
<1>6. Ended(s)' /\ \A t \in Streams : Ended(t) => Ended(t)'
  BY <1>1, <1>3, <1>4 DEF Ended
<1>7. Bytes'
  BY <1>1, <1>5, <1>6 DEF IInv, Bytes, os
<1>8. (Spared => Spared') /\ (Trouble => Trouble')
  BY <1>1 DEF Spared, Trouble, Group, main, os, fixed
<1>9. reader["stdout"] = "done" => reader'["stdout"] = "done"
  BY <1>1, <1>3 DEF Streams
<1>10. QED
  BY <1>1, <1>2, <1>6, <1>7, <1>8, <1>9, Beside DEF os

\* The deadline passes.
LEMMA ExpireKeeps == IInv /\ Expire => IInv'
<1> SUFFICES ASSUME IInv, Expire PROVE IInv'
  OBVIOUS
<1>1. expired' = TRUE /\ UNCHANGED <<main, proc, written, drain, fixed, closed>>
  BY DEF Expire
<1>2. TypeOK'
  BY <1>1 DEF IInv, TypeOK, main, drain, fixed
<1>3. \A t \in Streams : Ended(t)' <=> Ended(t)
  BY <1>1 DEF Ended, Holders, drain, fixed
<1>4. Bytes'
  BY <1>1, <1>3 DEF IInv, Bytes, drain
<1>5. (Spared => Spared') /\ (Trouble => Trouble')
  BY <1>1 DEF Spared, Trouble, Group, main, drain, fixed
<1>6. QED
  BY <1>1, <1>2, <1>3, <1>4, <1>5, Beside DEF drain

\* A byte written goes into the pipe while the parent reads it.
LEMMA WriteKeeps ==
    ASSUME IInv, NEW p \in Procs, NEW s \in Streams, Write(p, s)
    PROVE  IInv'
<1>1. /\ Holders(s) # {}
      /\ written[s] < MaxWritten
      /\ closed[s] \/ pipe[s] < PipeCapacity
      /\ written' = [written EXCEPT ![s] = written[s] + 1]
      /\ pipe' = IF closed[s] THEN pipe ELSE [pipe EXCEPT ![s] = pipe[s] + 1]
      /\ UNCHANGED <<main, expired, proc, reader, buffer, overflow, fixed, closed>>
  BY DEF Write
<1>2. /\ pipe \in [Streams -> 0 .. PipeCapacity] /\ buffer \in [Streams -> 0 .. (Limit + 1)]
      /\ written \in [Streams -> 0 .. MaxWritten]
      /\ Limit \in Nat /\ PipeCapacity \in Nat \ {0} /\ MaxWritten \in Nat
  BY BytesAssumption DEF IInv, TypeOK
<1>3. \A t \in Streams : t # s => pipe'[t] = pipe[t] /\ written'[t] = written[t]
  BY <1>1, <1>2
<1>4. /\ written'[s] = written[s] + 1
      /\ closed[s] => pipe'[s] = pipe[s]
      /\ ~closed[s] => pipe'[s] = pipe[s] + 1
  BY <1>1, <1>2
<1>5. TypeOK'
  <2>1. written' \in [Streams -> 0 .. MaxWritten]
    BY <1>1, <1>2
  <2>2. pipe' \in [Streams -> 0 .. PipeCapacity]
    <3>1. CASE closed[s]
      BY <1>1, <1>2, <3>1
    <3>2. CASE ~closed[s]
      <4>1. pipe[s] + 1 \in 0 .. PipeCapacity
        BY <1>1, <1>2, <3>2
      <4>2. QED
        BY <1>1, <1>2, <3>2, <4>1
    <3>3. QED
      BY <3>1, <3>2
  <2>3. QED
    BY <1>1, <2>1, <2>2 DEF IInv, TypeOK, main, fixed
<1>6. \A t \in Streams : Ended(t) => t # s
  BY <1>1 DEF Ended
<1>7. \A t \in Streams : Holders(t)' = Holders(t)
  BY <1>1 DEF Holders, fixed
<1>8. \A t \in Streams : Ended(t) => Ended(t)'
  BY <1>1, <1>3, <1>6, <1>7 DEF Ended
<1>9. Bytes'
  <2> SUFFICES ASSUME NEW t \in Streams
               PROVE  (/\ buffer[t] + pipe[t] <= written[t]
                       /\ overflow[t] <=> buffer[t] > Limit
                       /\ ~closed[t] /\ ~overflow[t] => buffer[t] + pipe[t] = written[t]
                       /\ reader[t] = "done" => Ended(t) \/ closed[t])'
    BY DEF Bytes
  <2>1. /\ buffer[t] + pipe[t] <= written[t]
        /\ overflow[t] <=> buffer[t] > Limit
        /\ ~closed[t] /\ ~overflow[t] => buffer[t] + pipe[t] = written[t]
        /\ reader[t] = "done" => Ended(t) \/ closed[t]
    BY DEF IInv, Bytes
  <2>2. buffer[t] \in Nat /\ pipe[t] \in Nat /\ written[t] \in Nat
    BY <1>2
  <2>3. buffer'[t] = buffer[t] /\ overflow'[t] = overflow[t] /\ closed' = closed /\ reader' = reader
    BY <1>1
  <2>4. CASE t = s
    <3>1. buffer[s] + pipe'[s] <= written'[s]
      BY <1>4, <2>1, <2>2, <2>4
    <3>2. ~closed[s] /\ ~overflow[s] => buffer[s] + pipe'[s] = written'[s]
      BY <1>4, <2>1, <2>2, <2>4
    <3>3. reader[s] = "done" => closed[s]
      BY <1>6, <2>1, <2>4
    <3>4. QED
      BY <2>1, <2>3, <2>4, <3>1, <3>2, <3>3
  <2>5. CASE t # s
    BY <1>3, <1>8, <2>1, <2>3, <2>5
  <2>6. QED
    BY <2>4, <2>5
<1>10. (Spared => Spared') /\ (Trouble => Trouble')
  BY <1>1 DEF Spared, Trouble, Group, main, fixed
<1>11. ~Success
  BY <1>6 DEF IInv, Told
<1>12. QED
  BY <1>1, <1>5, <1>8, <1>9, <1>10, <1>11, Beside

\* A process exits and holds its pipes no more.
LEMMA ExitKeeps == ASSUME IInv, NEW p \in Procs, Exit(p) PROVE IInv'
<1>1. /\ proc' = [proc EXCEPT ![p] = "dead"]
      /\ UNCHANGED <<main, expired, written, drain, fixed, closed>>
  BY DEF Exit
<1>2. TypeOK'
  BY <1>1 DEF IInv, TypeOK, main, drain, fixed
<1>3. \A q \in Procs : proc'[q] # "dead" => proc'[q] = proc[q]
  BY <1>1 DEF IInv, TypeOK
<1>4. \A t \in Streams : Holders(t)' \subseteq Holders(t)
  BY <1>1, <1>3 DEF Holders, fixed
<1>5. \A t \in Streams : Ended(t) => Ended(t)'
  BY <1>1, <1>4 DEF Ended, drain
<1>6. Bytes'
  BY <1>1, <1>5 DEF IInv, Bytes, drain
<1>7. Group' = Group /\ Group \subseteq Procs
  BY <1>1 DEF Group, fixed
<1>8. Spared => Spared'
  BY <1>1, <1>3, <1>7 DEF Spared, fixed
<1>9. Trouble => Trouble'
  BY <1>1 DEF Trouble, main, drain
<1>10. \A q \in Procs : proc'[q] = "killed" => proc[q] = "killed"
  BY <1>3
<1>11. QED
  BY <1>1, <1>2, <1>5, <1>6, <1>8, <1>9, <1>10, Beside DEF drain

-----------------------------------------------------------------------------

\* The call begins at its first poll, with nothing written.
LEMMA Starts == Init => IInv
<1> SUFFICES ASSUME Init PROVE IInv
  OBVIOUS
<1>1. /\ todo = Polling /\ timedOut = FALSE /\ overflowed = FALSE /\ verdict = "none"
      /\ expired = FALSE /\ proc = [p \in Procs |-> "running"]
      /\ holds \in [Procs -> SUBSET Streams] /\ escaped \subseteq Descendants
      /\ garbled \in BOOLEAN
      /\ written = [s \in Streams |-> 0] /\ pipe = [s \in Streams |-> 0]
      /\ reader = [s \in Streams |-> "idle"] /\ buffer = [s \in Streams |-> 0]
      /\ overflow = [s \in Streams |-> FALSE] /\ closed = [s \in Streams |-> FALSE]
  BY DEF Init, Polling
<1>2. Polling \in Places /\ Polling \notin Killing \cup Stuck \cup Freed \cup Ending \cup Closing
  BY InSingle, AtSingle DEF Places
<1>3. Polling # JoiningErr /\ Polling # Deciding /\ Polling \notin {ToCloseErr(None), None}
  BY <1>2, SameLabelsDiffer DEF Closing
<1>4. Reached
  BY <1>1, <1>2, <1>3 DEF Reached
<1>5. TypeOK
  <2>1. todo \in Seq(Labels) /\ Len(todo) <= 5
    BY <1>1, <1>2, PlacesAreShort
  <2>2. 0 \in 0 .. MaxWritten /\ 0 \in 0 .. PipeCapacity /\ 0 \in 0 .. (Limit + 1)
    BY BytesAssumption
  <2>3. QED
    BY <1>1, <2>1, <2>2 DEF TypeOK, Verdicts
<1>6. Bytes
  BY <1>1, BytesAssumption DEF Bytes
<1>7. ClosedLate /\ Flags /\ Told
  BY <1>1 DEF ClosedLate, Flags, Told, Success
<1>8. QED
  BY <1>4, <1>5, <1>6, <1>7 DEF IInv

\* Every step keeps the invariant.
LEMMA Keeps == IInv /\ [Next]_vars => IInv'
<1> SUFFICES ASSUME IInv, [Next]_vars PROVE IInv'
  OBVIOUS
<1>1. CASE Main
  BY <1>1, MainKeeps
<1>2. ASSUME NEW s \in Streams, Drain(s) PROVE IInv'
  BY <1>2, StartReadKeeps, TakeKeeps, EndOfFileKeeps DEF Drain, FinishRead
<1>3. CASE System
  BY <1>3, ExpireKeeps, WriteKeeps, ExitKeeps DEF System
<1>4. CASE UNCHANGED vars
  <2>1. \A s \in Streams : Ended(s)' <=> Ended(s)
    BY <1>4 DEF Ended, Holders, vars, os, drain, fixed
  <2>2. Spared' <=> Spared
    BY <1>4 DEF Spared, Group, vars, os, fixed
  <2>3. TypeOK' /\ Bytes'
    BY <1>4, <2>1 DEF IInv, TypeOK, Bytes, vars, main, os, drain, fixed
  <2>4. QED
    BY <1>4, <2>1, <2>2, <2>3, Beside DEF vars, Trouble, main, os, drain
<1>5. QED
  BY <1>1, <1>2, <1>3, <1>4 DEF Next

\* The places the call can be at, and what holds there, whatever the command
\* does and whenever the threads run.
THEOREM CaptureInvariant == Spec => []IInv
BY Starts, Keeps, PTL DEF Spec

\* Every state of a capture is one its variables are meant to hold; what the
\* call still has to run is never longer than five labels.
THEOREM CaptureTypes == Spec => []TypeOK
<1>1. IInv => TypeOK
  BY DEF IInv
<1>2. QED
  BY CaptureInvariant, <1>1, PTL

\* A captured result is the whole output of a command that was left alone.
THEOREM CapturesAreWhole == Spec => []ResultIsWhole
<1>1. IInv => ResultIsWhole
  <2> SUFFICES ASSUME IInv, Success
               PROVE  /\ \A p \in Procs : proc[p] # "killed"
                      /\ ~timedOut /\ ~overflowed
                      /\ \A s \in Streams : Holders(s) = {} /\ buffer[s] = written[s]
    BY DEF ResultIsWhole, Success
  <2>1. ~Trouble /\ \A s \in Streams : Ended(s) /\ buffer[s] = written[s]
    BY DEF IInv, Told
  <2>2. ~timedOut /\ ~overflowed /\ \A p \in Procs : proc[p] # "killed"
    BY <2>1 DEF IInv, Flags, Trouble
  <2>3. QED
    BY <2>1, <2>2 DEF Ended
<1>2. QED
  BY CaptureInvariant, <1>1, PTL

\* When the call returns its pipes are closed, and no process of the group
\* that holds one was spared.
THEOREM ReturnsCleanly == Spec => []NothingLeftBehind
<1>1. IInv => NothingLeftBehind
  <2> SUFFICES ASSUME IInv, todo = None
               PROVE  /\ \A s \in Streams : closed[s]
                      /\ \A p \in Group : proc[p] = "running" => holds[p] = {}
    BY DEF NothingLeftBehind, Returned, None
  <2>1. closed["stdout"] /\ closed["stderr"]
    BY DEF IInv, Reached
  <2>2. Spared
    BY DEF IInv, Reached, Closing
  <2>3. QED
    BY <2>1, <2>2 DEF Spared, Streams
<1>2. QED
  BY CaptureInvariant, <1>1, PTL

\* A timeout is reported only after the deadline, an overflow only of a
\* stream that carried more than the limit.
THEOREM VerdictsAreTrue == Spec => []VerdictTruthful
<1>1. IInv => VerdictTruthful
  <2> SUFFICES ASSUME IInv PROVE VerdictTruthful
    OBVIOUS
  <2>1. \A s \in Streams : overflow[s] => written[s] > Limit
    <3> SUFFICES ASSUME NEW s \in Streams, overflow[s] PROVE written[s] > Limit
      OBVIOUS
    <3>1. /\ buffer[s] + pipe[s] <= written[s] /\ buffer[s] > Limit
      BY DEF IInv, Bytes
    <3>2. buffer[s] \in Nat /\ pipe[s] \in Nat /\ written[s] \in Nat /\ Limit \in Nat
      BY BytesAssumption DEF IInv, TypeOK
    <3>3. QED
      BY <3>1, <3>2
  <2>2. verdict = "timeout" => expired
    BY DEF IInv, Told, Flags
  <2>3. ASSUME NEW s \in Streams,
               verdict = (IF s = "stdout" THEN "stdout_overflow" ELSE "stderr_overflow")
        PROVE  overflow[s]
    BY <2>3 DEF IInv, Told, Streams
  <2>4. QED
    BY <2>1, <2>2, <2>3 DEF VerdictTruthful
<1>2. QED
  BY CaptureInvariant, <1>1, PTL

=============================================================================
