---------------------------- MODULE SequentialDif ----------------------------
(***************************************************************************)
(* The sequential DIF controller run_sequential_dif of                     *)
(* python/fast_mlsirm/sequential_dif.py: calls that share one archive      *)
(* directory, replay the rounds it holds and fit the ones it does not.     *)
(*                                                                         *)
(* A call may end at any point: its process dies, it is interrupted, or a  *)
(* file operation fails.  Files are created exclusively and written later, *)
(* so a call that ends in between leaves a partial file.  A digest is      *)
(* modelled by what is digested.  A file may later be damaged.             *)
(*                                                                         *)
(* Left out: requests refused before the archive is opened, the loss of    *)
(* directory entries when the host goes down, and the owner who removes    *)
(* files to settle a round by hand.                                        *)
(***************************************************************************)
EXTENDS Naturals, Sequences

CONSTANTS
    Callers,     \* threads and processes that call run_sequential_dif
    Items,       \* the items, by position
    Natives,     \* capabilities, with the identity of the native library
    MaxRounds,   \* bound: largest max_rounds of a request
    MaxCalls,    \* bound: calls made in all
    Nobody, NoJob, NoItem, NoOutput, Malformed, Absent, Partial

ASSUME RoundsAssumption == MaxRounds \in Nat \ {0}
ASSUME CallsAssumption == MaxCalls \in Nat

Rounds == 1 .. MaxRounds

\* Anchor masks: a request has an anchor, and keeps one.
Masks == (SUBSET Items) \ {{}}

Requests   == [anchor : Masks, max_rounds : Rounds]
Identities == [request : Requests, native : Natives]

Statuses == {"retest_all", "stable_no_further_removal",
             "round_incomplete", "identification_exhausted"}

\* What a native round answers: for which anchors, whether every item could be
\* tested, the anchor it removed and its status.
Answers == [request : Masks, complete : BOOLEAN, removed : Items \cup {NoItem},
            status : Statuses]

\* Malformed: the text of an exception, a receipt that is not of GPU fits only,
\* items missing or out of order, masks that do not fit what was removed.
Outputs == Answers \cup {Malformed}

Packets == [output : Outputs, sha256 : Outputs]

ASSUME DistinctAssumption ==
    /\ Nobody \notin Callers /\ NoItem \notin Items
    /\ Malformed \notin Answers /\ NoOutput \notin Outputs
    /\ Absent # Partial
    /\ Absent \notin Packets \cup Identities
    /\ Partial \notin Packets \cup Identities

VARIABLES
    lock,       \* holder of the flock on .lock
    manifest,   \* manifest.json
    pending,    \* rounds with a .pending file
    round,      \* round-NNNN.json
    pc,         \* where each call is; "idle" outside of one
    job,        \* the request and the native identity of the call
    rows,       \* outputs of the rounds the call has accepted
    anchors,    \* its current anchor mask
    output,     \* the output at hand
    calls,      \* calls made so far
    asked,      \* ghost: the jobs and masks each round was fitted for
    results     \* ghost: what calls have returned

archive == <<manifest, pending, round>>
vars == <<lock, archive, pc, job, rows, anchors, output, calls, asked, results>>

Labels == {"idle", "manifest", "write_manifest", "round", "dispatch",
           "fit", "create", "write", "validate"}

Init ==
    /\ lock = Nobody
    /\ manifest = Absent /\ pending = {} /\ round = [i \in Rounds |-> Absent]
    /\ pc = [c \in Callers |-> "idle"]
    /\ job = [c \in Callers |-> NoJob]
    /\ rows = [c \in Callers |-> <<>>] /\ anchors = [c \in Callers |-> {}]
    /\ output = [c \in Callers |-> NoOutput]
    /\ calls = 0
    /\ asked = [i \in Rounds |-> <<>>] /\ results = {}

index(c) == Len(rows[c]) + 1

Goto(c, label) == pc' = [pc EXCEPT ![c] = label]

-----------------------------------------------------------------------------
(* One call *)

\* However a call ends, the lock it holds is released with its descriptor.
End(c) ==
    /\ Goto(c, "idle")
    /\ lock' = IF lock = c THEN Nobody ELSE lock
    /\ job' = [job EXCEPT ![c] = NoJob]
    /\ rows' = [rows EXCEPT ![c] = <<>>]
    /\ anchors' = [anchors EXCEPT ![c] = {}]
    /\ output' = [output EXCEPT ![c] = NoOutput]
    /\ UNCHANGED calls

Raise(c) == End(c) /\ UNCHANGED <<archive, asked, results>>

Return(c, result) ==
    /\ End(c) /\ results' = results \cup {result}
    /\ UNCHANGED <<archive, asked>>

\* A call has read its arguments when it takes the lock.  One that finds it
\* taken raises BlockingIOError and leaves no trace.
Call(c) ==
    /\ pc[c] = "idle" /\ calls < MaxCalls
    /\ lock = Nobody /\ lock' = c
    /\ calls' = calls + 1
    /\ \E id \in Identities :
        /\ job' = [job EXCEPT ![c] = id]
        /\ anchors' = [anchors EXCEPT ![c] = id.request.anchor]
    /\ Goto(c, "manifest")
    /\ UNCHANGED <<archive, rows, output, asked, results>>

\* (fault: an archive is taken over by a request with the same round limit)
CheckManifestLoosely(c) ==
    /\ pc[c] = "manifest"
    /\ \/ /\ manifest \in Identities
          /\ manifest.request.max_rounds = job[c].request.max_rounds
          /\ Goto(c, "round") /\ UNCHANGED <<archive, lock>>
       \/ /\ manifest = Absent
          /\ manifest' = Partial /\ Goto(c, "write_manifest")
          /\ UNCHANGED <<lock, pending, round>>
    /\ UNCHANGED <<job, rows, anchors, output, calls, asked, results>>

CheckManifest(c) ==
    /\ pc[c] = "manifest"
    /\ \/ /\ manifest = job[c]
          /\ Goto(c, "round")
          /\ UNCHANGED <<archive, lock, job, rows, anchors, output, calls, asked, results>>
       \/ manifest \notin {job[c], Absent} /\ Raise(c)
       \/ /\ manifest = Absent
          /\ manifest' = Partial /\ Goto(c, "write_manifest")
          /\ UNCHANGED <<lock, pending, round, job, rows, anchors, output, calls,
                         asked, results>>

WriteManifest(c) ==
    /\ pc[c] = "write_manifest"
    /\ manifest' = job[c] /\ Goto(c, "round")
    /\ UNCHANGED <<lock, pending, round, job, rows, anchors, output, calls, asked, results>>

-----------------------------------------------------------------------------
(* One round *)

\* (fault: the digest of an archived output is not compared)
ReplayUnverified(c) ==
    /\ pc[c] = "round" /\ round[index(c)] # Absent
    /\ \/ round[index(c)] = Partial /\ Raise(c)
       \/ /\ round[index(c)] # Partial
          /\ output' = [output EXCEPT ![c] = round[index(c)].output]
          /\ Goto(c, "validate")
          /\ UNCHANGED <<archive, lock, job, rows, anchors, calls, asked, results>>

\* A partial file is not JSON, a damaged one does not match its digest.
Replay(c) ==
    /\ pc[c] = "round" /\ round[index(c)] # Absent
    /\ LET packet == round[index(c)]
           intact == packet # Partial /\ packet.sha256 = packet.output
       IN  \/ ~intact /\ Raise(c)
           \/ /\ intact
              /\ output' = [output EXCEPT ![c] = packet.output]
              /\ Goto(c, "validate")
              /\ UNCHANGED <<archive, lock, job, rows, anchors, calls, asked, results>>

\* (fault: waits for whoever left the round pending)
UnsettledWaits(c) == FALSE

Unsettled(c) ==
    /\ pc[c] = "round" /\ round[index(c)] = Absent /\ index(c) \in pending
    /\ Raise(c)

\* (fault: a round that was left pending is claimed again)
ClaimAgain(c) ==
    /\ pc[c] = "round" /\ round[index(c)] = Absent
    /\ pending' = pending \cup {index(c)} /\ Goto(c, "dispatch")
    /\ UNCHANGED <<lock, manifest, round, job, rows, anchors, output, calls, asked, results>>

\* What the .pending file holds is never read: it counts once it exists.
Claim(c) ==
    /\ pc[c] = "round" /\ round[index(c)] = Absent /\ index(c) \notin pending
    /\ pending' = pending \cup {index(c)} /\ Goto(c, "dispatch")
    /\ UNCHANGED <<lock, manifest, round, job, rows, anchors, output, calls, asked, results>>

Dispatch(c) ==
    /\ pc[c] = "dispatch"
    /\ asked' = [asked EXCEPT ![index(c)] = Append(@, [job |-> job[c], anchor |-> anchors[c]])]
    /\ Goto(c, "fit")
    /\ UNCHANGED <<lock, archive, job, rows, anchors, output, calls, results>>

\* The native round answers anything, or raises.
Answer(c) ==
    /\ pc[c] = "fit"
    /\ \E o \in Outputs : output' = [output EXCEPT ![c] = o]
    /\ Goto(c, "create")
    /\ UNCHANGED <<lock, archive, job, rows, anchors, calls, asked, results>>

CreateRound(c) ==
    /\ pc[c] = "create"
    /\ round' = [round EXCEPT ![index(c)] = Partial] /\ Goto(c, "write")
    /\ UNCHANGED <<lock, manifest, pending, job, rows, anchors, output, calls, asked, results>>

WriteRound(c) ==
    /\ pc[c] = "write"
    /\ round' = [round EXCEPT ![index(c)] = [output |-> output[c], sha256 |-> output[c]]]
    /\ Goto(c, "validate")
    /\ UNCHANGED <<lock, manifest, pending, job, rows, anchors, output, calls, asked, results>>

\* A round with an untested item removes nothing; another removes one anchor,
\* though not the last, or is the end.
Valid(o, a) ==
    /\ o # Malformed /\ o.request = a
    /\ \/ /\ ~o.complete /\ o.removed = NoItem
          /\ o.status \in {"round_incomplete", "identification_exhausted"}
       \/ /\ o.complete /\ o.removed = NoItem
          /\ o.status = "stable_no_further_removal"
       \/ /\ o.complete /\ o.removed \in a /\ o.status = "retest_all"
          /\ a # {o.removed}

After(o, a) == a \ {o.removed}

Result(c, status, accepted, mask, failed) ==
    [job |-> job[c], status |-> status, rounds |-> accepted,
     final_anchor |-> mask, failed_output |-> failed]

RoundsLeft(c) == index(c) < job[c].request.max_rounds

FinalStatus(o) == IF o.status = "retest_all" THEN "round_limit_incomplete" ELSE o.status

Reject(c) ==
    /\ pc[c] = "validate" /\ ~Valid(output[c], anchors[c])
    /\ Return(c, Result(c, "native_contract_failed", rows[c], anchors[c], output[c]))

Accept(c) ==
    LET o == output[c] IN
    /\ pc[c] = "validate" /\ Valid(o, anchors[c])
    /\ \/ /\ o.status = "retest_all" /\ RoundsLeft(c)
          /\ rows' = [rows EXCEPT ![c] = Append(@, o)]
          /\ anchors' = [anchors EXCEPT ![c] = After(o, anchors[c])]
          /\ output' = [output EXCEPT ![c] = NoOutput]
          /\ Goto(c, "round")
          /\ UNCHANGED <<lock, archive, job, calls, asked, results>>
       \/ /\ o.status # "retest_all" \/ ~RoundsLeft(c)
          /\ Return(c, Result(c, FinalStatus(o), Append(rows[c], o),
                              After(o, anchors[c]), NoOutput))

-----------------------------------------------------------------------------
\* The process dies, is interrupted, or a file operation fails.
Crash(c) == pc[c] # "idle" /\ Raise(c)

\* A round's file loses its end, or its output is altered.
Damage(i) ==
    /\ round[i] \in Packets
    /\ \E file \in {Partial, [round[i] EXCEPT !.output = Malformed]} :
        round' = [round EXCEPT ![i] = file]
    /\ UNCHANGED <<lock, manifest, pending, pc, job, rows, anchors, output, calls,
                   asked, results>>

Proceed(c) ==
    \/ CheckManifest(c) \/ WriteManifest(c)
    \/ Replay(c) \/ Unsettled(c) \/ Claim(c) \/ Dispatch(c) \/ Answer(c)
    \/ CreateRound(c) \/ WriteRound(c) \/ Reject(c) \/ Accept(c)

Next ==
    \/ \E c \in Callers : Call(c) \/ Proceed(c) \/ Crash(c)
    \/ \E i \in Rounds : Damage(i)

Spec == Init /\ [][Next]_vars /\ \A c \in Callers : WF_vars(Proceed(c))
-----------------------------------------------------------------------------
(* Properties *)

\* A call is at one of the rounds its request allows.
WithinRequest(c) == index(c) \in Rounds /\ index(c) <= job[c].request.max_rounds

\* The archive and the calls keep their shape, and no call goes past the rounds
\* its request allows (max_rounds).
TypeOK ==
    /\ lock \in Callers \cup {Nobody}
    /\ manifest \in Identities \cup {Absent, Partial}
    /\ pending \subseteq Rounds
    /\ round \in [Rounds -> Packets \cup {Absent, Partial}]
    /\ pc \in [Callers -> Labels]
    /\ job \in [Callers -> Identities \cup {NoJob}]
    /\ rows \in [Callers -> Seq(Answers)]
    /\ anchors \in [Callers -> SUBSET Items]
    /\ output \in [Callers -> Outputs \cup {NoOutput}]
    /\ calls \in 0 .. MaxCalls
    /\ asked \in [Rounds -> Seq([job : Identities, anchor : SUBSET Items])]
    /\ \A c \in Callers : pc[c] # "idle" => WithinRequest(c)

\* No round is fitted twice, whichever calls overlap or die on the way.
NeverRefitted == \A i \in Rounds : Len(asked[i]) <= 1

\* All fits an archive holds are for one request and one native library.
OneRequestPerArchive ==
    \A i, j \in Rounds : \A m \in 1 .. Len(asked[i]), n \in 1 .. Len(asked[j]) :
        asked[i][m].job = asked[j][n].job

\* A replay returns what the call that fitted the rounds returned: no crash,
\* damage or second caller makes an archive give two answers.
SameAnswer == \A r, s \in results : r = s

\* A call ends, with a result or an exception, provided the native round does.
CallsEnd == \A c \in Callers : pc[c] # "idle" ~> pc[c] = "idle"
=============================================================================
