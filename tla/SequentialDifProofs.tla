------------------------- MODULE SequentialDifProofs -------------------------
(***************************************************************************)
(* Theorems about the sequential DIF controller, for any number of calls,  *)
(* items, libraries and rounds.                                            *)
(*                                                                         *)
(* The inductive invariant says who may touch the archive (Exclusive), what*)
(* a call has at hand (AtHand), that a round without a claim was never     *)
(* fitted (Claimed), and that the manifest names the job of every fit and  *)
(* of every call past it (Pinned).  A second invariant (TrailInv) follows  *)
(* the outputs a call has accepted, its trail: once one call has returned, *)
(* every later one is bound to the same outputs (Decided).                 *)
(***************************************************************************)
EXTENDS SequentialDif, TLAPS

\* Only the call that holds the lock is under way.
Exclusive == \A c \in Callers : pc[c] # "idle" => lock = c

\* A call has a job; past the native round it has an output.
AtHand ==
    \A c \in Callers :
        /\ pc[c] # "idle" => job[c] \in Identities /\ anchors[c] \in Masks
        /\ pc[c] \in {"create", "write", "validate"} => output[c] \in Outputs

\* A round was fitted only if it is claimed, and not yet by who is to fit it.
Claimed ==
    /\ \A i \in Rounds : i \notin pending => asked[i] = <<>>
    /\ \A c \in Callers : pc[c] = "dispatch" =>
        index(c) \in pending /\ asked[index(c)] = <<>>

\* The manifest is written before anything else and never changes.
Pinned ==
    /\ \A c \in Callers :
        /\ pc[c] = "write_manifest" => manifest = Partial
        /\ pc[c] \notin {"idle", "manifest", "write_manifest"} => manifest = job[c]
    /\ \A i \in Rounds : \A n \in 1 .. Len(asked[i]) :
        asked[i][n].job = manifest /\ manifest \in Identities

\* A call starts with no rows.
Fresh == \A c \in Callers : pc[c] = "idle" => Len(rows[c]) = 0

IInv == TypeOK /\ Fresh /\ Exclusive /\ AtHand /\ Claimed /\ Pinned /\ NeverRefitted

USE DEF Masks, Labels

-----------------------------------------------------------------------------

\* An empty archive with no call under way.
LEMMA InitEstablishes == Init => IInv
<1> SUFFICES ASSUME Init PROVE IInv
  OBVIOUS
<1>1. \A c \in Callers : pc[c] = "idle"
  BY DEF Init
<1>2. TypeOK
  BY <1>1, CallsAssumption DEF Init, TypeOK
<1>3. Fresh /\ Exclusive /\ AtHand /\ Claimed
  BY DEF Init, Fresh, Exclusive, AtHand, Claimed
<1>4. Pinned /\ NeverRefitted
  BY DEF Init, Pinned, NeverRefitted
<1>5. QED
  BY <1>2, <1>3, <1>4 DEF IInv

\* Raising an exception, or dying, keeps the invariant.
LEMMA RaiseKeeps ==
    ASSUME IInv, NEW c \in Callers, Raise(c)
    PROVE  IInv'
<1> USE DEF IInv
<1>1. /\ pc' = [pc EXCEPT ![c] = "idle"] /\ rows' = [rows EXCEPT ![c] = <<>>]
      /\ job' = [job EXCEPT ![c] = NoJob] /\ anchors' = [anchors EXCEPT ![c] = {}]
      /\ output' = [output EXCEPT ![c] = NoOutput]
      /\ lock' = IF lock = c THEN Nobody ELSE lock
      /\ UNCHANGED <<manifest, pending, round, calls, asked, results>>
  BY DEF Raise, End, Goto, archive
<1>2. \A d \in Callers : d # c => pc'[d] = pc[d] /\ rows'[d] = rows[d]
                                  /\ job'[d] = job[d] /\ output'[d] = output[d]
                                  /\ anchors'[d] = anchors[d]
  BY <1>1 DEF TypeOK
<1>3. pc'[c] = "idle"
  BY <1>1 DEF TypeOK
<1>4. TypeOK'
  <2>1. \A d \in Callers : pc'[d] # "idle" => WithinRequest(d)'
    BY <1>2, <1>3 DEF TypeOK, WithinRequest, index
  <2>2. rows' \in [Callers -> Seq(Answers)] /\ pc' \in [Callers -> Labels]
    BY <1>1 DEF TypeOK
  <2>3. /\ lock' \in Callers \cup {Nobody} /\ job' \in [Callers -> Identities \cup {NoJob}]
        /\ anchors' \in [Callers -> SUBSET Items]
        /\ output' \in [Callers -> Outputs \cup {NoOutput}]
    BY <1>1 DEF TypeOK
  <2>4. QED
    BY <1>1, <2>1, <2>2, <2>3 DEF TypeOK
<1>5. Fresh' /\ Exclusive'
  BY <1>1, <1>2, <1>3 DEF Fresh, Exclusive, TypeOK
<1>6. AtHand'
  BY <1>2, <1>3 DEF AtHand
<1>7. Claimed'
  BY <1>1, <1>2, <1>3 DEF Claimed, index
<1>8. Pinned' /\ NeverRefitted'
  BY <1>1, <1>2, <1>3 DEF Pinned, NeverRefitted
<1>9. QED
  BY <1>4, <1>5, <1>6, <1>7, <1>8

\* So does returning: what is returned is not part of the invariant.
LEMMA ReturnKeeps ==
    ASSUME IInv, NEW c \in Callers, NEW result, Return(c, result)
    PROVE  IInv'
<1> USE DEF IInv
<1>1. /\ pc' = [pc EXCEPT ![c] = "idle"] /\ rows' = [rows EXCEPT ![c] = <<>>]
      /\ job' = [job EXCEPT ![c] = NoJob] /\ anchors' = [anchors EXCEPT ![c] = {}]
      /\ output' = [output EXCEPT ![c] = NoOutput]
      /\ lock' = IF lock = c THEN Nobody ELSE lock
      /\ UNCHANGED <<manifest, pending, round, calls, asked>>
  BY DEF Return, End, Goto, archive
<1>2. \A d \in Callers : d # c => pc'[d] = pc[d] /\ rows'[d] = rows[d]
                                  /\ job'[d] = job[d] /\ output'[d] = output[d]
                                  /\ anchors'[d] = anchors[d]
  BY <1>1 DEF TypeOK
<1>3. pc'[c] = "idle"
  BY <1>1 DEF TypeOK
<1>4. TypeOK'
  <2>1. \A d \in Callers : pc'[d] # "idle" => WithinRequest(d)'
    BY <1>2, <1>3 DEF TypeOK, WithinRequest, index
  <2>2. rows' \in [Callers -> Seq(Answers)] /\ pc' \in [Callers -> Labels]
    BY <1>1 DEF TypeOK
  <2>3. /\ lock' \in Callers \cup {Nobody} /\ job' \in [Callers -> Identities \cup {NoJob}]
        /\ anchors' \in [Callers -> SUBSET Items]
        /\ output' \in [Callers -> Outputs \cup {NoOutput}]
    BY <1>1 DEF TypeOK
  <2>4. QED
    BY <1>1, <2>1, <2>2, <2>3 DEF TypeOK
<1>5. Fresh' /\ Exclusive' /\ AtHand'
  BY <1>1, <1>2, <1>3 DEF Fresh, Exclusive, AtHand, TypeOK
<1>6. Claimed'
  BY <1>1, <1>2, <1>3 DEF Claimed, index
<1>7. Pinned' /\ NeverRefitted'
  BY <1>1, <1>2, <1>3 DEF Pinned, NeverRefitted
<1>8. QED
  BY <1>4, <1>5, <1>6, <1>7

\* A call begins.
LEMMA CallKeeps ==
    ASSUME IInv, NEW c \in Callers, Call(c)
    PROVE  IInv'
<1> USE DEF IInv
<1>1. PICK id \in Identities :
        /\ job' = [job EXCEPT ![c] = id]
        /\ anchors' = [anchors EXCEPT ![c] = id.request.anchor]
  BY DEF Call
<1>2. /\ pc[c] = "idle" /\ lock = Nobody /\ lock' = c /\ calls' = calls + 1
      /\ calls < MaxCalls /\ pc' = [pc EXCEPT ![c] = "manifest"]
      /\ UNCHANGED <<manifest, pending, round, rows, output, asked, results>>
  BY DEF Call, Goto, archive
<1>3. \A d \in Callers : d # c => pc[d] = "idle" /\ pc'[d] = "idle"
  BY <1>2, DistinctAssumption DEF Exclusive, TypeOK
<1>4. pc'[c] = "manifest" /\ job'[c] = id /\ anchors'[c] = id.request.anchor
  BY <1>1, <1>2 DEF TypeOK
<1>5. id.request.anchor \in Masks
  BY DEF Identities, Requests
<1>6. TypeOK'
  <2>1. WithinRequest(c)'
    <3>1. index(c)' = 1 /\ 1 \in Rounds
      BY <1>2, RoundsAssumption DEF index, Rounds, Fresh, TypeOK
    <3>2. id.request.max_rounds \in Rounds
      BY DEF Identities, Requests
    <3>3. QED
      BY <1>4, <3>1, <3>2 DEF WithinRequest, Rounds
  <2>2. calls' \in 0 .. MaxCalls
    BY <1>2, CallsAssumption DEF TypeOK
  <2>3. QED
    BY <1>1, <1>2, <1>3, <1>5, <2>1, <2>2 DEF TypeOK
<1>7. Fresh' /\ Exclusive' /\ AtHand'
  BY <1>2, <1>3, <1>4, <1>5 DEF Fresh, Exclusive, AtHand
<1>8. Claimed' /\ Pinned' /\ NeverRefitted'
  BY <1>2, <1>3, <1>4 DEF Claimed, Pinned, NeverRefitted, index
<1>9. QED
  BY <1>6, <1>7, <1>8

\* A call that only moves on keeps what does not depend on where it moves.
LEMMA MoveKeeps ==
    ASSUME IInv, NEW c \in Callers, NEW label \in Labels \ {"idle"},
           pc[c] # "idle", Goto(c, label),
           UNCHANGED <<lock, job, rows, anchors, calls>>
    PROVE  /\ pc' \in [Callers -> Labels] /\ pc'[c] = label
           /\ \A d \in Callers : d # c => pc'[d] = "idle"
           /\ \A d \in Callers : pc'[d] # "idle" => WithinRequest(d)'
           /\ lock = c /\ Fresh' /\ Exclusive'
<1> USE DEF IInv
<1>1. pc' \in [Callers -> Labels] /\ pc'[c] = label
  BY DEF Goto, TypeOK
<1>2. lock = c /\ \A d \in Callers : d # c => pc[d] = "idle" /\ pc'[d] = "idle"
  BY DEF Goto, TypeOK, Exclusive
<1>3. \A d \in Callers : pc'[d] # "idle" => WithinRequest(d)'
  BY <1>1, <1>2 DEF TypeOK, WithinRequest, index
<1>4. Fresh' /\ Exclusive'
  BY <1>1, <1>2 DEF Fresh, Exclusive
<1>5. QED
  BY <1>1, <1>2, <1>3, <1>4

\* The steps on the manifest.
LEMMA ManifestKeeps ==
    ASSUME IInv, NEW c \in Callers, CheckManifest(c) \/ WriteManifest(c)
    PROVE  IInv'
<1> USE DEF IInv
<1>1. CASE CheckManifest(c) /\ Raise(c)
  BY <1>1, RaiseKeeps
<1>2. CASE /\ pc[c] = "manifest" /\ manifest = job[c] /\ Goto(c, "round")
           /\ UNCHANGED <<archive, lock, job, rows, anchors, output, calls, asked, results>>
  <2>1. /\ pc' \in [Callers -> Labels] /\ pc'[c] = "round"
        /\ \A d \in Callers : d # c => pc'[d] = "idle"
        /\ \A d \in Callers : pc'[d] # "idle" => WithinRequest(d)'
        /\ Fresh' /\ Exclusive'
    BY <1>2, MoveKeeps
  <2>2. TypeOK'
    BY <1>2, <2>1 DEF TypeOK, archive
  <2>3. AtHand' /\ Claimed' /\ Pinned' /\ NeverRefitted'
    BY <1>2, <2>1 DEF AtHand, Claimed, Pinned, NeverRefitted, archive, index
  <2>4. QED
    BY <2>1, <2>2, <2>3
<1>3. CASE /\ pc[c] = "manifest" /\ manifest = Absent /\ manifest' = Partial
           /\ Goto(c, "write_manifest")
           /\ UNCHANGED <<lock, pending, round, job, rows, anchors, output, calls,
                          asked, results>>
  <2>1. /\ pc' \in [Callers -> Labels] /\ pc'[c] = "write_manifest"
        /\ \A d \in Callers : d # c => pc'[d] = "idle"
        /\ \A d \in Callers : pc'[d] # "idle" => WithinRequest(d)'
        /\ Fresh' /\ Exclusive'
    BY <1>3, MoveKeeps
  <2>2. TypeOK'
    BY <1>3, <2>1 DEF TypeOK
  <2>3. AtHand' /\ Claimed' /\ NeverRefitted'
    BY <1>3, <2>1 DEF AtHand, Claimed, NeverRefitted
  <2>4. Pinned'
    BY <1>3, <2>1, DistinctAssumption DEF Pinned
  <2>5. QED
    BY <2>1, <2>2, <2>3, <2>4
<1>4. CASE WriteManifest(c)
  <2>1. /\ pc' \in [Callers -> Labels] /\ pc'[c] = "round"
        /\ \A d \in Callers : d # c => pc'[d] = "idle"
        /\ \A d \in Callers : pc'[d] # "idle" => WithinRequest(d)'
        /\ Fresh' /\ Exclusive'
    BY <1>4, MoveKeeps DEF WriteManifest
  <2>2. TypeOK'
    BY <1>4, <2>1 DEF WriteManifest, TypeOK, AtHand
  <2>3. AtHand' /\ Claimed' /\ NeverRefitted'
    BY <1>4, <2>1 DEF WriteManifest, AtHand, Claimed, NeverRefitted
  <2>4. Pinned'
    BY <1>4, <2>1, DistinctAssumption DEF WriteManifest, Pinned
  <2>5. QED
    BY <2>1, <2>2, <2>3, <2>4
<1>5. QED
  BY <1>1, <1>2, <1>3, <1>4 DEF CheckManifest

\* Reading a round that is there.
LEMMA ReplayKeeps ==
    ASSUME IInv, NEW c \in Callers, Replay(c)
    PROVE  IInv'
<1> USE DEF IInv
<1>1. CASE Raise(c)
  BY <1>1, RaiseKeeps
<1>2. CASE ~Raise(c)
  <2>1. /\ pc[c] = "round" /\ round[index(c)] \notin {Absent, Partial}
        /\ output' = [output EXCEPT ![c] = round[index(c)].output]
        /\ Goto(c, "validate")
        /\ UNCHANGED <<lock, manifest, pending, round, job, rows, anchors, calls,
                       asked, results>>
    BY <1>2 DEF Replay, archive
  <2>2. /\ pc' \in [Callers -> Labels] /\ pc'[c] = "validate"
        /\ \A d \in Callers : d # c => pc'[d] = "idle"
        /\ \A d \in Callers : pc'[d] # "idle" => WithinRequest(d)'
        /\ Fresh' /\ Exclusive'
    BY <2>1, MoveKeeps
  <2>3. round[index(c)].output \in Outputs
    BY <2>1 DEF TypeOK, WithinRequest, Packets
  <2>4. TypeOK' /\ output'[c] \in Outputs
    BY <2>1, <2>2, <2>3 DEF TypeOK
  <2>5. AtHand' /\ Claimed' /\ Pinned' /\ NeverRefitted'
    BY <2>1, <2>2, <2>4 DEF AtHand, Claimed, Pinned, NeverRefitted
  <2>6. QED
    BY <2>2, <2>4, <2>5
<1>3. QED
  BY <1>1, <1>2

\* Claiming a round and having it fitted: the claim is what makes the fit the
\* only one.
LEMMA FitKeeps ==
    ASSUME IInv, NEW c \in Callers, Claim(c) \/ Dispatch(c) \/ Answer(c)
    PROVE  IInv'
<1> USE DEF IInv
<1>1. CASE Claim(c)
  <2>1. /\ pc' \in [Callers -> Labels] /\ pc'[c] = "dispatch"
        /\ \A d \in Callers : d # c => pc'[d] = "idle"
        /\ \A d \in Callers : pc'[d] # "idle" => WithinRequest(d)'
        /\ Fresh' /\ Exclusive'
    BY <1>1, MoveKeeps DEF Claim
  <2>2. index(c) \in Rounds /\ index(c)' = index(c)
    BY <1>1 DEF Claim, TypeOK, WithinRequest, index
  <2>3. TypeOK'
    BY <1>1, <2>1, <2>2 DEF Claim, TypeOK
  <2>4. AtHand' /\ Pinned' /\ NeverRefitted'
    BY <1>1, <2>1 DEF Claim, AtHand, Pinned, NeverRefitted
  <2>5. Claimed'
    BY <1>1, <2>1, <2>2 DEF Claim, Claimed
  <2>6. QED
    BY <2>1, <2>3, <2>4, <2>5
<1>2. CASE Dispatch(c)
  <2> DEFINE i == index(c)
             fit == [job |-> job[c], anchor |-> anchors[c]]
  <2>1. /\ pc' \in [Callers -> Labels] /\ pc'[c] = "fit"
        /\ \A d \in Callers : d # c => pc'[d] = "idle"
        /\ \A d \in Callers : pc'[d] # "idle" => WithinRequest(d)'
        /\ Fresh' /\ Exclusive'
    BY <1>2, MoveKeeps DEF Dispatch
  <2>2. /\ i \in Rounds /\ i \in pending /\ asked[i] = <<>>
        /\ fit \in [job : Identities, anchor : SUBSET Items]
        /\ manifest = job[c] /\ manifest \in Identities
    BY <1>2 DEF Dispatch, TypeOK, WithinRequest, AtHand, Claimed, Pinned
  <2>3. asked' = [asked EXCEPT ![i] = Append(@, fit)] /\ fit.job = job[c]
    BY <1>2 DEF Dispatch
  <2> HIDE DEF i, fit
  <2> DEFINE Fits == [job : Identities, anchor : SUBSET Items]
             once == Append(asked[i], fit)
  <2>4. once \in Seq(Fits) /\ Len(once) = 1 /\ once[1] = fit
    BY <2>2
  <2> HIDE DEF once
  <2>5. /\ asked' \in [Rounds -> Seq(Fits)] /\ asked'[i] = once
        /\ \A j \in Rounds : j # i => asked'[j] = asked[j]
    BY <2>2, <2>3, <2>4 DEF TypeOK, once
  <2>6. TypeOK'
    BY <1>2, <2>1, <2>5 DEF Dispatch, TypeOK, archive
  <2>7. AtHand' /\ Claimed' /\ NeverRefitted'
    BY <1>2, <2>1, <2>2, <2>4, <2>5 DEF Dispatch, AtHand, Claimed, NeverRefitted, archive
  <2>8. \A j \in Rounds : \A n \in 1 .. Len(asked'[j]) : asked'[j][n].job = manifest
    <3> SUFFICES ASSUME NEW j \in Rounds, NEW n \in 1 .. Len(asked'[j])
                 PROVE  asked'[j][n].job = manifest
      OBVIOUS
    <3>1. CASE j = i
      BY <3>1, <2>2, <2>3, <2>4, <2>5
    <3>2. CASE j # i
      BY <3>2, <2>5 DEF Pinned
    <3>3. QED
      BY <3>1, <3>2
  <2>9. Pinned'
    BY <1>2, <2>1, <2>2, <2>8 DEF Dispatch, Pinned, archive
  <2>10. QED
    BY <2>1, <2>6, <2>7, <2>9
<1>3. CASE Answer(c)
  <2>1. /\ pc' \in [Callers -> Labels] /\ pc'[c] = "create"
        /\ \A d \in Callers : d # c => pc'[d] = "idle"
        /\ \A d \in Callers : pc'[d] # "idle" => WithinRequest(d)'
        /\ Fresh' /\ Exclusive'
    BY <1>3, MoveKeeps DEF Answer
  <2>2. TypeOK' /\ output'[c] \in Outputs
    BY <1>3, <2>1 DEF Answer, TypeOK, archive
  <2>3. AtHand' /\ Claimed' /\ Pinned' /\ NeverRefitted'
    BY <1>3, <2>1, <2>2 DEF Answer, AtHand, Claimed, Pinned, NeverRefitted, archive
  <2>4. QED
    BY <2>1, <2>2, <2>3
<1>4. QED
  BY <1>1, <1>2, <1>3
\* Creating a round's file and writing it.
LEMMA SaveKeeps ==
    ASSUME IInv, NEW c \in Callers, CreateRound(c) \/ WriteRound(c)
    PROVE  IInv'
<1> USE DEF IInv
<1>1. index(c) \in Rounds /\ output[c] \in Outputs
  BY DEF CreateRound, WriteRound, TypeOK, WithinRequest, AtHand
<1>2. CASE CreateRound(c)
  <2>1. /\ pc' \in [Callers -> Labels] /\ pc'[c] = "write"
        /\ \A d \in Callers : d # c => pc'[d] = "idle"
        /\ \A d \in Callers : pc'[d] # "idle" => WithinRequest(d)'
        /\ Fresh' /\ Exclusive'
    BY <1>2, MoveKeeps DEF CreateRound
  <2>2. TypeOK'
    BY <1>1, <1>2, <2>1 DEF CreateRound, TypeOK
  <2>3. AtHand' /\ Claimed' /\ Pinned' /\ NeverRefitted'
    BY <1>1, <1>2, <2>1 DEF CreateRound, AtHand, Claimed, Pinned, NeverRefitted
  <2>4. QED
    BY <2>1, <2>2, <2>3
<1>3. CASE WriteRound(c)
  <2>1. /\ pc' \in [Callers -> Labels] /\ pc'[c] = "validate"
        /\ \A d \in Callers : d # c => pc'[d] = "idle"
        /\ \A d \in Callers : pc'[d] # "idle" => WithinRequest(d)'
        /\ Fresh' /\ Exclusive'
    BY <1>3, MoveKeeps DEF WriteRound
  <2>2. [output |-> output[c], sha256 |-> output[c]] \in Packets
    BY <1>1 DEF Packets
  <2>3. TypeOK'
    BY <1>1, <1>3, <2>1, <2>2 DEF WriteRound, TypeOK
  <2>4. AtHand' /\ Claimed' /\ Pinned' /\ NeverRefitted'
    BY <1>1, <1>3, <2>1 DEF WriteRound, AtHand, Claimed, Pinned, NeverRefitted
  <2>5. QED
    BY <2>1, <2>3, <2>4
<1>4. QED
  BY <1>2, <1>3

\* Accepting a round goes on only while the request allows another.
LEMMA AcceptKeeps ==
    ASSUME IInv, NEW c \in Callers, Accept(c)
    PROVE  IInv'
<1> USE DEF IInv
<1> DEFINE o == output[c]
<1>1. CASE /\ pc[c] = "validate" /\ Valid(o, anchors[c])
           /\ o.status = "retest_all" /\ RoundsLeft(c)
           /\ rows' = [rows EXCEPT ![c] = Append(@, o)]
           /\ anchors' = [anchors EXCEPT ![c] = After(o, anchors[c])]
           /\ output' = [output EXCEPT ![c] = NoOutput]
           /\ Goto(c, "round")
           /\ UNCHANGED <<lock, archive, job, calls, asked, results>>
  <2>1. /\ o \in Answers /\ o.complete /\ o.removed \in anchors[c]
        /\ anchors[c] # {o.removed} /\ anchors[c] \in Masks
    <3>1. o \in Answers /\ anchors[c] \in Masks
      BY <1>1 DEF AtHand, Outputs, Valid
    <3>2. QED
      BY <1>1, <3>1 DEF Valid
  <2>2. After(o, anchors[c]) \in Masks
    BY <2>1 DEF After
  <2>3. job[c].request.max_rounds \in Rounds
    BY <1>1 DEF AtHand, Identities, Requests
  <2>4. /\ rows' \in [Callers -> Seq(Answers)] /\ rows'[c] = Append(rows[c], o)
        /\ \A d \in Callers : d # c => rows'[d] = rows[d]
    BY <1>1, <2>1 DEF TypeOK
  <2>5. Len(rows'[c]) = Len(rows[c]) + 1 /\ Len(rows[c]) \in Nat
    BY <2>1, <2>4 DEF TypeOK
  <2>6. WithinRequest(c)'
    BY <1>1, <2>3, <2>5, RoundsAssumption DEF RoundsLeft, WithinRequest, index, Rounds
  <2>7. /\ pc' \in [Callers -> Labels] /\ pc'[c] = "round" /\ lock = c
        /\ \A d \in Callers : d # c => pc[d] = "idle" /\ pc'[d] = "idle"
    BY <1>1 DEF Goto, TypeOK, Exclusive
  <2>8. TypeOK'
    BY <1>1, <2>2, <2>4, <2>6, <2>7 DEF TypeOK, archive
  <2>9. Fresh' /\ Exclusive' /\ AtHand'
    BY <1>1, <2>2, <2>4, <2>7 DEF Fresh, Exclusive, AtHand, TypeOK
  <2>10. Claimed' /\ Pinned' /\ NeverRefitted'
    BY <1>1, <2>7 DEF Claimed, Pinned, NeverRefitted, archive
  <2>11. QED
    BY <2>8, <2>9, <2>10
<1>2. CASE \E r : Return(c, r)
  BY <1>2, ReturnKeeps
<1>3. QED
  BY <1>1, <1>2 DEF Accept

\* Damage to a round's file.
LEMMA DamageKeeps ==
    ASSUME IInv, NEW i \in Rounds, Damage(i)
    PROVE  IInv'
<1> USE DEF IInv
<1>1. PICK file \in {Partial, [round[i] EXCEPT !.output = Malformed]} :
        round' = [round EXCEPT ![i] = file]
  BY DEF Damage
<1>2. file \in Packets \cup {Partial}
  BY DEF Damage, Packets, Outputs
<1>3. TypeOK'
  BY <1>1, <1>2 DEF Damage, TypeOK, WithinRequest, index
<1>4. Fresh' /\ Exclusive' /\ AtHand' /\ Claimed' /\ Pinned' /\ NeverRefitted'
  BY DEF Damage, Fresh, Exclusive, AtHand, Claimed, Pinned, NeverRefitted, index
<1>5. QED
  BY <1>3, <1>4

-----------------------------------------------------------------------------

\* Every step of a call, a crash and damage keep the invariant.
LEMMA StepKeeps == IInv /\ [Next]_vars => IInv'
<1> SUFFICES ASSUME IInv, [Next]_vars PROVE IInv'
  OBVIOUS
<1>1. CASE UNCHANGED vars
  BY <1>1 DEF vars, archive, IInv, TypeOK, Fresh, Exclusive, AtHand, Claimed, Pinned,
              NeverRefitted, WithinRequest, index
<1>2. ASSUME NEW c \in Callers, Call(c) PROVE IInv'
  BY <1>2, CallKeeps
<1>3. ASSUME NEW c \in Callers, Proceed(c) PROVE IInv'
  <2>1. CASE CheckManifest(c) \/ WriteManifest(c)
    BY <2>1, ManifestKeeps
  <2>2. CASE Replay(c)
    BY <2>2, ReplayKeeps
  <2>3. CASE Unsettled(c)
    BY <2>3, RaiseKeeps DEF Unsettled
  <2>4. CASE Claim(c) \/ Dispatch(c) \/ Answer(c)
    BY <2>4, FitKeeps
  <2>5. CASE CreateRound(c) \/ WriteRound(c)
    BY <2>5, SaveKeeps
  <2>6. CASE Reject(c)
    BY <2>6, ReturnKeeps DEF Reject
  <2>7. CASE Accept(c)
    BY <2>7, AcceptKeeps
  <2>8. QED
    BY <1>3, <2>1, <2>2, <2>3, <2>4, <2>5, <2>6, <2>7 DEF Proceed
<1>4. ASSUME NEW c \in Callers, Crash(c) PROVE IInv'
  BY <1>4, RaiseKeeps DEF Crash
<1>5. ASSUME NEW i \in Rounds, Damage(i) PROVE IInv'
  BY <1>5, DamageKeeps
<1>6. QED
  BY <1>1, <1>2, <1>3, <1>4, <1>5 DEF Next

\* Who may touch the archive, and what is claimed, fitted and pinned in it, in
\* every state.
THEOREM ArchiveInvariant == Spec => []IInv
<1>1. QED
  BY InitEstablishes, StepKeeps, PTL DEF Spec

\* The archive and every call keep their shape.
THEOREM ControllerTypes == Spec => []TypeOK
<1>1. IInv => TypeOK
  BY DEF IInv
<1>2. QED
  BY <1>1, ArchiveInvariant, PTL

\* No round is fitted twice, whatever crashes or overlaps.
THEOREM RoundsFittedOnce == Spec => []NeverRefitted
<1>1. IInv => NeverRefitted
  BY DEF IInv
<1>2. QED
  BY <1>1, ArchiveInvariant, PTL

\* All the fits of an archive were made for the job its manifest names.
THEOREM OneJobPerArchive == Spec => []OneRequestPerArchive
<1>1. IInv => OneRequestPerArchive
  BY DEF IInv, Pinned, OneRequestPerArchive
<1>2. QED
  BY <1>1, ArchiveInvariant, PTL

-----------------------------------------------------------------------------
(* What an archive answers.  The outputs a call has accepted, and the one it *)
(* ended with, are its trail.  Once a call has returned, every later one is  *)
(* on its trail: the rounds of it are claimed, so nothing is fitted anew,    *)
(* and what their files still hold under the right digest is what it was.    *)

\* The anchors a trail leaves for round j.
MaskAt(id, trail, j) == id.request.anchor \ {trail[i].removed : i \in 1 .. j - 1}

\* A call does not end with round j of the trail.
GoesOn(id, trail, j) ==
    /\ Valid(trail[j], MaskAt(id, trail, j))
    /\ trail[j].status = "retest_all" /\ j < id.request.max_rounds

\* What a call returns that ends with the last output of the trail.
Outcome(id, trail) ==
    LET n == Len(trail)
        mask == MaskAt(id, trail, n)
    IN  IF Valid(trail[n], mask)
        THEN [job |-> id, status |-> FinalStatus(trail[n]), rounds |-> trail,
              final_anchor |-> After(trail[n], mask), failed_output |-> NoOutput]
        ELSE [job |-> id, status |-> "native_contract_failed",
              rounds |-> [i \in 1 .. n - 1 |-> trail[i]],
              final_anchor |-> mask, failed_output |-> trail[n]]

\* The file of round i, unless it is damaged, has the digest of this output.
Kept(i, o) == i \in pending /\ (round[i] \in Packets => round[i].sha256 = o)

Fitting == {"dispatch", "fit", "create", "write"}

OnTrail(c) ==
    pc[c] # "idle" =>
        /\ \A j \in 1 .. Len(rows[c]) : GoesOn(job[c], rows[c], j)
        /\ anchors[c] = MaskAt(job[c], rows[c], index(c))
        /\ \A i \in 1 .. Len(rows[c]) : Kept(i, rows[c][i])
        /\ pc[c] \in {"manifest", "write_manifest"} => Len(rows[c]) = 0
        /\ pc[c] \in Fitting => index(c) \in pending
        /\ pc[c] = "validate" => Kept(index(c), output[c])

Follows(c, trail) ==
    pc[c] # "idle" =>
        /\ pc[c] \notin Fitting
        /\ Len(rows[c]) < Len(trail) /\ \A j \in 1 .. Len(rows[c]) : rows[c][j] = trail[j]
        /\ pc[c] = "validate" => output[c] = trail[index(c)]

Decided(trail) ==
    /\ trail \in Seq(Outputs) /\ Len(trail) > 0 /\ manifest \in Identities
    /\ results = {Outcome(manifest, trail)}
    /\ \A j \in 1 .. Len(trail) - 1 : GoesOn(manifest, trail, j)
    /\ ~GoesOn(manifest, trail, Len(trail))
    /\ \A i \in 1 .. Len(trail) : Kept(i, trail[i])
    /\ \A c \in Callers : Follows(c, trail)

RoundsAreClaimed == \A i \in Rounds : round[i] # Absent => i \in pending

TrailInv ==
    /\ RoundsAreClaimed
    /\ \A c \in Callers : OnTrail(c)
    /\ results # {} => \E trail : Decided(trail)

\* An empty archive has no trail to contradict.
LEMMA TrailBegins == Init => TrailInv
<1> SUFFICES ASSUME Init PROVE TrailInv
  OBVIOUS
<1>1. (\A c \in Callers : pc[c] = "idle") /\ results = {} /\ \A i \in Rounds : round[i] = Absent
  BY DEF Init
<1>2. QED
  BY <1>1 DEF TrailInv, RoundsAreClaimed, OnTrail

\* Trails that agree up to a round agree on it.
LEMMA SameTrail ==
    ASSUME NEW id, NEW left, NEW right, NEW n \in Nat,
           \A i \in 1 .. n : left[i] = right[i]
    PROVE  /\ \A j \in 1 .. n + 1 : MaskAt(id, left, j) = MaskAt(id, right, j)
           /\ \A j \in 1 .. n : GoesOn(id, left, j) <=> GoesOn(id, right, j)
<1>1. ASSUME NEW j \in 1 .. n + 1 PROVE MaskAt(id, left, j) = MaskAt(id, right, j)
  <2>1. \A i \in 1 .. j - 1 : left[i] = right[i]
    OBVIOUS
  <2>2. {left[i].removed : i \in 1 .. j - 1} = {right[i].removed : i \in 1 .. j - 1}
    BY <2>1
  <2>3. QED
    BY <2>2 DEF MaskAt
<1>2. ASSUME NEW j \in 1 .. n PROVE GoesOn(id, left, j) <=> GoesOn(id, right, j)
  <2>1. MaskAt(id, left, j) = MaskAt(id, right, j) /\ left[j] = right[j]
    BY <1>1
  <2>2. QED
    BY <2>1 DEF GoesOn
<1>3. QED
  BY <1>1, <1>2

\* Going on takes the removed anchor out of the mask.
LEMMA MaskAfter ==
    ASSUME NEW id, NEW trail \in Seq(Outputs), NEW o \in Outputs
    PROVE  MaskAt(id, Append(trail, o), Len(trail) + 2)
               = After(o, MaskAt(id, trail, Len(trail) + 1))
<1> DEFINE longer == Append(trail, o)
           n == Len(trail)
<1>1. n \in Nat /\ longer[n + 1] = o /\ \A i \in 1 .. n : longer[i] = trail[i]
  OBVIOUS
<1> HIDE DEF longer, n
<1>2. {longer[i].removed : i \in 1 .. n + 1} = {trail[i].removed : i \in 1 .. n} \cup {o.removed}
  <2>1. 1 .. n + 1 = (1 .. n) \cup {n + 1}
    BY <1>1
  <2>2. QED
    BY <1>1, <2>1
<1>3. (n + 2) - 1 = n + 1 /\ (n + 1) - 1 = n
  BY <1>1
<1>4. MaskAt(id, longer, n + 2) = After(o, MaskAt(id, trail, n + 1))
  BY <1>2, <1>3 DEF MaskAt, After
<1>5. QED
  BY <1>4 DEF longer, n

-----------------------------------------------------------------------------
(* Every step stays on the trail *)

\* A step within a call that neither extends its rows nor forgets what is kept.
LEMMA TrailMoves ==
    ASSUME IInv, TrailInv, NEW c \in Callers, NEW label \in Labels \ {"idle"},
           pc[c] # "idle", Goto(c, label), UNCHANGED <<job, rows, anchors, results>>,
           manifest' = manifest \/ results = {},
           \A i \in pending : \A o : (i # index(c) \/ results # {}) /\ Kept(i, o) => Kept(i, o)',
           RoundsAreClaimed',
           label \in {"manifest", "write_manifest"} => Len(rows[c]) = 0,
           label \in Fitting => index(c) \in pending',
           label = "validate" => Kept(index(c), output[c])',
           results # {} => label \notin Fitting,
           \A trail : Decided(trail) /\ label = "validate" => output'[c] = trail[index(c)]
    PROVE  TrailInv'
<1>1. /\ pc'[c] = label /\ \A d \in Callers : d # c => pc'[d] = "idle"
      /\ rows[c] \in Seq(Answers) /\ index(c) = Len(rows[c]) + 1 /\ Len(rows[c]) \in Nat
  BY DEF IInv, TypeOK, Exclusive, Goto, index
<1>2. index(c)' = index(c)
  BY DEF index
<1>3. OnTrail(c)'
  <2>1. /\ \A j \in 1 .. Len(rows[c]) : GoesOn(job[c], rows[c], j)
        /\ anchors[c] = MaskAt(job[c], rows[c], index(c))
        /\ \A i \in 1 .. Len(rows[c]) : Kept(i, rows[c][i])
    BY DEF TrailInv, OnTrail
  <2>2. ASSUME NEW i \in 1 .. Len(rows[c]) PROVE Kept(i, rows[c][i])'
    <3>1. i \in pending /\ i # index(c) /\ Kept(i, rows[c][i])
      BY <1>1, <2>1 DEF Kept
    <3>2. \A o : Kept(i, o) => Kept(i, o)'
      BY <3>1
    <3>3. Kept(i, rows[c][i]) => Kept(i, rows[c][i])'
      BY <3>2 DEF Kept
    <3>4. QED
      BY <3>1, <3>3
  <2>3. (\A j \in 1 .. Len(rows[c]) : GoesOn(job[c], rows[c], j))'
    BY <2>1 DEF GoesOn, MaskAt, Valid
  <2>4. (anchors[c] = MaskAt(job[c], rows[c], index(c)))'
    BY <1>2, <2>1 DEF MaskAt
  <2>5. QED
    BY <1>1, <1>2, <2>2, <2>3, <2>4 DEF OnTrail
<1>4. \A d \in Callers : OnTrail(d)'
  BY <1>1, <1>3 DEF OnTrail
<1>5. ASSUME results # {} PROVE (\E trail : Decided(trail))'
  <2>1. PICK trail : Decided(trail)
    BY <1>5 DEF TrailInv
  <2>2. manifest' = manifest
    BY <1>5
  <2>3. ASSUME NEW i \in 1 .. Len(trail) PROVE Kept(i, trail[i])'
    <3>1. i \in pending /\ Kept(i, trail[i])
      BY <2>1 DEF Decided, Kept
    <3>2. \A o : Kept(i, o) => Kept(i, o)'
      BY <1>5, <3>1
    <3>3. QED
      BY <3>1, <3>2
  <2>4. Follows(c, trail)'
    <3>1. Follows(c, trail)
      BY <2>1 DEF Decided
    <3>2. label = "validate" => output'[c] = trail[index(c)]
      BY <2>1
    <3>3. QED
      BY <1>1, <1>2, <1>5, <3>1, <3>2 DEF Follows
  <2>5. \A d \in Callers : Follows(d, trail)'
    BY <1>1, <2>4 DEF Follows
  <2>6. Decided(trail)'
    BY <2>1, <2>2, <2>3, <2>5 DEF Decided, Outcome, GoesOn, MaskAt
  <2>7. QED
    BY <2>6
<1>6. QED
  BY <1>4, <1>5 DEF TrailInv

\* A call that raises, or dies, leaves the archive as it is.
LEMMA TrailRaise ==
    ASSUME IInv, TrailInv, NEW c \in Callers, Raise(c)
    PROVE  TrailInv'
<1>1. /\ pc' = [pc EXCEPT ![c] = "idle"]
      /\ UNCHANGED <<manifest, pending, round, results>>
      /\ \A d \in Callers : d # c => /\ pc'[d] = pc[d] /\ rows'[d] = rows[d] /\ job'[d] = job[d]
                                     /\ output'[d] = output[d] /\ anchors'[d] = anchors[d]
  BY DEF Raise, End, Goto, archive, IInv, TypeOK
<1>2. pc'[c] = "idle"
  BY <1>1 DEF IInv, TypeOK
<1>3. RoundsAreClaimed'
  BY <1>1 DEF TrailInv, RoundsAreClaimed
<1>4. ASSUME NEW d \in Callers PROVE OnTrail(d)'
  <2>1. CASE d = c
    BY <1>2, <2>1 DEF OnTrail
  <2>2. CASE d # c
    <3>1. SUFFICES ASSUME pc[d] # "idle" PROVE OnTrail(d)'
      BY <1>1, <2>2 DEF OnTrail
    <3>2. OnTrail(d) /\ index(d)' = index(d)
      BY <1>1, <2>2 DEF TrailInv, index
    <3>3. (\A j \in 1 .. Len(rows[d]) : GoesOn(job[d], rows[d], j))'
      <4>1. \A j \in 1 .. Len(rows[d]) : GoesOn(job[d], rows[d], j)
        BY <1>1, <2>2, <3>1, <3>2 DEF OnTrail
      <4>2. job'[d] = job[d] /\ rows'[d] = rows[d]
        BY <1>1, <2>2
      <4>3. QED
        BY <4>1, <4>2
    <3>4. (anchors[d] = MaskAt(job[d], rows[d], index(d)))'
      BY <1>1, <2>2, <3>1, <3>2 DEF OnTrail, MaskAt
    <3>5. \A i, o : Kept(i, o)' <=> Kept(i, o)
      BY <1>1 DEF Kept
    <3>6. (\A i \in 1 .. Len(rows[d]) : Kept(i, rows[d][i]))'
      BY <1>1, <2>2, <3>1, <3>2, <3>5 DEF OnTrail, Kept
    <3>7. (pc[d] = "validate" => Kept(index(d), output[d]))'
      BY <1>1, <2>2, <3>1, <3>2 DEF OnTrail, Kept
    <3>8. QED
      BY <1>1, <2>2, <3>1, <3>2, <3>3, <3>4, <3>6, <3>7 DEF OnTrail
  <2>3. QED
    BY <2>1, <2>2
<1>5. ASSUME NEW trail, Decided(trail) PROVE Decided(trail)'
  <2>1. \A d \in Callers : Follows(d, trail)'
    BY <1>1, <1>2, <1>5 DEF Decided, Follows, index
  <2>2. QED
    BY <1>1, <1>5, <2>1 DEF Decided, Outcome, GoesOn, MaskAt, Kept
<1>6. QED
  BY <1>1, <1>3, <1>4, <1>5 DEF TrailInv

\* A call starts from the mask of its job.
LEMMA TrailCall ==
    ASSUME IInv, TrailInv, NEW c \in Callers, Call(c)
    PROVE  TrailInv'
<1>1. PICK id \in Identities :
        /\ job' = [job EXCEPT ![c] = id]
        /\ anchors' = [anchors EXCEPT ![c] = id.request.anchor]
  BY DEF Call
<1>2. /\ pc[c] = "idle" /\ pc' = [pc EXCEPT ![c] = "manifest"] /\ lock = Nobody
      /\ UNCHANGED <<manifest, pending, round, rows, output, results>>
  BY DEF Call, Goto, archive
<1>3. /\ \A d \in Callers : d # c => pc'[d] = "idle"
      /\ pc'[c] = "manifest" /\ job'[c] = id /\ anchors'[c] = id.request.anchor
      /\ Len(rows[c]) = 0 /\ index(c)' = 1
  BY <1>1, <1>2, DistinctAssumption DEF IInv, Exclusive, TypeOK, Fresh, index
<1>4. MaskAt(id, rows[c], 1) = id.request.anchor
  BY DEF MaskAt
<1>5. \A d \in Callers : OnTrail(d)'
  BY <1>2, <1>3, <1>4 DEF OnTrail, Fitting, MaskAt
<1>6. ASSUME NEW trail, Decided(trail) PROVE Decided(trail)'
  <2>1. \A d \in Callers : Follows(d, trail)'
    BY <1>2, <1>3, <1>6 DEF Decided, Follows, Fitting
  <2>2. QED
    BY <1>2, <1>6, <2>1 DEF Decided, Outcome, GoesOn, MaskAt, Kept
<1>7. QED
  BY <1>2, <1>5, <1>6 DEF TrailInv, RoundsAreClaimed

\* The manifest is read or written before any round.
LEMMA TrailManifest ==
    ASSUME IInv, TrailInv, NEW c \in Callers, CheckManifest(c) \/ WriteManifest(c)
    PROVE  TrailInv'
<1>1. CASE CheckManifest(c) /\ Raise(c)
  BY <1>1, TrailRaise
<1>2. CASE /\ pc[c] \in {"manifest", "write_manifest"} /\ Goto(c, "round")
           /\ manifest' = manifest \/ pc[c] = "write_manifest"
           /\ UNCHANGED <<pending, round, job, rows, anchors, output, results>>
  <2>1. manifest' = manifest \/ results = {}
    <3>1. pc[c] = "write_manifest" => manifest = Partial
      BY DEF IInv, Pinned
    <3>2. results # {} => manifest \in Identities
      BY DEF TrailInv, Decided
    <3>3. QED
      BY <1>2, <3>1, <3>2, DistinctAssumption
  <2>2. \A i \in pending : \A o : Kept(i, o) => Kept(i, o)'
    BY <1>2 DEF Kept
  <2>3. RoundsAreClaimed'
    BY <1>2 DEF TrailInv, RoundsAreClaimed
  <2>4. QED
    BY <1>2, <2>1, <2>2, <2>3, TrailMoves DEF Fitting
<1>3. CASE /\ pc[c] = "manifest" /\ manifest = Absent /\ Goto(c, "write_manifest")
           /\ UNCHANGED <<pending, round, job, rows, anchors, output, results>>
  <2>1. results = {}
    BY <1>3, DistinctAssumption DEF TrailInv, Decided
  <2>2. Len(rows[c]) = 0
    BY <1>3 DEF TrailInv, OnTrail
  <2>3. RoundsAreClaimed' /\ \A i \in pending : \A o : Kept(i, o) => Kept(i, o)'
    BY <1>3 DEF TrailInv, RoundsAreClaimed, Kept
  <2>4. QED
    BY <1>3, <2>1, <2>2, <2>3, TrailMoves DEF Fitting
<1>4. QED
  BY <1>1, <1>2, <1>3 DEF CheckManifest, WriteManifest, archive

\* What is replayed is what the trail says of the round.
LEMMA TrailReplay ==
    ASSUME IInv, TrailInv, NEW c \in Callers, Replay(c)
    PROVE  TrailInv'
<1>1. CASE Raise(c)
  BY <1>1, TrailRaise
<1>2. CASE ~Raise(c)
  <2> DEFINE packet == round[index(c)]
  <2>1. /\ pc[c] = "round" /\ packet # Absent /\ packet # Partial
        /\ packet.sha256 = packet.output
        /\ output' = [output EXCEPT ![c] = packet.output] /\ Goto(c, "validate")
        /\ UNCHANGED <<manifest, pending, round, job, rows, anchors, results>>
    BY <1>2 DEF Replay, archive
  <2>2. index(c) \in Rounds /\ packet \in Packets /\ index(c) \in pending
    <3>1. index(c) \in Rounds
      BY <2>1 DEF IInv, TypeOK, WithinRequest
    <3>2. QED
      BY <2>1, <3>1 DEF IInv, TypeOK, TrailInv, RoundsAreClaimed
  <2>3. output'[c] = packet.sha256
    BY <2>1 DEF IInv, TypeOK
  <2>4. Kept(index(c), output[c])'
    BY <2>1, <2>2, <2>3 DEF Kept, index
  <2>5. ASSUME NEW trail, Decided(trail) PROVE output'[c] = trail[index(c)]
    <3>1. Len(rows[c]) < Len(trail) /\ Len(rows[c]) \in Nat /\ Len(trail) \in Nat
      BY <2>1, <2>5 DEF Decided, Follows, IInv, TypeOK
    <3>2. index(c) \in 1 .. Len(trail)
      BY <3>1 DEF index
    <3>3. Kept(index(c), trail[index(c)])
      BY <2>5, <3>2 DEF Decided
    <3>4. QED
      BY <2>2, <2>3, <3>3 DEF Kept
  <2>6. RoundsAreClaimed' /\ \A i \in pending : \A o : Kept(i, o) => Kept(i, o)'
    BY <2>1 DEF TrailInv, RoundsAreClaimed, Kept
  <2>7. QED
    BY <2>1, <2>4, <2>5, <2>6, TrailMoves DEF Fitting
<1>3. QED
  BY <1>1, <1>2

\* Once there is a trail, a call on it has no round to claim, so none is fitted.
LEMMA TrailFit ==
    ASSUME IInv, TrailInv, NEW c \in Callers,
           Claim(c) \/ Dispatch(c) \/ Answer(c) \/ CreateRound(c) \/ WriteRound(c)
    PROVE  TrailInv'
<1> DEFINE i == index(c)
<1>1. /\ pc[c] \in {"round"} \cup Fitting
      /\ pc[c] = "round" => Claim(c) /\ i \notin pending
      /\ UNCHANGED <<manifest, job, rows, anchors, results>>
  BY DEF Claim, Dispatch, Answer, CreateRound, WriteRound, Fitting, archive
<1>2. results = {}
  <2>1. ASSUME NEW trail, Decided(trail) PROVE FALSE
    <3>1. Follows(c, trail) /\ pc[c] = "round"
      BY <1>1, <2>1 DEF Decided, Follows, Fitting
    <3>2. Len(rows[c]) < Len(trail) /\ Len(rows[c]) \in Nat /\ Len(trail) \in Nat
      BY <2>1, <3>1 DEF Decided, Follows, IInv, TypeOK
    <3>3. i \in 1 .. Len(trail)
      BY <3>2 DEF index
    <3>4. Kept(i, trail[i])
      BY <2>1, <3>3 DEF Decided
    <3>5. QED
      BY <1>1, <3>1, <3>4 DEF Kept
  <2>2. QED
    BY <2>1 DEF TrailInv
<1>3. i \in Rounds /\ (pc[c] \in Fitting => i \in pending)
  BY <1>1 DEF IInv, TypeOK, WithinRequest, TrailInv, OnTrail, Fitting
<1>4. ASSUME NEW label \in {"dispatch", "fit", "create", "write", "validate"}, Goto(c, label),
             i \in pending', pending \subseteq pending',
             \A j \in Rounds : j # i => round'[j] = round[j],
             round' # round => round'[i] # Absent,
             label = "validate" => Kept(i, output[c])'
      PROVE  TrailInv'
  <2>1. RoundsAreClaimed'
    BY <1>3, <1>4 DEF TrailInv, RoundsAreClaimed
  <2>2. \A j \in pending : \A o : j # i /\ Kept(j, o) => Kept(j, o)'
    BY <1>4 DEF Kept, IInv, TypeOK
  <2>3. label \in Labels \ {"idle"} /\ label \notin {"manifest", "write_manifest"} /\ pc[c] # "idle"
    BY <1>1, <1>4 DEF Fitting
  <2>4. \A trail : ~Decided(trail)
    BY <1>2 DEF Decided
  <2> HIDE DEF Labels
  <2>5. QED
    BY <1>1, <1>2, <1>4, <2>1, <2>2, <2>3, <2>4, TrailMoves
<1>5. CASE Claim(c)
  BY <1>3, <1>4, <1>5 DEF Claim
<1>6. CASE Dispatch(c) \/ Answer(c)
  BY <1>3, <1>4, <1>6 DEF Dispatch, Answer, archive, Fitting
<1>7. CASE CreateRound(c)
  BY <1>3, <1>4, <1>7, DistinctAssumption DEF CreateRound, IInv, TypeOK, Fitting
<1>8. CASE WriteRound(c)
  <2>1. /\ round' = [round EXCEPT ![i] = [output |-> output[c], sha256 |-> output[c]]]
        /\ output[c] \in Outputs /\ i \in pending /\ pending' = pending /\ output' = output
        /\ Goto(c, "validate")
    BY <1>3, <1>8 DEF WriteRound, IInv, AtHand, Fitting
  <2>2. /\ round'[i] = [output |-> output[c], sha256 |-> output[c]]
        /\ \A j \in Rounds : j # i => round'[j] = round[j]
    BY <1>3, <2>1 DEF IInv, TypeOK
  <2>3. round'[i] # Absent
    BY <2>1, <2>2, DistinctAssumption DEF Packets
  <2>4. Kept(i, output[c])'
    <3>1. index(c)' = index(c)
      BY <1>1 DEF index
    <3>2. QED
      BY <2>1, <2>2, <3>1 DEF Kept
  <2>5. QED
    BY <1>4, <2>1, <2>2, <2>3, <2>4
<1>9. QED
  BY <1>5, <1>6, <1>7, <1>8

\* A call that judges an output goes on, or ends with the outcome of its trail.
LEMMA JudgeOutcome ==
    ASSUME IInv, TrailInv, NEW c \in Callers, Reject(c) \/ Accept(c)
    PROVE  LET trail == Append(rows[c], output[c]) IN
           IF GoesOn(job[c], trail, index(c))
           THEN /\ pc[c] = "validate"
                /\ rows' = [rows EXCEPT ![c] = trail]
                /\ anchors' = [anchors EXCEPT ![c] = After(output[c], anchors[c])]
                /\ pc' = [pc EXCEPT ![c] = "round"]
                /\ UNCHANGED <<manifest, pending, round, job, results>>
           ELSE pc[c] = "validate" /\ Return(c, Outcome(job[c], trail))
<1> DEFINE o == output[c]
           trail == Append(rows[c], o)
           n == Len(rows[c])
<1>1. /\ pc[c] = "validate" /\ o \in Outputs /\ n \in Nat /\ index(c) = n + 1
      /\ rows[c] \in Seq(Answers)
  BY DEF Reject, Accept, IInv, AtHand, TypeOK, index
<1>2. /\ trail[n + 1] = o /\ Len(trail) = n + 1
      /\ \A i \in 1 .. n : trail[i] = rows[c][i]
      /\ [i \in 1 .. n |-> trail[i]] = rows[c]
  BY <1>1
<1>3. MaskAt(job[c], trail, n + 1) = anchors[c]
  <2>1. anchors[c] = MaskAt(job[c], rows[c], n + 1)
    BY <1>1 DEF TrailInv, OnTrail
  <2>2. n + 1 \in 1 .. n + 1
    BY <1>1
  <2> HIDE DEF trail, n
  <2>3. \A j \in 1 .. n + 1 : MaskAt(job[c], trail, j) = MaskAt(job[c], rows[c], j)
    <3>1. n \in Nat /\ \A i \in 1 .. n : trail[i] = rows[c][i]
      BY <1>1, <1>2
    <3>2. QED
      BY <3>1, SameTrail
  <2>4. QED
    BY <2>1, <2>2, <2>3
<1>4. GoesOn(job[c], trail, index(c)) <=>
          Valid(o, anchors[c]) /\ o.status = "retest_all" /\ RoundsLeft(c)
  <2> HIDE DEF trail, n, o
  <2>1. QED
    BY <1>1, <1>2, <1>3 DEF GoesOn, RoundsLeft
<1>5. Outcome(job[c], trail) =
          IF Valid(o, anchors[c])
          THEN Result(c, FinalStatus(o), trail, After(o, anchors[c]), NoOutput)
          ELSE Result(c, "native_contract_failed", rows[c], anchors[c], o)
  <2>1. (n + 1) - 1 = n
    BY <1>1
  <2> HIDE DEF trail, n, o
  <2>2. QED
    BY <1>2, <1>3, <2>1 DEF Outcome, Result
<1>6. CASE GoesOn(job[c], trail, index(c))
  BY <1>1, <1>4, <1>6 DEF Reject, Accept, Goto, archive
<1>7. ASSUME ~GoesOn(job[c], trail, index(c)) PROVE Return(c, Outcome(job[c], trail))
  <2>1. ~(Valid(o, anchors[c]) /\ o.status = "retest_all" /\ RoundsLeft(c))
    BY <1>4, <1>7
  <2>2. CASE Reject(c)
    <3>1. /\ ~Valid(o, anchors[c])
          /\ Return(c, Result(c, "native_contract_failed", rows[c], anchors[c], o))
      BY <2>2 DEF Reject
    <3> HIDE DEF trail, o
    <3>2. QED
      BY <1>5, <3>1
  <2>3. CASE Accept(c)
    <3>1. /\ Valid(o, anchors[c])
          /\ Return(c, Result(c, FinalStatus(o), trail, After(o, anchors[c]), NoOutput))
      BY <2>1, <2>3 DEF Accept
    <3> HIDE DEF trail, o
    <3>2. QED
      BY <1>5, <3>1
  <2>4. QED
    BY <2>2, <2>3
<1>8. QED
  BY <1>1, <1>6, <1>7

\* The trail of a call under way that is about to end with its output.
LEMMA WholeTrail ==
    ASSUME IInv, TrailInv, NEW c \in Callers, pc[c] = "validate",
           NEW trail, trail = Append(rows[c], output[c])
    PROVE  /\ trail \in Seq(Outputs) /\ Len(trail) = index(c) /\ Len(rows[c]) \in Nat
           /\ index(c) = Len(rows[c]) + 1 /\ trail[index(c)] = output[c]
           /\ \A i \in 1 .. Len(rows[c]) : trail[i] = rows[c][i]
           /\ \A j \in 1 .. Len(rows[c]) : GoesOn(job[c], trail, j)
           /\ \A i \in 1 .. Len(trail) : Kept(i, trail[i])
           /\ manifest = job[c] /\ manifest \in Identities
<1>1. /\ rows[c] \in Seq(Answers) /\ output[c] \in Outputs /\ Len(rows[c]) \in Nat
      /\ index(c) = Len(rows[c]) + 1 /\ manifest = job[c] /\ manifest \in Identities
  <2>1. rows[c] \in Seq(Answers) /\ output[c] \in Outputs /\ job[c] \in Identities
    BY DEF IInv, TypeOK, AtHand
  <2>2. manifest = job[c]
    BY DEF IInv, Pinned
  <2>3. QED
    BY <2>1, <2>2 DEF index
<1>2. rows[c] \in Seq(Outputs)
  BY <1>1 DEF Outputs
<1>3. /\ trail \in Seq(Outputs) /\ Len(trail) = index(c) /\ trail[index(c)] = output[c]
      /\ \A i \in 1 .. Len(rows[c]) : trail[i] = rows[c][i]
  BY <1>1, <1>2
<1>4. /\ \A j \in 1 .. Len(rows[c]) : GoesOn(job[c], rows[c], j)
      /\ \A i \in 1 .. Len(rows[c]) : Kept(i, rows[c][i])
      /\ Kept(index(c), output[c])
  BY DEF TrailInv, OnTrail
<1>5. \A j \in 1 .. Len(rows[c]) : GoesOn(job[c], trail, j)
  BY <1>1, <1>3, <1>4, SameTrail
<1>6. \A i \in 1 .. Len(trail) : Kept(i, trail[i])
  BY <1>1, <1>3, <1>4
<1>7. QED
  BY <1>1, <1>3, <1>5, <1>6

\* Judging a round ends the call or goes on to the next mask of the trail.
LEMMA TrailJudge ==
    ASSUME IInv, TrailInv, NEW c \in Callers, Reject(c) \/ Accept(c)
    PROVE  TrailInv'
<1> DEFINE whole == Append(rows[c], output[c])
           n == Len(rows[c])
<1>1. pc[c] = "validate" /\ \A d \in Callers : d # c => pc[d] = "idle"
  BY DEF Reject, Accept, IInv, Exclusive
<1>2. /\ whole \in Seq(Outputs) /\ Len(whole) = n + 1 /\ n \in Nat /\ index(c) = n + 1
      /\ whole[n + 1] = output[c]
      /\ \A i \in 1 .. n : whole[i] = rows[c][i]
      /\ \A j \in 1 .. n : GoesOn(job[c], whole, j)
      /\ \A i \in 1 .. n + 1 : Kept(i, whole[i])
      /\ manifest = job[c] /\ manifest \in Identities
  BY <1>1, WholeTrail
\* A trail that is decided starts with this one.
<1>3. ASSUME NEW trail, Decided(trail)
      PROVE  /\ n < Len(trail) /\ Len(trail) \in Nat /\ trail \in Seq(Outputs)
             /\ \A i \in 1 .. n + 1 : whole[i] = trail[i]
             /\ GoesOn(job[c], whole, n + 1) <=> n + 1 < Len(trail)
  <2>1. /\ n < Len(trail) /\ Len(trail) \in Nat /\ trail \in Seq(Outputs)
        /\ \A j \in 1 .. n : rows[c][j] = trail[j]
        /\ output[c] = trail[n + 1]
    BY <1>1, <1>2, <1>3 DEF Decided, Follows
  <2> HIDE DEF whole, n
  <2>2. \A i \in 1 .. n + 1 : whole[i] = trail[i]
    BY <1>2, <2>1
  <2>3. GoesOn(job[c], whole, n + 1) <=> GoesOn(job[c], trail, n + 1)
    <3>1. n + 1 \in Nat /\ n + 1 \in 1 .. n + 1
      BY <1>2
    <3>2. \A j \in 1 .. n + 1 : GoesOn(job[c], whole, j) <=> GoesOn(job[c], trail, j)
      BY <2>2, <3>1, SameTrail
    <3>3. QED
      BY <3>1, <3>2
  <2>4. GoesOn(job[c], trail, n + 1) <=> n + 1 < Len(trail)
    BY <1>2, <1>3, <2>1 DEF Decided
  <2>5. QED
    BY <2>1, <2>2, <2>3, <2>4
<1>4. CASE GoesOn(job[c], whole, n + 1)
  <2>1. /\ rows' = [rows EXCEPT ![c] = whole]
        /\ anchors' = [anchors EXCEPT ![c] = After(output[c], anchors[c])]
        /\ pc' = [pc EXCEPT ![c] = "round"]
        /\ UNCHANGED <<manifest, pending, round, job, results>>
    BY <1>2, <1>4, JudgeOutcome
  <2>2. /\ rows'[c] = whole /\ anchors'[c] = After(output[c], anchors[c])
        /\ pc'[c] = "round" /\ job'[c] = job[c] /\ index(c)' = n + 2
        /\ \A d \in Callers : d # c => pc'[d] = "idle"
    BY <1>1, <1>2, <2>1 DEF IInv, TypeOK, index
  <2>3. OnTrail(c)'
    <3>1. \A j \in 1 .. n + 1 : GoesOn(job[c], whole, j)
      <4> HIDE DEF whole, n
      <4>1. QED
        BY <1>2, <1>4
    <3>2. MaskAt(job[c], whole, n + 2) = After(output[c], anchors[c])
      <4>1. anchors[c] = MaskAt(job[c], rows[c], n + 1) /\ rows[c] \in Seq(Outputs)
            /\ output[c] \in Outputs
        BY <1>1, <1>2 DEF TrailInv, OnTrail, IInv, TypeOK, AtHand, Outputs
      <4>2. QED
        BY <4>1, MaskAfter
    <3>3. (\A j \in 1 .. Len(rows[c]) : GoesOn(job[c], rows[c], j))'
      <4> HIDE DEF whole, n
      <4>1. QED
        BY <1>2, <2>2, <3>1 DEF GoesOn, MaskAt, Valid
    <3>4. (\A i \in 1 .. Len(rows[c]) : Kept(i, rows[c][i]))'
      <4> HIDE DEF whole, n
      <4>1. QED
        BY <1>2, <2>1, <2>2 DEF Kept
    <3>5. (anchors[c] = MaskAt(job[c], rows[c], index(c)))'
      <4> HIDE DEF whole, n
      <4>1. QED
        BY <2>2, <3>2 DEF MaskAt
    <3>6. QED
      BY <2>2, <3>3, <3>4, <3>5 DEF OnTrail, Fitting
  <2>4. ASSUME NEW trail, Decided(trail) PROVE Decided(trail)'
    <3>1. Follows(c, trail)'
      <4> HIDE DEF whole, n
      <4>1. n + 1 < Len(trail) /\ \A i \in 1 .. n + 1 : whole[i] = trail[i]
        BY <1>3, <1>4, <2>4
      <4>2. QED
        BY <1>2, <2>2, <4>1 DEF Follows, Fitting
    <3>2. \A d \in Callers : Follows(d, trail)'
      BY <2>2, <3>1 DEF Follows
    <3>3. QED
      BY <2>1, <2>4, <3>2 DEF Decided, Outcome, GoesOn, MaskAt, Kept
  <2>5. QED
    BY <2>1, <2>2, <2>3, <2>4 DEF TrailInv, RoundsAreClaimed, OnTrail
<1>5. CASE ~GoesOn(job[c], whole, n + 1)
  <2>1. Return(c, Outcome(job[c], whole))
    BY <1>2, <1>5, JudgeOutcome
  <2>2. /\ results' = results \cup {Outcome(job[c], whole)}
        /\ pc' = [pc EXCEPT ![c] = "idle"]
        /\ UNCHANGED <<manifest, pending, round>>
    BY <2>1 DEF Return, End, Goto, archive
  <2>3. \A d \in Callers : pc'[d] = "idle"
    BY <1>1, <2>2 DEF IInv, TypeOK
  <2>4. results \subseteq {Outcome(manifest, whole)}
    <3>1. ASSUME NEW trail, Decided(trail) PROVE trail = whole
      <4>1. /\ n < Len(trail) /\ ~(n + 1 < Len(trail)) /\ Len(trail) \in Nat
            /\ trail \in Seq(Outputs) /\ \A i \in 1 .. n + 1 : whole[i] = trail[i]
        BY <1>3, <1>5, <3>1
      <4> HIDE DEF whole, n
      <4>2. QED
        BY <1>2, <4>1
    <3> HIDE DEF whole
    <3>2. QED
      BY <3>1 DEF TrailInv, Decided
  <2>5. \E trail : Decided(trail)'
    <3>1. PICK trail : trail = whole
      OBVIOUS
    <3> HIDE DEF whole, n
    <3>2. results' = {Outcome(manifest', trail)}
      BY <1>2, <2>2, <2>4, <3>1
    <3>3. \A i \in 1 .. Len(trail) : Kept(i, trail[i])'
      BY <1>2, <2>2, <3>1 DEF Kept
    <3>4. \A j \in 1 .. Len(trail) - 1 : GoesOn(manifest', trail, j)
      BY <1>2, <2>2, <3>1
    <3>5. ~GoesOn(manifest', trail, Len(trail))
      BY <1>2, <1>5, <2>2, <3>1
    <3>6. /\ trail \in Seq(Outputs) /\ Len(trail) > 0 /\ manifest' \in Identities
      BY <1>2, <2>2, <3>1
    <3>7. \A d \in Callers : Follows(d, trail)'
      BY <2>3 DEF Follows
    <3>8. Decided(trail)'
      BY <3>2, <3>3, <3>4, <3>5, <3>6, <3>7 DEF Decided
    <3>9. QED
      BY <3>8
  <2>6. RoundsAreClaimed' /\ \A d \in Callers : OnTrail(d)'
    BY <2>2, <2>3 DEF TrailInv, RoundsAreClaimed, OnTrail
  <2>7. QED
    BY <2>5, <2>6 DEF TrailInv
<1>6. QED
  BY <1>4, <1>5

\* Damage never forges a digest.
LEMMA TrailDamage ==
    ASSUME IInv, TrailInv, NEW i \in Rounds, Damage(i)
    PROVE  TrailInv'
<1>1. PICK file \in {Partial, [round[i] EXCEPT !.output = Malformed]} :
        round' = [round EXCEPT ![i] = file]
  BY DEF Damage
<1>2. /\ round[i] \in Packets
      /\ UNCHANGED <<manifest, pending, pc, job, rows, anchors, output, results>>
  BY DEF Damage
<1>3. file \in Packets => file.sha256 = round[i].sha256
  BY <1>2, DistinctAssumption DEF Packets
<1>4. \A j, o : Kept(j, o) => Kept(j, o)'
  <2>1. /\ round'[i] = file
        /\ \A j \in Rounds : j # i => round'[j] = round[j]
    BY <1>1 DEF IInv, TypeOK
  <2>2. QED
    BY <1>2, <1>3, <2>1 DEF Kept, IInv, TypeOK
<1>5. RoundsAreClaimed'
  BY <1>1, <1>2, DistinctAssumption DEF IInv, TypeOK, TrailInv, RoundsAreClaimed
<1>6. ASSUME NEW d \in Callers PROVE OnTrail(d)'
  <2>1. SUFFICES ASSUME pc[d] # "idle" PROVE OnTrail(d)'
    BY <1>2 DEF OnTrail
  <2>2. OnTrail(d) /\ index(d)' = index(d)
    BY <1>2 DEF TrailInv, index
  <2>3. (\A j \in 1 .. Len(rows[d]) : GoesOn(job[d], rows[d], j))'
    BY <1>2, <2>1, <2>2 DEF OnTrail, GoesOn, MaskAt, Valid
  <2>4. (anchors[d] = MaskAt(job[d], rows[d], index(d)))'
    BY <1>2, <2>1, <2>2 DEF OnTrail, MaskAt
  <2>5. (\A j \in 1 .. Len(rows[d]) : Kept(j, rows[d][j]))'
    <3>1. \A j \in 1 .. Len(rows[d]) : Kept(j, rows[d][j])
      BY <2>1, <2>2 DEF OnTrail
    <3>2. ASSUME NEW j \in 1 .. Len(rows[d]), NEW o, o = rows[d][j] PROVE Kept(j, o)'
      BY <1>4, <3>1, <3>2
    <3>3. QED
      BY <1>2, <3>2 DEF Kept
  <2>6. (pc[d] = "validate" => Kept(index(d), output[d]))'
    <3>1. pc[d] = "validate" => Kept(index(d), output[d])
      BY <2>1, <2>2 DEF OnTrail
    <3>2. ASSUME NEW j, j = index(d), NEW o, o = output[d], Kept(j, o) PROVE Kept(j, o)'
      BY <1>4, <3>2
    <3>3. QED
      BY <1>2, <2>2, <3>1, <3>2 DEF Kept
  <2>7. QED
    BY <1>2, <2>1, <2>2, <2>3, <2>4, <2>5, <2>6 DEF OnTrail
<1>7. ASSUME NEW trail, Decided(trail) PROVE Decided(trail)'
  <2>1. \A d \in Callers : Follows(d, trail)'
    BY <1>2, <1>7 DEF Decided, Follows, index
  <2>2. (\A j \in 1 .. Len(trail) : Kept(j, trail[j]))'
    BY <1>4, <1>7 DEF Decided
  <2>3. QED
    BY <1>2, <1>7, <2>1, <2>2 DEF Decided, Outcome, GoesOn, MaskAt
<1>8. QED
  BY <1>2, <1>5, <1>6, <1>7 DEF TrailInv

\* Every step keeps the trail.
LEMMA TrailKeeps == IInv /\ TrailInv /\ [Next]_vars => TrailInv'
<1> SUFFICES ASSUME IInv, TrailInv, [Next]_vars PROVE TrailInv'
  OBVIOUS
<1>1. CASE UNCHANGED vars
  <2>1. UNCHANGED <<manifest, pending, round, pc, job, rows, anchors, output, results>>
    BY <1>1 DEF vars, archive
  <2>2. ASSUME NEW d \in Callers PROVE OnTrail(d)'
    BY <2>1 DEF TrailInv, OnTrail, GoesOn, MaskAt, Valid, Kept, index
  <2>3. ASSUME NEW trail, Decided(trail) PROVE Decided(trail)'
    BY <2>1, <2>3 DEF Decided, Follows, Outcome, GoesOn, MaskAt, Kept, index
  <2>4. QED
    BY <2>1, <2>2, <2>3 DEF TrailInv, RoundsAreClaimed
<1>2. ASSUME NEW c \in Callers, Call(c) PROVE TrailInv'
  BY <1>2, TrailCall
<1>3. ASSUME NEW c \in Callers, Proceed(c) PROVE TrailInv'
  <2>1. CASE CheckManifest(c) \/ WriteManifest(c)
    BY <2>1, TrailManifest
  <2>2. CASE Replay(c)
    BY <2>2, TrailReplay
  <2>3. CASE Unsettled(c)
    BY <2>3, TrailRaise DEF Unsettled
  <2>4. CASE Claim(c) \/ Dispatch(c) \/ Answer(c) \/ CreateRound(c) \/ WriteRound(c)
    BY <2>4, TrailFit
  <2>5. CASE Reject(c) \/ Accept(c)
    BY <2>5, TrailJudge
  <2>6. QED
    BY <1>3, <2>1, <2>2, <2>3, <2>4, <2>5 DEF Proceed
<1>4. ASSUME NEW c \in Callers, Crash(c) PROVE TrailInv'
  BY <1>4, TrailRaise DEF Crash
<1>5. ASSUME NEW i \in Rounds, Damage(i) PROVE TrailInv'
  BY <1>5, TrailDamage
<1>6. QED
  BY <1>1, <1>2, <1>3, <1>4, <1>5 DEF Next

\* An archive has one answer: whatever calls share it, wherever they die and
\* whichever of its files are damaged, all that return return the same.
THEOREM OneAnswerPerArchive == Spec => []SameAnswer
<1>1. TrailInv => SameAnswer
  BY DEF TrailInv, Decided, SameAnswer
<1>2. QED
  BY <1>1, TrailBegins, TrailKeeps, ArchiveInvariant, PTL DEF Spec

=============================================================================
