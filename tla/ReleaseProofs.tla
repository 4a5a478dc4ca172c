---------------------------- MODULE ReleaseProofs ----------------------------
(***************************************************************************)
(* Proofs about what is said of a release and of an installation.          *)
(*                                                                         *)
(* The release evidence chain: for every set of versions and any number of *)
(* runs, crashes and partial writes, a manifest that says released is      *)
(* backed by evidence of that very run.  The argument.  Scripts write      *)
(* files of their own only, and a file cites other files as they were when *)
(* it was written (Sound, Touched).  So what a script that passed vouches  *)
(* for (Effect) stays true as long as no later script of the plan writes a *)
(* file it cited (CanFollow), and the order of the plan sees to that       *)
(* (LaterFollows).  ChainInv puts this together: every file is well made   *)
(* (DiskSound), the stages are a prefix of the plan (PlanFollowed), every  *)
(* script that passed still has its effect (Evidence), and a released      *)
(* manifest is backed (Backed).                                            *)
(*                                                                         *)
(* The artifact verifier (after the line The installation): for every      *)
(* installation and any interference, ready means approved as a whole.     *)
(* The argument.  What was hashed, read or opened and still has its stamp  *)
(* is as it was (ReadinessInv).  So, as long as nothing a pass holds open  *)
(* has changed, all behind the walk is settled in the installation the     *)
(* pass is about (Covered), and at the end of a pass that is everything.   *)
(* And of an approved installation nobody touches nothing is refused: all  *)
(* that is looked up is there and looked up once (Planned, Counted), and   *)
(* the second pass finds what the first has noted (Again).                 *)
(***************************************************************************)
EXTENDS ReleaseChain, ArtifactReadiness, CountingLemmas, SequenceTheorems

-----------------------------------------------------------------------------
(* Files                                                                     *)

Jsons == Rendered \cup {"acceptance", "sales", "final", "release"}
Htmls == Rendered \cup {"release"}

\* A file tells the script that writes it.
LEMMA FileNames ==
    /\ \A s : Json(s)[1] = s /\ Json(s)[2] = "json" /\ Html(s)[1] = s /\ Html(s)[2] = "html"
    /\ Archive[1] = "packet" /\ Archive[2] = "zip"
    /\ Outputs[1] = "acceptance" /\ Outputs[2] = "outputs"
    /\ \A f \in Wheels : f[1] = "build"
    /\ \A v : <<"build", v>>[1] = "build" /\ <<"build", v>>[2] = v
BY DEF Json, Html, Archive, Outputs, Wheels

\* Which files there are; those of the build are the wheels.
LEMMA FilesAre ==
    /\ \A s \in Jsons : Json(s) \in Files
    /\ \A s \in Htmls : Html(s) \in Files
    /\ Archive \in Files /\ Outputs \in Files /\ Wheels \subseteq Files
    /\ \A v \in Versions : <<"build", v>> \in Files
    /\ \A f \in Files : f[1] = "build" => f \in Wheels
<1>1. \A f \in Files : f[1] = "build" => f \in Wheels
  <2> SUFFICES ASSUME NEW f \in Files, f \notin Wheels PROVE f[1] # "build" OBVIOUS
  <2>1. \/ \E s \in Jsons : f = Json(s)
        \/ \E s \in Htmls : f = Html(s)
        \/ f = Archive \/ f = Outputs
    BY DEF Files, Wheels, Jsons, Htmls
  <2>2. "build" \notin Jsons /\ "build" \notin Htmls BY DEF Jsons, Htmls, Rendered
  <2> QED BY <2>1, <2>2, FileNames
<1>2. \A s \in Jsons : Json(s) \in Files BY DEF Files, Jsons
<1>3. \A s \in Htmls : Html(s) \in Files BY DEF Files, Htmls
<1>4. Archive \in Files /\ Outputs \in Files BY DEF Files
<1>5. Wheels \subseteq Files /\ \A v \in Versions : <<"build", v>> \in Files BY DEF Files, Wheels
<1> QED BY <1>1, <1>2, <1>3, <1>4, <1>5

CoreScripts == {"acceptance", "benchmark", "sales", "packet", "index", "final"}

\* The six scripts every run has.
LEMMA CoreIs == Range(Core) = CoreScripts /\ \A s : InCore(s) <=> s \in CoreScripts \cup {"build"}
<1>1. DOMAIN Core = 1 .. 6 BY DEF Core
<1>2. /\ Core[1] = "acceptance" /\ Core[2] = "benchmark" /\ Core[3] = "sales"
      /\ Core[4] = "packet" /\ Core[5] = "index" /\ Core[6] = "final"
  BY DEF Core
<1>3. \A k \in 1 .. 6 : k = 1 \/ k = 2 \/ k = 3 \/ k = 4 \/ k = 5 \/ k = 6 OBVIOUS
<1>4. 1 \in 1 .. 6 /\ 2 \in 1 .. 6 /\ 3 \in 1 .. 6 /\ 4 \in 1 .. 6 /\ 5 \in 1 .. 6 /\ 6 \in 1 .. 6
  OBVIOUS
<1>5. \A s \in Range(Core) : s \in CoreScripts BY <1>1, <1>2, <1>3 DEF Range, CoreScripts
<1>6. \A s \in CoreScripts : s \in Range(Core) BY <1>1, <1>2, <1>4 DEF Range, CoreScripts
<1> QED BY <1>5, <1>6 DEF InCore

\* The files the scripts of every run leave, and the scripts they come from.
LEMMA CoreFilesAre ==
    /\ \A f \in CoreFiles : f \in Files /\ f[1] \in CoreScripts /\ f \notin Wheels
                            /\ f \in {Json(s) : s \in CoreScripts}
                                    \cup {Html(s) : s \in {"benchmark", "packet", "index"}} \cup {Archive}
    /\ \A f \in Packed : f \in Files /\ f[1] \in {"build", "acceptance", "benchmark", "sales"}
    /\ \A f \in Indexed : f \in Files /\ f[1] \in {"build", "acceptance", "benchmark", "sales", "packet"}
<1>1. \A s \in CoreScripts : s \in Jsons BY DEF CoreScripts, Jsons, Rendered
<1>2. \A s \in {"benchmark", "packet", "index"} : s \in Htmls /\ s \in CoreScripts
  BY DEF CoreScripts, Htmls, Rendered
<1>3. CoreFiles = {Json(s) : s \in CoreScripts}
                  \cup {Html(s) : s \in {"benchmark", "packet", "index"}} \cup {Archive}
  BY CoreIs DEF CoreFiles
<1>4. "packet" \in CoreScripts /\ "build" \notin CoreScripts BY DEF CoreScripts
<1>5. \A f \in CoreFiles : f \in Files /\ f[1] \in CoreScripts
  BY <1>1, <1>2, <1>3, <1>4, FileNames, FilesAre
<1>6. \A s \in {"acceptance", "sales", "benchmark", "packet"} : s \in Jsons BY DEF Jsons, Rendered
<1>7. "benchmark" \in Htmls /\ "packet" \in Htmls BY DEF Htmls, Rendered
<1>8. \A f \in Packed : f \in Files /\ f[1] \in {"build", "acceptance", "benchmark", "sales"}
  BY <1>6, <1>7, FileNames, FilesAre DEF Packed
<1>9. \A f \in Indexed : f \in Files /\ f[1] \in {"build", "acceptance", "benchmark", "sales", "packet"}
  BY <1>6, <1>7, FileNames, FilesAre DEF Indexed
<1> QED BY <1>3, <1>4, <1>5, <1>8, <1>9, FileNames

-----------------------------------------------------------------------------
(* The plan                                                                  *)

ExtraScripts == {"procurement", "queue", "figma"}
Before(o)  == IF o.build THEN 1 ELSE 0
FinalAt(o) == Before(o) + 6

\* A script that is wanted or not is a list of one or none.
LEMMA IfShape ==
    ASSUME NEW b \in BOOLEAN, NEW S, NEW s \in S
    PROVE  /\ If(b, s) \in Seq(S) /\ Len(If(b, s)) = (IF b THEN 1 ELSE 0)
           /\ \A k \in 1 .. Len(If(b, s)) : If(b, s)[k] = s
<1>1. CASE b
  <2>1. If(b, s) = <<s>> BY <1>1 DEF If
  <2>2. <<s>> \in Seq(S) /\ Len(<<s>>) = 1 /\ <<s>>[1] = s OBVIOUS
  <2>3. \A k \in 1 .. 1 : k = 1 OBVIOUS
  <2> QED BY <1>1, <2>1, <2>2, <2>3
<1>2. CASE ~b
  <2>1. If(b, s) = << >> BY <1>2 DEF If
  <2> QED BY <1>2, <2>1, EmptySeq
<1> QED BY <1>1, <1>2

\* The optional scripts come without repetition.
LEMMA ExtrasShape ==
    ASSUME NEW o \in Options
    PROVE  /\ Extras(o) \in Seq(ExtraScripts)
           /\ \A j, k \in 1 .. Len(Extras(o)) : Extras(o)[j] = Extras(o)[k] => j = k
<1> DEFINE A == If("procurement" \in o.extras, "procurement")
           B == If("queue" \in o.extras, "queue")
           C == If("figma" \in o.extras, "figma")
<1>1. /\ A \in Seq(ExtraScripts) /\ Len(A) \in {0, 1} /\ \A k \in 1 .. Len(A) : A[k] = "procurement"
      /\ B \in Seq(ExtraScripts) /\ Len(B) \in {0, 1} /\ \A k \in 1 .. Len(B) : B[k] = "queue"
      /\ C \in Seq(ExtraScripts) /\ Len(C) \in {0, 1} /\ \A k \in 1 .. Len(C) : C[k] = "figma"
  <2>1. ASSUME NEW b \in BOOLEAN, NEW s \in ExtraScripts
        PROVE  /\ If(b, s) \in Seq(ExtraScripts) /\ Len(If(b, s)) \in {0, 1}
               /\ \A k \in 1 .. Len(If(b, s)) : If(b, s)[k] = s
    BY IfShape
  <2>2. "procurement" \in ExtraScripts /\ "queue" \in ExtraScripts /\ "figma" \in ExtraScripts
    BY DEF ExtraScripts
  <2>3. ("procurement" \in o.extras) \in BOOLEAN /\ ("queue" \in o.extras) \in BOOLEAN
        /\ ("figma" \in o.extras) \in BOOLEAN
    OBVIOUS
  <2>4. /\ A \in Seq(ExtraScripts) /\ Len(A) \in {0, 1} /\ \A k \in 1 .. Len(A) : A[k] = "procurement"
    BY <2>1, <2>2, <2>3
  <2>5. /\ B \in Seq(ExtraScripts) /\ Len(B) \in {0, 1} /\ \A k \in 1 .. Len(B) : B[k] = "queue"
    BY <2>1, <2>2, <2>3
  <2>6. /\ C \in Seq(ExtraScripts) /\ Len(C) \in {0, 1} /\ \A k \in 1 .. Len(C) : C[k] = "figma"
    BY <2>1, <2>2, <2>3
  <2> QED BY <2>4, <2>5, <2>6
<1> HIDE DEF A, B, C
<1> DEFINE AB == A \o B
           E == AB \o C
<1>2. /\ AB \in Seq(ExtraScripts) /\ Len(AB) = Len(A) + Len(B)
      /\ \A k \in 1 .. Len(AB) : AB[k] = IF k <= Len(A) THEN A[k] ELSE B[k - Len(A)]
  BY <1>1, ConcatProperties
<1> HIDE DEF AB
<1>3. /\ E \in Seq(ExtraScripts) /\ Len(E) = Len(AB) + Len(C)
      /\ \A k \in 1 .. Len(E) : E[k] = IF k <= Len(AB) THEN AB[k] ELSE C[k - Len(AB)]
  BY SMTT(30), <1>1, <1>2, ConcatProperties
<1> HIDE DEF E
<1>4. PICK a \in {0, 1}, b \in {0, 1}, c \in {0, 1} : Len(A) = a /\ Len(B) = b /\ Len(C) = c
  BY <1>1
<1>5. /\ \A k \in 1 .. a : E[k] = "procurement"
      /\ \A k \in a + 1 .. a + b : E[k] = "queue"
      /\ \A k \in a + b + 1 .. a + b + c : E[k] = "figma"
      /\ Len(E) = a + b + c
  <2>1. Len(AB) = a + b /\ Len(E) = a + b + c BY <1>2, <1>3, <1>4
  <2>2. \A k \in 1 .. a : E[k] = "procurement"
    <3> SUFFICES ASSUME NEW k \in 1 .. a PROVE E[k] = "procurement" OBVIOUS
    <3>1. k \in 1 .. Len(A) /\ k \in 1 .. Len(AB) /\ k \in 1 .. Len(E) BY <1>4, <2>1
    <3> QED BY <1>1, <1>2, <1>3, <3>1
  <2>3. \A k \in a + 1 .. a + b : E[k] = "queue"
    <3> SUFFICES ASSUME NEW k \in a + 1 .. a + b PROVE E[k] = "queue" OBVIOUS
    <3>1. k - Len(A) \in 1 .. Len(B) /\ k \in 1 .. Len(AB) /\ k \in 1 .. Len(E) /\ ~(k <= Len(A))
      BY <1>4, <2>1
    <3> QED BY <1>1, <1>2, <1>3, <3>1
  <2>4. \A k \in a + b + 1 .. a + b + c : E[k] = "figma"
    <3> SUFFICES ASSUME NEW k \in a + b + 1 .. a + b + c PROVE E[k] = "figma" OBVIOUS
    <3>1. k - Len(AB) \in 1 .. Len(C) /\ k \in 1 .. Len(E) /\ ~(k <= Len(AB))
      BY <1>4, <2>1
    <3> QED BY <1>1, <1>3, <3>1
  <2> QED BY <2>1, <2>2, <2>3, <2>4
<1>6. \A j, k \in 1 .. Len(E) : E[j] = E[k] => j = k
  <2> SUFFICES ASSUME NEW j \in 1 .. a + b + c, NEW k \in 1 .. a + b + c, E[j] = E[k] PROVE j = k
    BY <1>5
  <2>1. ASSUME NEW i \in 1 .. a + b + c
        PROVE  \/ i \in 1 .. a /\ i = 1 /\ E[i] = "procurement"
               \/ i \in a + 1 .. a + b /\ i = a + 1 /\ E[i] = "queue"
               \/ i \in a + b + 1 .. a + b + c /\ i = a + b + 1 /\ E[i] = "figma"
    <3>1. \/ i \in 1 .. a /\ i = 1
          \/ i \in a + 1 .. a + b /\ i = a + 1
          \/ i \in a + b + 1 .. a + b + c /\ i = a + b + 1
      OBVIOUS
    <3> QED BY <1>5, <3>1
  <2> QED BY <2>1
<1> QED BY <1>3, <1>6 DEF Extras, A, B, C, AB, E

\* A plan is the build if wanted, the six scripts, then the optional ones, none twice.
LEMMA PlanShape ==
    ASSUME NEW o \in Options
    PROVE  /\ Plan(o) \in Seq(Scripts) /\ Len(Plan(o)) \in Nat /\ Len(Plan(o)) >= FinalAt(o)
           /\ Before(o) \in {0, 1}
           /\ Before(o) = 1 => Plan(o)[1] = "build"
           /\ \A k \in 1 .. 6 : Plan(o)[Before(o) + k] = Core[k]
           /\ \A k \in FinalAt(o) + 1 .. Len(Plan(o)) : Plan(o)[k] \in ExtraScripts
           /\ \A j, k \in 1 .. Len(Plan(o)) : Plan(o)[j] = Plan(o)[k] => j = k
<1> DEFINE A == If(o.build, "build")
           b == Before(o)
           E == Extras(o)
<1>1. o.build \in BOOLEAN BY ReleaseAssumption
<1>2. /\ A \in Seq(Scripts) /\ Len(A) = b /\ b \in {0, 1} /\ \A k \in 1 .. b : A[k] = "build"
  <2>1. "build" \in Scripts BY DEF Scripts
  <2>2. /\ A \in Seq(Scripts) /\ Len(A) = (IF o.build THEN 1 ELSE 0)
        /\ \A k \in 1 .. Len(A) : A[k] = "build"
    BY <1>1, <2>1, IfShape
  <2> HIDE DEF A
  <2> QED BY <1>1, <2>2 DEF Before
<1>3. /\ Core \in Seq(Scripts) /\ Len(Core) = 6
      /\ \A k \in 1 .. 6 : Core[k] \in CoreScripts
      /\ \A j, k \in 1 .. 6 : Core[j] = Core[k] => j = k
  <2>1. Len(Core) = 6 BY DEF Core
  <2>2. Core \in Seq(Scripts) BY DEF Core, Scripts
  <2>3. /\ Core[1] = "acceptance" /\ Core[2] = "benchmark" /\ Core[3] = "sales"
        /\ Core[4] = "packet" /\ Core[5] = "index" /\ Core[6] = "final"
    BY DEF Core
  <2>4. \A k \in 1 .. 6 : k = 1 \/ k = 2 \/ k = 3 \/ k = 4 \/ k = 5 \/ k = 6 OBVIOUS
  <2>5. \A k \in 1 .. 6 : Core[k] \in CoreScripts BY <2>3, <2>4 DEF CoreScripts
  <2>6. \A j, k \in 1 .. 6 : Core[j] = Core[k] => j = k BY <2>3, <2>4
  <2> QED BY <2>1, <2>2, <2>5, <2>6
<1>4. /\ E \in Seq(ExtraScripts) /\ Len(E) \in Nat
      /\ \A j, k \in 1 .. Len(E) : E[j] = E[k] => j = k
  BY ExtrasShape, LenProperties
<1>5. E \in Seq(Scripts) /\ \A k \in 1 .. Len(E) : E[k] \in ExtraScripts
  <2>1. \A k \in 1 .. Len(E) : E[k] \in ExtraScripts BY <1>4, ElementOfSeq
  <2>2. ExtraScripts \subseteq Scripts BY DEF ExtraScripts, Scripts
  <2>3. E \in [1 .. Len(E) -> Scripts] BY <1>4, <2>1, <2>2, LenProperties
  <2> HIDE DEF E
  <2> QED BY <1>4, <2>1, <2>3
<1> HIDE DEF A, b, E
<1> DEFINE AC == A \o Core
           P == AC \o E
<1>6. /\ AC \in Seq(Scripts) /\ Len(AC) = b + 6
      /\ \A k \in 1 .. Len(AC) : AC[k] = IF k <= b THEN A[k] ELSE Core[k - b]
  <2>1. A \in Seq(Scripts) /\ Core \in Seq(Scripts) BY <1>2, <1>3
  <2>2. /\ AC \in Seq(Scripts) /\ Len(AC) = Len(A) + Len(Core)
        /\ \A k \in 1 .. Len(A) + Len(Core) :
               AC[k] = IF k <= Len(A) THEN A[k] ELSE Core[k - Len(A)]
    BY <2>1, ConcatProperties
  <2> QED BY <1>2, <1>3, <2>2
<1> HIDE DEF AC
<1>7. /\ P \in Seq(Scripts) /\ Len(P) = b + 6 + Len(E)
      /\ \A k \in 1 .. Len(P) : P[k] = IF k <= b + 6 THEN AC[k] ELSE E[k - (b + 6)]
  BY <1>5, <1>6, ConcatProperties
<1>8. Plan(o) = P BY DEF Plan, P, AC, A, E
<1> HIDE DEF P
<1>9. \A k \in 1 .. b : P[k] = "build"
  <2> SUFFICES ASSUME NEW k \in 1 .. b PROVE P[k] = "build" OBVIOUS
  <2>1. k \in 1 .. Len(AC) /\ k \in 1 .. Len(P) /\ k <= b + 6 /\ k <= b BY <1>2, <1>4, <1>6, <1>7
  <2> QED BY <1>2, <1>6, <1>7, <2>1
<1>10. \A k \in 1 .. 6 : P[b + k] = Core[k]
  <2> SUFFICES ASSUME NEW k \in 1 .. 6 PROVE P[b + k] = Core[k] OBVIOUS
  <2>1. b + k \in 1 .. Len(AC) /\ b + k \in 1 .. Len(P) /\ b + k <= b + 6 /\ ~(b + k <= b)
        /\ (b + k) - b = k
    BY <1>2, <1>4, <1>6, <1>7
  <2> QED BY <1>6, <1>7, <2>1
<1>11. \A k \in 1 .. Len(E) : P[b + 6 + k] = E[k]
  <2> SUFFICES ASSUME NEW k \in 1 .. Len(E) PROVE P[b + 6 + k] = E[k] OBVIOUS
  <2>1. b + 6 + k \in 1 .. Len(P) /\ ~(b + 6 + k <= b + 6) /\ (b + 6 + k) - (b + 6) = k
    BY <1>2, <1>4, <1>7
  <2> QED BY <1>7, <2>1
<1>12. \A k \in 1 .. Len(P) :
           \/ k \in 1 .. b
           \/ \E i \in 1 .. 6 : k = b + i
           \/ \E i \in 1 .. Len(E) : k = b + 6 + i
  <2> SUFFICES ASSUME NEW k \in 1 .. Len(P)
               PROVE  k \in 1 .. b \/ (\E i \in 1 .. 6 : k = b + i) \/ \E i \in 1 .. Len(E) : k = b + 6 + i
    OBVIOUS
  <2>1. CASE k <= b BY <1>2, <2>1
  <2>2. CASE b < k /\ k <= b + 6
    <3>1. k - b \in 1 .. 6 /\ k = b + (k - b) BY <1>2, <2>2
    <3> QED BY <3>1
  <2>3. CASE b + 6 < k
    <3>1. k - (b + 6) \in 1 .. Len(E) /\ k = b + 6 + (k - (b + 6)) BY <1>2, <1>4, <1>7, <2>3
    <3> QED BY <3>1
  <2> QED BY <1>2, <2>1, <2>2, <2>3
<1>13. "build" \notin CoreScripts /\ "build" \notin ExtraScripts /\ CoreScripts \cap ExtraScripts = {}
  BY DEF CoreScripts, ExtraScripts
<1>14. \A j, k \in 1 .. Len(P) : P[j] = P[k] => j = k
  <2> SUFFICES ASSUME NEW j \in 1 .. Len(P), NEW k \in 1 .. Len(P), P[j] = P[k] PROVE j = k OBVIOUS
  <2>1. CASE j \in 1 .. b
    <3>1. P[j] = "build" BY <1>9, <2>1
    <3>2. \A i \in 1 .. 6 : P[b + i] # "build" BY <1>3, <1>10, <1>13
    <3>3. \A i \in 1 .. Len(E) : P[b + 6 + i] # "build" BY <1>5, <1>11, <1>13
    <3>4. k \in 1 .. b BY <1>12, <3>1, <3>2, <3>3
    <3> QED BY <1>2, <2>1, <3>4
  <2>2. CASE \E i \in 1 .. 6 : j = b + i
    <3>1. PICK i \in 1 .. 6 : j = b + i BY <2>2
    <3>2. P[j] = Core[i] /\ P[j] \in CoreScripts BY <1>3, <1>10, <3>1
    <3>3. PICK h \in 1 .. 6 : k = b + h BY <1>5, <1>9, <1>11, <1>12, <1>13, <3>2
    <3>4. Core[h] = Core[i] BY <1>10, <3>2, <3>3
    <3> QED BY <1>3, <3>1, <3>3, <3>4
  <2>3. CASE \E i \in 1 .. Len(E) : j = b + 6 + i
    <3>1. PICK i \in 1 .. Len(E) : j = b + 6 + i BY <2>3
    <3>2. P[j] = E[i] /\ P[j] \in ExtraScripts BY <1>5, <1>11, <3>1
    <3>3. \A h \in 1 .. 6 : P[b + h] # P[j] BY <1>3, <1>10, <1>13, <3>2
    <3>4. k \notin 1 .. b BY <1>9, <1>13, <3>2
    <3>5. PICK h \in 1 .. Len(E) : k = b + 6 + h BY <1>12, <3>3, <3>4
    <3>6. E[h] = E[i] BY <1>11, <3>2, <3>5
    <3> QED BY <1>4, <3>1, <3>5, <3>6
  <2> QED BY <1>12, <2>1, <2>2, <2>3
<1>15. \A k \in b + 7 .. Len(P) : P[k] \in ExtraScripts
  <2> SUFFICES ASSUME NEW k \in b + 7 .. Len(P) PROVE P[k] \in ExtraScripts OBVIOUS
  <2>1. k - (b + 6) \in 1 .. Len(E) /\ b + 6 + (k - (b + 6)) = k BY SMTT(30), <1>2, <1>4, <1>7
  <2> QED BY <1>5, <1>11, <2>1
<1>16. Len(P) \in Nat /\ Len(P) >= b + 6 /\ (b = 1 => 1 \in 1 .. b) BY <1>2, <1>4, <1>7
<1>17. FinalAt(o) = b + 6 /\ FinalAt(o) + 1 = b + 7 BY <1>2 DEF FinalAt, b
<1> QED BY <1>2, <1>7, <1>8, <1>9, <1>10, <1>14, <1>15, <1>16, <1>17 DEF b

-----------------------------------------------------------------------------
(* What is written                                                           *)

\* A manifest that names its own report gives it the digest of its own rendering,
\* and a packet's manifest an archive of its own run.
WellMade(f, c) ==
    /\ c.ok \in BOOLEAN /\ c.stamp[1] \in Nat
    /\ \A s \in Rendered : (f = Json(s) /\ Html(s) \in DOMAIN c.cites)
                               => c.cites[Html(s)] = c.stamp
    /\ (f = Json("packet") /\ Archive \in DOMAIN c.cites) => c.cites[Archive][1] = c.stamp[1]

\* w writes a file of script s.
OfScript(s, w) ==
    /\ w.file \in Files /\ w.file[1] = s
    /\ w.content.stamp[1] = run /\ WellMade(w.file, w.content)

\* w is what script s may write.
Sound(s, w) ==
    /\ \E W : w \in Seq(W)
    /\ \A k \in DOMAIN w : OfScript(s, w[k])

\* What is in a write.
LEMMA WriteFields ==
    ASSUME NEW f, NEW c
    PROVE  Write(f, c).file = f /\ Write(f, c).content = c
BY DEF Write

\* What is in a file.
LEMMA FileFields ==
    ASSUME NEW n, NEW ok, NEW cites
    PROVE  /\ File(n, ok, cites).stamp = Stamp(n) /\ Stamp(n)[1] = run
           /\ File(n, ok, cites).ok = ok /\ File(n, ok, cites).version = version
           /\ File(n, ok, cites).cites = cites
BY DEF File, Stamp

\* c has the entries of others, and digest for f.
Adds(c, f, digest, others) ==
    /\ DOMAIN c = {f} \cup DOMAIN others /\ c[f] = digest
    /\ \A g \in DOMAIN others : g # f => c[g] = others[g]

\* The same, of a file that says yes.
LEMMA FileOk ==
    ASSUME NEW n, NEW cites
    PROVE  /\ File(n, TRUE, cites).stamp = Stamp(n) /\ Stamp(n)[1] = run
           /\ File(n, TRUE, cites).ok = TRUE /\ File(n, TRUE, cites).version = version
           /\ File(n, TRUE, cites).cites = cites
BY DEF File, Stamp

\* Citing one more file adds its stamp.
LEMMA CitingAdds ==
    ASSUME NEW f, NEW n, NEW others
    PROVE  Adds(Citing(f, n, others), f, Stamp(n), others)
BY DEF Citing, Adds

\* Digests are the stamps of the files that are there.
LEMMA DigestsAre ==
    ASSUME NEW fs
    PROVE  /\ \A f : f \in DOMAIN Digests(fs) <=> f \in fs /\ Exists(f)
           /\ \A f \in fs : Exists(f) => Digests(fs)[f] = disk[f].stamp
BY DEF Digests

\* Without citations there is nothing to be wrong.
LEMMA PlainWellMade ==
    ASSUME NEW f, NEW n, run \in Nat
    PROVE  /\ WellMade(f, File(n, TRUE, NoCites)) /\ File(n, TRUE, NoCites).stamp[1] = run
           /\ File(n, TRUE, NoCites).ok = TRUE
           /\ WellMade(f, File(n, FALSE, NoCites)) /\ File(n, FALSE, NoCites).stamp[1] = run
           /\ File(n, FALSE, NoCites).ok = FALSE
<1>1. DOMAIN NoCites = {} BY DEF NoCites
<1>2. Stamp(n)[1] = run BY DEF Stamp
<1> QED BY <1>1, <1>2 DEF WellMade, File

\* A torn file cites nothing, so nothing wrong.
LEMMA TornWellMade ==
    ASSUME NEW f, run \in Nat
    PROVE  WellMade(f, Torn) /\ Torn.ok = FALSE /\ Torn.stamp[1] = run
BY PlainWellMade DEF Torn

\* The two writes of a report.
LEMMA ReportSound ==
    ASSUME NEW s \in Htmls, NEW n, NEW ok \in BOOLEAN, NEW cites, run \in Nat,
           (s = "packet" /\ Archive \in DOMAIN cites) => cites[Archive][1] = run
    PROVE  LET w == Report(s, n, ok, cites) IN
           /\ Sound(s, w) /\ Len(w) = 2 /\ DOMAIN w = 1 .. 2
           /\ w[1] = Write(Html(s), File(n, TRUE, NoCites))
           /\ w[2] = Write(Json(s), File(n, ok, Citing(Html(s), n, cites)))
<1> DEFINE h == Write(Html(s), File(n, TRUE, NoCites))
           j == Write(Json(s), File(n, ok, Citing(Html(s), n, cites)))
<1>1. Html(s) \in Files /\ Json(s) \in Files /\ Html(s)[1] = s /\ Json(s)[1] = s
      /\ Html(s) # Archive
  <2>1. s \in Jsons BY DEF Htmls, Jsons
  <2> QED BY <2>1, FilesAre, FileNames
<1>2. OfScript(s, h)
  <2>1. /\ WellMade(Html(s), File(n, TRUE, NoCites)) /\ File(n, TRUE, NoCites).stamp[1] = run
    BY PlainWellMade
  <2>2. h.file = Html(s) /\ h.content = File(n, TRUE, NoCites) BY DEF Write
  <2> HIDE DEF h
  <2> QED BY <1>1, <2>1, <2>2 DEF OfScript
<1>3. WellMade(Json(s), File(n, ok, Citing(Html(s), n, cites)))
  <2> DEFINE c == File(n, ok, Citing(Html(s), n, cites))
             C == Citing(Html(s), n, cites)
  <2>1. c.ok = ok /\ c.stamp = Stamp(n) /\ c.stamp[1] = run /\ c.cites = C
    BY FileFields
  <2>8. Adds(C, Html(s), Stamp(n), cites) BY CitingAdds
  <2> HIDE DEF c, C
  <2>2. c.cites[Html(s)] = c.stamp BY <2>1, <2>8 DEF Adds
  <2>3. \A r : Json(s) = Json(r) => r = s
    BY FileNames
  <2>4. (s = "packet" /\ Archive \in DOMAIN c.cites) => c.cites[Archive][1] = run
    <3> SUFFICES ASSUME s = "packet", Archive \in DOMAIN c.cites PROVE c.cites[Archive][1] = run
      OBVIOUS
    <3>1. Archive \in DOMAIN cites BY <1>1, <2>1, <2>8 DEF Adds
    <3>2. c.cites[Archive] = cites[Archive] BY <1>1, <2>1, <2>8, <3>1 DEF Adds
    <3> QED BY <3>1, <3>2
  <2>5. \A r \in Rendered : (Json(s) = Json(r) /\ Html(r) \in DOMAIN c.cites)
                               => c.cites[Html(r)] = c.stamp
    BY <2>2, <2>3
  <2>6. (Json(s) = Json("packet") /\ Archive \in DOMAIN c.cites) => c.cites[Archive][1] = c.stamp[1]
    BY <2>1, <2>3, <2>4
  <2>7. WellMade(Json(s), c) BY <2>1, <2>5, <2>6 DEF WellMade
  <2> QED BY <2>7 DEF c, C
<1>4. OfScript(s, j) BY <1>1, <1>3, FileFields, WriteFields DEF OfScript
<1>5. Report(s, n, ok, cites) = <<h, j>> BY DEF Report
<1> HIDE DEF h, j
<1>6. DOMAIN <<h, j>> = 1 .. 2 /\ Len(<<h, j>>) = 2 /\ <<h, j>>[1] = h /\ <<h, j>>[2] = j
  OBVIOUS
<1>7. \E W : <<h, j>> \in Seq(W)
  <2>1. <<h, j>> \in Seq({h, j}) OBVIOUS
  <2> QED BY <2>1
<1>8. \A k \in 1 .. 2 : k = 1 \/ k = 2 OBVIOUS
<1> QED BY <1>2, <1>4, <1>5, <1>6, <1>7, <1>8 DEF Sound, h, j

\* Sound writes are a sequence.
LEMMA SoundLen ==
    ASSUME NEW s, NEW w, Sound(s, w)
    PROVE  Len(w) \in Nat /\ DOMAIN w = 1 .. Len(w)
<1>1. PICK W : w \in Seq(W) BY DEF Sound
<1> QED BY <1>1, LenProperties

\* c is v and then w.
Joined(c, v, w) ==
    /\ Len(c) = Len(v) + Len(w)
    /\ \A k \in 1 .. Len(v) : c[k] = v[k]
    /\ \A k \in 1 .. Len(w) : c[Len(v) + k] = w[k]

\* Sound writes after sound writes are sound.
LEMMA SoundConcat ==
    ASSUME NEW s, NEW v, NEW w, Sound(s, v), Sound(s, w)
    PROVE  Sound(s, v \o w) /\ Joined(v \o w, v, w)
<1>1. PICK V : v \in Seq(V) BY DEF Sound
<1>2. PICK W : w \in Seq(W) BY DEF Sound
<1>3. Len(v) \in Nat /\ DOMAIN v = 1 .. Len(v) /\ Len(w) \in Nat /\ DOMAIN w = 1 .. Len(w)
  BY SoundLen
<1>4. v \in Seq(V \cup W) /\ w \in Seq(V \cup W)
  <2>1. v \in [1 .. Len(v) -> V \cup W] /\ w \in [1 .. Len(w) -> V \cup W]
    BY <1>1, <1>2, LenProperties
  <2> QED BY <1>3, <2>1
<1> DEFINE c == v \o w
<1>5. /\ c \in Seq(V \cup W) /\ Len(c) = Len(v) + Len(w)
      /\ \A i \in 1 .. Len(v) + Len(w) : c[i] = IF i <= Len(v) THEN v[i] ELSE w[i - Len(v)]
  BY <1>4, ConcatProperties
<1> HIDE DEF c
<1>6. \A k \in 1 .. Len(v) : c[k] = v[k] BY <1>3, <1>5
<1>7. \A k \in 1 .. Len(w) : c[Len(v) + k] = w[k]
  <2> SUFFICES ASSUME NEW k \in 1 .. Len(w) PROVE c[Len(v) + k] = w[k] OBVIOUS
  <2>1. Len(v) + k \in 1 .. Len(v) + Len(w) /\ ~(Len(v) + k <= Len(v)) /\ (Len(v) + k) - Len(v) = k
    BY <1>3
  <2> QED BY <1>5, <2>1
<1>8. \A i \in DOMAIN c : OfScript(s, c[i])
  <2> SUFFICES ASSUME NEW i \in DOMAIN c PROVE OfScript(s, c[i]) OBVIOUS
  <2>1. i \in 1 .. Len(v) + Len(w) BY <1>5, LenProperties
  <2>2. CASE i <= Len(v)
    <3>1. i \in DOMAIN v /\ c[i] = v[i] BY <1>3, <1>5, <2>1, <2>2
    <3> QED BY <3>1 DEF Sound
  <2>3. CASE ~(i <= Len(v))
    <3>1. i - Len(v) \in DOMAIN w /\ c[i] = w[i - Len(v)] BY <1>3, <1>5, <2>1, <2>3
    <3> QED BY <3>1 DEF Sound
  <2> QED BY <2>2, <2>3
<1>9. \E U : c \in Seq(U) BY <1>5
<1>10. Sound(s, c) BY <1>8, <1>9 DEF Sound
<1> QED BY <1>5, <1>6, <1>7, <1>10 DEF c, Joined

\* A single write.
LEMMA SoundOne ==
    ASSUME NEW s, NEW r, OfScript(s, r)
    PROVE  Sound(s, <<r>>) /\ Len(<<r>>) = 1 /\ <<r>>[1] = r
<1>1. <<r>> \in Seq({r}) /\ Len(<<r>>) = 1 /\ <<r>>[1] = r /\ DOMAIN <<r>> = 1 .. 1 OBVIOUS
<1>2. \A k \in 1 .. 1 : k = 1 OBVIOUS
<1>3. \E W : <<r>> \in Seq(W) BY <1>1
<1> QED BY <1>1, <1>2, <1>3 DEF Sound

\* No writes are sound.
LEMMA SoundNone == ASSUME NEW s PROVE Sound(s, << >>)
<1>1. \E W : << >> \in Seq(W) BY EmptySeq
<1>2. DOMAIN << >> = {} OBVIOUS
<1> QED BY <1>1, <1>2 DEF Sound

\* A beginning of what a script writes, and the next file torn.
LEMMA CutShape ==
    ASSUME NEW s, NEW w, Sound(s, w), NEW c \in Cut(w)
    PROVE  /\ \E W : c \in Seq(W)
           /\ \A k \in DOMAIN c :
                  \E i \in DOMAIN w : c[k] = w[i] \/ c[k] = Write(w[i].file, Torn)
<1> DEFINE W == {w[k] : k \in DOMAIN w}
<1>1. Len(w) \in Nat /\ DOMAIN w = 1 .. Len(w) BY SoundLen
<1>2. ASSUME NEW k \in 0 .. Len(w)
      PROVE  /\ SubSeq(w, 1, k) \in Seq(W) /\ Len(SubSeq(w, 1, k)) = k
             /\ \A i \in 1 .. k : SubSeq(w, 1, k)[i] = w[i]
  <2>1. 1 \in Int /\ k \in Int /\ \A i \in 1 .. k : w[i] \in W BY <1>1
  <2> HIDE DEF W
  <2>2. /\ SubSeq(w, 1, k) \in Seq(W)
        /\ Len(SubSeq(w, 1, k)) = IF 1 <= k THEN k-1+1 ELSE 0
        /\ \A i \in 1 .. k-1+1 : SubSeq(w, 1, k)[i] = w[1+i-1]
    BY <2>1, SubSeqProperties
  <2>3. k - 1 + 1 = k /\ \A i \in 1 .. k : 1 + i - 1 = i BY <1>1
  <2>4. Len(SubSeq(w, 1, k)) = k BY <2>2, <1>1
  <2> QED BY <2>2, <2>3, <2>4
<1>3. CASE \E k \in 0 .. Len(w) : c = SubSeq(w, 1, k)
  <2>1. PICK k \in 0 .. Len(w) : c = SubSeq(w, 1, k) BY <1>3
  <2>2. c \in Seq(W) /\ Len(c) = k /\ \A i \in 1 .. k : c[i] = w[i] BY <1>2, <2>1
  <2>3. DOMAIN c = 1 .. k /\ \A i \in 1 .. k : i \in DOMAIN w
    <3>1. DOMAIN c = 1 .. Len(c) BY <2>2, LenProperties
    <3> QED BY <1>1, <2>2, <3>1
  <2>4. \E U : c \in Seq(U) BY <2>2
  <2> QED BY <2>2, <2>3, <2>4
<1>4. CASE \E k \in 0 .. Len(w) - 1 :
               c = Append(SubSeq(w, 1, k), Write(w[k + 1].file, Torn))
  <2>1. PICK k \in 0 .. Len(w) - 1 : c = Append(SubSeq(w, 1, k), Write(w[k + 1].file, Torn))
    BY <1>4
  <2> DEFINE b == SubSeq(w, 1, k)
             t == Write(w[k + 1].file, Torn)
  <2>2. k \in 0 .. Len(w) /\ k \in Nat /\ k + 1 \in DOMAIN w BY <1>1
  <2>3. b \in Seq(W) /\ Len(b) = k /\ \A i \in 1 .. k : b[i] = w[i] BY <1>2, <2>2
  <2>5. c = Append(b, t) BY <2>1
  <2> HIDE DEF b, t, W
  <2>6. b \in Seq(W \cup {t})
    <3>1. b \in [1 .. Len(b) -> W \cup {t}] BY <2>3, LenProperties
    <3> QED BY <2>2, <2>3, <3>1
  <2>7. /\ Append(b, t) \in Seq(W \cup {t}) /\ Len(Append(b, t)) = Len(b) + 1
        /\ \A i \in 1 .. Len(b) : Append(b, t)[i] = b[i]
        /\ Append(b, t)[Len(b) + 1] = t
    BY <2>6, AppendProperties
  <2>8. DOMAIN c = 1 .. k + 1
    <3>1. DOMAIN c = 1 .. Len(c) BY <2>5, <2>7, LenProperties
    <3> QED BY <2>2, <2>3, <2>5, <2>7, <3>1
  <2>9. \A i \in 1 .. k + 1 : c[i] = t \/ (i \in DOMAIN w /\ c[i] = w[i])
    <3> SUFFICES ASSUME NEW i \in 1 .. k + 1 PROVE c[i] = t \/ (i \in DOMAIN w /\ c[i] = w[i])
      OBVIOUS
    <3>1. CASE i = k + 1 BY <2>3, <2>5, <2>7, <3>1
    <3>2. CASE i \in 1 .. k BY <1>1, <2>2, <2>3, <2>5, <2>7, <3>2
    <3> QED BY <2>2, <3>1, <3>2
  <2>10. \E U : c \in Seq(U) BY <2>5, <2>7
  <2> QED BY <2>2, <2>8, <2>9, <2>10 DEF t
<1> QED BY <1>3, <1>4 DEF Cut

\* Writes cut short by a crash are sound: a torn file is well made.
LEMMA CutSound ==
    ASSUME NEW s, NEW w, Sound(s, w), run \in Nat, NEW c \in Cut(w)
    PROVE  Sound(s, c)
<1>1. ASSUME NEW k \in DOMAIN c PROVE OfScript(s, c[k])
  <2>1. PICK i \in DOMAIN w : c[k] = w[i] \/ c[k] = Write(w[i].file, Torn) BY CutShape
  <2>2. OfScript(s, w[i]) BY DEF Sound
  <2>3. CASE c[k] = Write(w[i].file, Torn)
    <3>1. c[k].file = w[i].file /\ c[k].content = Torn BY <2>3, WriteFields
    <3>2. WellMade(c[k].file, Torn) /\ Torn.stamp[1] = run BY TornWellMade
    <3> QED BY <2>2, <3>1, <3>2 DEF OfScript
  <2> QED BY <2>1, <2>2, <2>3
<1>2. \E W : c \in Seq(W) BY CutShape
<1> QED BY <1>1, <1>2 DEF Sound

\* d is the disk with nothing but files of script s written to.
Touched(s, d) ==
    /\ DOMAIN d = Files
    /\ \A f \in Files : \/ d[f] = disk[f]
                        \/ (f[1] = s /\ d[f].stamp[1] = run /\ WellMade(f, d[f]))

\* A set of places in a sequence has a last one.
LEMMA GreatestIndex ==
    ASSUME NEW n \in Nat, NEW S, S \subseteq 1 .. n, S # {}
    PROVE  Max(S) \in S /\ \A k \in S : k <= Max(S)
<1> DEFINE T == {n - k : k \in S}
<1>6. \A y \in 1 .. n : y \in Nat /\ n - y \in Nat OBVIOUS
<1>1. T \subseteq Nat /\ T # {}
  <2>1. \A k \in S : n - k \in Nat BY <1>6
  <2> QED BY <2>1
<1>2. PICK m \in T : \A k \in T : m <= k
  <2> HIDE DEF T
  <2> QED BY <1>1, LeastNumber
<1>3. PICK x \in S : m = n - x BY <1>2
<1>4. \A k \in S : x >= k
  <2> SUFFICES ASSUME NEW k \in S PROVE x >= k OBVIOUS
  <2>1. n - k \in T OBVIOUS
  <2>2. n - x <= n - k BY <1>2, <1>3, <2>1
  <2>3. x \in Nat /\ k \in Nat BY <1>3
  <2> QED BY <2>2, <2>3
<1>5. Max(S) \in S /\ \A y \in S : Max(S) >= y BY <1>3, <1>4 DEF Max
<1>7. \A y \in S : y \in Nat BY <1>6
<1> QED BY <1>5, <1>7

\* What is on disk after some writes: of each file the last.
LEMMA AfterSound ==
    ASSUME NEW s, NEW w, Sound(s, w), NEW f \in Files
    PROVE  /\ (\A k \in DOMAIN w : w[k].file # f) => After(w)[f] = disk[f]
           /\ (\E k \in DOMAIN w : w[k].file = f) =>
                  \E k \in DOMAIN w : /\ w[k].file = f /\ After(w)[f] = w[k].content
                                      /\ \A j \in DOMAIN w : w[j].file = f => j <= k
<1> DEFINE S == {i \in DOMAIN w : w[i].file = f}
<1>1. After(w)[f] = IF S = {} THEN disk[f] ELSE w[Max(S)].content BY DEF After
<1>2. Len(w) \in Nat /\ DOMAIN w = 1 .. Len(w) BY SoundLen
<1>3. S \subseteq 1 .. Len(w) BY <1>2
<1>4. CASE S = {} BY <1>1, <1>4
<1>5. CASE S # {}
  <2>1. Max(S) \in S /\ \A k \in S : k <= Max(S)
    <3> HIDE DEF S
    <3> QED BY <1>2, <1>3, <1>5, GreatestIndex
  <2>2. Max(S) \in DOMAIN w /\ w[Max(S)].file = f
        /\ \A j \in DOMAIN w : w[j].file = f => j <= Max(S)
    BY <2>1
  <2>3. After(w)[f] = w[Max(S)].content BY <1>1, <1>5
  <2> QED BY <2>2, <2>3
<1> QED BY <1>4, <1>5

\* Sound writes touch the files of their script only, with this run's stamp.
LEMMA AfterTouches ==
    ASSUME NEW s, NEW w, Sound(s, w)
    PROVE  /\ Touched(s, After(w))
           /\ \A k \in DOMAIN w : After(w)[w[k].file].stamp[1] = run
<1>1. DOMAIN After(w) = Files BY DEF After
<1>2. ASSUME NEW k \in DOMAIN w
      PROVE  w[k].file \in Files /\ w[k].file[1] = s
             /\ w[k].content.stamp[1] = run /\ WellMade(w[k].file, w[k].content)
  BY <1>2 DEF Sound, OfScript
<1>3. ASSUME NEW f \in Files
      PROVE  \/ After(w)[f] = disk[f]
             \/ (f[1] = s /\ After(w)[f].stamp[1] = run /\ WellMade(f, After(w)[f]))
  <2>1. CASE \A k \in DOMAIN w : w[k].file # f
    <3>1. After(w)[f] = disk[f] BY <2>1, AfterSound
    <3> QED BY <3>1
  <2>2. CASE \E k \in DOMAIN w : w[k].file = f
    <3>1. PICK k \in DOMAIN w : w[k].file = f /\ After(w)[f] = w[k].content
      BY <2>2, AfterSound
    <3> QED BY <1>2, <3>1
  <2> QED BY <2>1, <2>2
<1>4. ASSUME NEW k \in DOMAIN w PROVE After(w)[w[k].file].stamp[1] = run
  <2>1. w[k].file \in Files BY <1>2
  <2>2. PICK j \in DOMAIN w : After(w)[w[k].file] = w[j].content BY <2>1, AfterSound
  <2> QED BY <1>2, <2>2
<1> QED BY <1>1, <1>3, <1>4 DEF Touched

\* The last write of a file is what is in it.
LEMMA AfterAt ==
    ASSUME NEW s, NEW w, Sound(s, w), NEW k \in DOMAIN w,
           \A j \in DOMAIN w : w[j].file = w[k].file => j <= k
    PROVE  After(w)[w[k].file] = w[k].content
<1>1. w[k].file \in Files BY DEF Sound, OfScript
<1>2. PICK j \in DOMAIN w : /\ w[j].file = w[k].file /\ After(w)[w[k].file] = w[j].content
                            /\ \A i \in DOMAIN w : w[i].file = w[k].file => i <= j
  BY <1>1, AfterSound
<1>3. j <= k /\ k <= j BY <1>2
<1>4. j \in Nat /\ k \in Nat
  <2>1. Len(w) \in Nat /\ DOMAIN w = 1 .. Len(w) BY SoundLen
  <2> QED BY <2>1
<1>5. j = k BY <1>3, <1>4
<1> QED BY <1>2, <1>5

-----------------------------------------------------------------------------
(* What each script writes                                                   *)

\* What is on disk comes from this run or an earlier one, and is well made.
DiskSound ==
    /\ run \in Nat /\ version \in Versions /\ DOMAIN disk = Files
    /\ \A f \in Files : WellMade(f, disk[f]) /\ disk[f].stamp[1] <= run

PacketReport  == Report("packet", 1, TRUE, Digests(Packed))
PacketArchive == Write(Archive, File(1, TRUE, Citing(Html("packet"), 1, Digests(Packed))))
PacketFinal   == Report("packet", 2, TRUE, Citing(Archive, 1, Digests(Packed)))

\* The packet packs neither itself nor its own page.
LEMMA ArchiveNotPacked == Archive \notin DOMAIN Digests(Packed) /\ Html("packet") \notin Packed
<1>1. Archive \notin Packed /\ Html("packet") \notin Packed
  BY CoreFilesAre, FileNames
<1> QED BY <1>1, DigestsAre

\* The packet writes its report, the archive, and its report again.
LEMMA PacketSound ==
    ASSUME run \in Nat
    PROVE  LET w == PacketWrites IN
           /\ Sound("packet", w) /\ Len(w) = 5
           /\ \A k \in 1 .. 2 : w[k] = PacketReport[k]
           /\ w[3] = PacketArchive
           /\ \A k \in 1 .. 2 : w[3 + k] = PacketFinal[k]
<1> DEFINE files == Digests(Packed)
           more  == Citing(Archive, 1, files)
<1>1. "packet" \in Htmls BY DEF Htmls, Rendered
<1>2. Archive \notin DOMAIN files BY ArchiveNotPacked
<1>3. more[Archive] = Stamp(1) /\ Stamp(1)[1] = run
  <2>1. Adds(more, Archive, Stamp(1), files) BY CitingAdds
  <2> QED BY <2>1, FileFields DEF Adds, Stamp
<1> HIDE DEF files, more
<1>4. Sound("packet", Report("packet", 1, TRUE, files)) /\ Len(Report("packet", 1, TRUE, files)) = 2
  BY ZenonT(30), <1>1, <1>2, ReportSound
<1>5. Sound("packet", Report("packet", 2, TRUE, more)) /\ Len(Report("packet", 2, TRUE, more)) = 2
  BY ZenonT(30), <1>1, <1>3, ReportSound
<1>6. OfScript("packet", PacketArchive)
  <2> DEFINE c == File(1, TRUE, Citing(Html("packet"), 1, Digests(Packed)))
  <2>1. c.ok = TRUE /\ c.stamp = Stamp(1) /\ Stamp(1)[1] = run BY FileOk
  <2>2. PacketArchive.file = Archive /\ PacketArchive.content = c BY WriteFields DEF PacketArchive
  <2> HIDE DEF c
  <2>3. \A s : Archive # Json(s) BY FileNames
  <2>4. WellMade(Archive, c) BY <2>1, <2>3 DEF WellMade
  <2>5. Archive \in Files /\ Archive[1] = "packet" BY FilesAre, FileNames
  <2> QED BY <2>1, <2>2, <2>4, <2>5 DEF OfScript
<1>7. PacketWrites = (PacketReport \o <<PacketArchive>>) \o PacketFinal
  BY DEF PacketWrites, PacketReport, PacketArchive, PacketFinal
<1>8. Sound("packet", PacketReport) /\ Len(PacketReport) = 2 BY <1>4 DEF PacketReport, files
<1>9. Sound("packet", PacketFinal) /\ Len(PacketFinal) = 2 BY <1>5 DEF PacketFinal, files, more
<1>10. Sound("packet", <<PacketArchive>>) /\ Len(<<PacketArchive>>) = 1
       /\ <<PacketArchive>>[1] = PacketArchive
  BY <1>6, SoundOne
<1> DEFINE p == "packet"
           A == <<PacketArchive>>
           v == PacketReport \o A
           w == v \o PacketFinal
<1>18. Sound(p, PacketReport) /\ Sound(p, A) /\ Sound(p, PacketFinal) BY <1>8, <1>9, <1>10
<1> HIDE DEF A, p
<1>11. /\ Sound(p, v) /\ Len(v) = 2 + 1
       /\ \A k \in 1 .. 2 : v[k] = PacketReport[k]
       /\ v[2 + 1] = PacketArchive
  <2>1. Sound(p, A) /\ Len(A) = 1 /\ A[1] = PacketArchive BY <1>10, <1>18 DEF A
  <2>2. Sound(p, v) /\ Joined(v, PacketReport, A) BY <1>18, SoundConcat
  <2> HIDE DEF v
  <2>3. 1 \in 1 .. 1 OBVIOUS
  <2> QED BY <1>8, <2>1, <2>2, <2>3 DEF Joined
<1> HIDE DEF v
<1>12. Sound(p, w) /\ Joined(w, v, PacketFinal) BY <1>11, <1>18, SoundConcat
<1> HIDE DEF w
<1>13. Len(v) = 3 /\ Len(w) = 5 BY <1>9, <1>11, <1>12 DEF Joined
<1>14. w[3] = PacketArchive
  <2>1. 3 \in 1 .. 3 /\ 2 + 1 = 3 OBVIOUS
  <2> QED BY <1>11, <1>12, <1>13, <2>1 DEF Joined
<1>15. \A k \in 1 .. 2 : w[k] = PacketReport[k]
  <2>1. \A k \in 1 .. 2 : k \in 1 .. 3 OBVIOUS
  <2> QED BY <1>11, <1>12, <1>13, <2>1 DEF Joined
<1>16. \A k \in 1 .. 2 : w[3 + k] = PacketFinal[k] BY <1>9, <1>12, <1>13 DEF Joined
<1>17. PacketWrites = w BY <1>7 DEF w, v, A
<1> QED BY <1>12, <1>13, <1>14, <1>15, <1>16, <1>17 DEF p

\* The scripts that write one report and its manifest, and nothing else.
Reporters == {"benchmark", "index", "procurement", "queue", "figma"}

Cites(s) == IF s = "index" THEN Digests(Indexed) ELSE NoCites

\* What each script writes, one by one.
LEMMA WritesAre ==
    /\ \A ok : Writes("build", ok) = BuildWrites
    /\ \A ok : Writes("acceptance", ok) = AcceptanceWrites
    /\ \A ok : Writes("packet", ok) = PacketWrites
    /\ \A s \in {"sales", "final"} : Writes(s, TRUE) = GateWrites(s, TRUE)
                                     /\ Writes(s, FALSE) = GateWrites(s, FALSE)
    /\ \A s \in Reporters : Writes(s, TRUE) = Report(s, 1, TRUE, Cites(s))
                            /\ Writes(s, FALSE) = Report(s, 1, FALSE, Cites(s))
<1>1. \A ok : Writes("build", ok) = BuildWrites BY DEF Writes
<1>2. \A ok : Writes("acceptance", ok) = AcceptanceWrites BY DEF Writes
<1>3. \A ok : Writes("packet", ok) = PacketWrites BY DEF Writes
<1>4. \A s \in {"sales", "final"} : Writes(s, TRUE) = GateWrites(s, TRUE)
                                    /\ Writes(s, FALSE) = GateWrites(s, FALSE)
  BY DEF Writes
<1>5. \A ok : Writes("benchmark", ok) = Report("benchmark", 1, ok, Cites("benchmark"))
  BY DEF Writes, BenchmarkWrites, Cites
<1>6. \A ok : Writes("index", ok) = Report("index", 1, ok, Cites("index"))
  BY DEF Writes, IndexWrites, Cites
<1>7. \A ok : Writes("procurement", ok) = Report("procurement", 1, ok, Cites("procurement"))
  BY DEF Writes, ProcurementWrites, Cites
<1>8. \A ok : Writes("queue", ok) = Report("queue", 1, ok, Cites("queue"))
  BY DEF Writes, QueueWrites, Cites
<1>9. \A ok : Writes("figma", ok) = Report("figma", 1, ok, Cites("figma"))
  BY DEF Writes, FigmaWrites, Cites
<1>10. \A s \in Reporters : \A ok : Writes(s, ok) = Report(s, 1, ok, Cites(s))
  BY <1>5, <1>6, <1>7, <1>8, <1>9 DEF Reporters
<1> QED BY <1>1, <1>2, <1>3, <1>4, <1>10

\* The build writes the wheel of the version.
LEMMA BuildSound ==
    ASSUME DiskSound
    PROVE  Sound("build", BuildWrites)
<1> DEFINE r == Write(<<"build", version>>, File(1, TRUE, NoCites))
<1>1. <<"build", version>> \in Files /\ <<"build", version>>[1] = "build"
  BY FilesAre DEF DiskSound
<1>2. WellMade(<<"build", version>>, File(1, TRUE, NoCites)) /\ File(1, TRUE, NoCites).stamp[1] = run
  BY PlainWellMade DEF DiskSound
<1>3. r.file = <<"build", version>> /\ r.content = File(1, TRUE, NoCites) BY DEF Write
<1> HIDE DEF r
<1>4. OfScript("build", r) BY <1>1, <1>2, <1>3 DEF OfScript
<1>5. Sound("build", <<r>>) BY <1>4, SoundOne
<1> QED BY <1>5 DEF r, BuildWrites

\* The acceptance script writes its outputs, then the report that cites them.
LEMMA AcceptanceSound ==
    ASSUME DiskSound
    PROVE  /\ Sound("acceptance", AcceptanceWrites) /\ DOMAIN AcceptanceWrites = 1 .. 2
           /\ AcceptanceWrites[2].file = Json("acceptance")
<1> DEFINE o == Write(Outputs, File(1, TRUE, NoCites))
           c == File(1, TRUE, Citing(Outputs, 1, NoCites))
           j == Write(Json("acceptance"), c)
<1>1. OfScript("acceptance", o)
  <2>1. WellMade(Outputs, File(1, TRUE, NoCites)) /\ File(1, TRUE, NoCites).stamp[1] = run
    BY PlainWellMade DEF DiskSound
  <2>2. o.file = Outputs /\ o.content = File(1, TRUE, NoCites) BY DEF Write
  <2> HIDE DEF o
  <2> QED BY <2>1, <2>2, FilesAre, FileNames DEF OfScript
<1>2. OfScript("acceptance", j) /\ j.file = Json("acceptance")
  <2>1. c.ok = TRUE /\ c.stamp = Stamp(1) /\ Stamp(1)[1] = run BY FileOk
  <2>2. j.file = Json("acceptance") /\ j.content = c BY DEF Write
  <2> HIDE DEF j, c
  <2>3. \A s \in Rendered \cup {"packet"} : Json("acceptance") # Json(s)
    BY FileNames DEF Rendered
  <2>4. WellMade(Json("acceptance"), c) BY <2>1, <2>3 DEF WellMade, DiskSound
  <2>5. Json("acceptance") \in Files /\ Json("acceptance")[1] = "acceptance"
    BY FilesAre, FileNames DEF Jsons
  <2> QED BY <2>1, <2>2, <2>4, <2>5 DEF OfScript
<1>3. AcceptanceWrites = <<o, j>> BY DEF AcceptanceWrites
<1> HIDE DEF o, j
<1>4. <<o, j>> \in Seq({o, j}) /\ DOMAIN <<o, j>> = 1 .. 2 /\ <<o, j>>[1] = o /\ <<o, j>>[2] = j
  OBVIOUS
<1>5. \E W : <<o, j>> \in Seq(W) BY <1>4
<1>6. \A k \in 1 .. 2 : k = 1 \/ k = 2 OBVIOUS
<1> QED BY <1>1, <1>2, <1>3, <1>4, <1>5, <1>6 DEF Sound

\* A gate writes its verdict.
LEMMA GateSound ==
    ASSUME DiskSound, NEW s \in {"sales", "final"}
    PROVE  /\ Sound(s, GateWrites(s, TRUE)) /\ Sound(s, GateWrites(s, FALSE))
           /\ DOMAIN GateWrites(s, TRUE) = 1 .. 1
           /\ GateWrites(s, TRUE)[1].file = Json(s)
           /\ GateWrites(s, TRUE)[1].content.ok = TRUE
<1>1. Json(s) \in Files /\ Json(s)[1] = s BY FilesAre, FileNames DEF Jsons
<1> DEFINE t == Write(Json(s), File(1, TRUE, NoCites))
           e == Write(Json(s), File(1, FALSE, NoCites))
<1>2. /\ WellMade(Json(s), File(1, TRUE, NoCites)) /\ File(1, TRUE, NoCites).stamp[1] = run
      /\ WellMade(Json(s), File(1, FALSE, NoCites)) /\ File(1, FALSE, NoCites).stamp[1] = run
      /\ File(1, TRUE, NoCites).ok = TRUE
  BY PlainWellMade DEF DiskSound
<1>3. t.file = Json(s) /\ t.content = File(1, TRUE, NoCites) BY DEF Write
<1>4. e.file = Json(s) /\ e.content = File(1, FALSE, NoCites) BY DEF Write
<1>5. GateWrites(s, TRUE) = <<t>> /\ GateWrites(s, FALSE) = <<e>> BY DEF GateWrites
<1> HIDE DEF t, e
<1>6. OfScript(s, t) /\ OfScript(s, e) BY <1>1, <1>2, <1>3, <1>4 DEF OfScript
<1>7. Sound(s, <<t>>) /\ Sound(s, <<e>>) BY <1>6, SoundOne
<1>8. DOMAIN <<t>> = 1 .. 1 /\ <<t>>[1] = t OBVIOUS
<1>9. t.content.ok = TRUE BY <1>2, <1>3
<1> QED BY <1>3, <1>5, <1>7, <1>8, <1>9

\* A reporter writes its page, then the record that cites it.
LEMMA ReporterSound ==
    ASSUME DiskSound, NEW s \in Reporters
    PROVE  /\ Sound(s, Report(s, 1, TRUE, Cites(s))) /\ Sound(s, Report(s, 1, FALSE, Cites(s)))
           /\ DOMAIN Report(s, 1, TRUE, Cites(s)) = 1 .. 2
           /\ Report(s, 1, TRUE, Cites(s))[1].file = Html(s)
           /\ Report(s, 1, TRUE, Cites(s))[2].file = Json(s)
           /\ Report(s, 1, TRUE, Cites(s))[2].content =
                  File(1, TRUE, Citing(Html(s), 1, Cites(s)))
<1>1. s \in Htmls /\ s # "packet" BY DEF Reporters, Htmls, Rendered
<1>2. run \in Nat BY DEF DiskSound
<1> DEFINE c == Cites(s)
<1> HIDE DEF c
<1>3. /\ Sound(s, Report(s, 1, TRUE, c)) /\ DOMAIN Report(s, 1, TRUE, c) = 1 .. 2
      /\ Report(s, 1, TRUE, c)[1] = Write(Html(s), File(1, TRUE, NoCites))
      /\ Report(s, 1, TRUE, c)[2] = Write(Json(s), File(1, TRUE, Citing(Html(s), 1, c)))
  <2>1. Sound(s, Report(s, 1, TRUE, c)) BY <1>1, <1>2, ReportSound
  <2>2. Report(s, 1, TRUE, c) = <<Write(Html(s), File(1, TRUE, NoCites)),
                                  Write(Json(s), File(1, TRUE, Citing(Html(s), 1, c)))>>
    BY DEF Report
  <2>3. \A x, y : DOMAIN <<x, y>> = 1 .. 2 /\ <<x, y>>[1] = x /\ <<x, y>>[2] = y OBVIOUS
  <2> QED BY ZenonT(30), <2>1, <2>2, <2>3
<1>4. Sound(s, Report(s, 1, FALSE, c)) BY <1>1, <1>2, ReportSound
<1>5. /\ Write(Html(s), File(1, TRUE, NoCites)).file = Html(s)
      /\ Write(Json(s), File(1, TRUE, Citing(Html(s), 1, c))).file = Json(s)
      /\ Write(Json(s), File(1, TRUE, Citing(Html(s), 1, c))).content
             = File(1, TRUE, Citing(Html(s), 1, c))
  BY DEF Write
<1> QED BY <1>3, <1>4, <1>5 DEF c

\* Whatever it writes, a script writes its own files, well made.
LEMMA WritesSound ==
    ASSUME DiskSound, NEW s \in Scripts
    PROVE  Sound(s, Writes(s, TRUE)) /\ Sound(s, Writes(s, FALSE))
<1>1. CASE s = "build" BY <1>1, BuildSound, WritesAre
<1>2. CASE s = "acceptance" BY <1>2, AcceptanceSound, WritesAre
<1>3. CASE s = "packet"
  <2>1. Sound("packet", PacketWrites) BY PacketSound DEF DiskSound
  <2> QED BY <1>3, <2>1, WritesAre
<1>4. CASE s \in {"sales", "final"} BY <1>4, GateSound, WritesAre
<1>5. CASE s \in Reporters BY <1>5, ReporterSound, WritesAre
<1> QED BY <1>1, <1>2, <1>3, <1>4, <1>5 DEF Scripts, Reporters

\* What a script that fails leaves behind is sound too.
LEMMA LeavesSound ==
    ASSUME DiskSound, NEW s \in Scripts, NEW w \in Leaves(s)
    PROVE  Sound(s, w)
<1>1. Sound(s, Writes(s, TRUE)) /\ Sound(s, Writes(s, FALSE)) BY WritesSound
<1>2. \/ w = << >> \/ w \in Cut(Writes(s, TRUE)) \/ w \in Cut(Writes(s, FALSE)) BY DEF Leaves
<1>3. run \in Nat BY DEF DiskSound
<1> QED BY <1>1, <1>2, <1>3, SoundNone, CutSound

\* A script that passes stamps every core file of its own with this run.
LEMMA PassStamps ==
    ASSUME DiskSound, NEW s \in Scripts, NEW f \in CoreFiles, f[1] = s
    PROVE  After(Writes(s, TRUE))[f].stamp[1] = run
<1> DEFINE w == Writes(s, TRUE)
<1>1. Sound(s, w) BY WritesSound
<1>2. SUFFICES \E k \in DOMAIN w : w[k].file = f
  <2> HIDE DEF w
  <2>1. \A k \in DOMAIN w : After(w)[w[k].file].stamp[1] = run BY <1>1, AfterTouches
  <2> QED BY <2>1 DEF w
<1>3. f \in {Json(r) : r \in CoreScripts}
           \cup {Html(r) : r \in {"benchmark", "packet", "index"}} \cup {Archive}
  BY CoreFilesAre
<1>4. \/ s \in CoreScripts /\ f = Json(s)
      \/ s \in {"benchmark", "packet", "index"} /\ f = Html(s)
      \/ s = "packet" /\ f = Archive
  BY <1>3, FileNames
<1>5. CASE s = "acceptance"
  <2>1. f = Json("acceptance") BY <1>4, <1>5
  <2>2. w = AcceptanceWrites BY <1>5, WritesAre
  <2>3. DOMAIN w = 1 .. 2 /\ w[2].file = f BY <2>1, <2>2, AcceptanceSound
  <2> HIDE DEF w
  <2>4. 2 \in DOMAIN w BY <2>3
  <2> QED BY <2>3, <2>4
<1>6. CASE s \in {"sales", "final"}
  <2>1. f = Json(s) BY <1>4, <1>6
  <2>2. w = GateWrites(s, TRUE) BY <1>6, WritesAre
  <2>3. DOMAIN w = 1 .. 1 /\ w[1].file = f BY <1>6, <2>1, <2>2, GateSound
  <2> HIDE DEF w
  <2>4. 1 \in DOMAIN w BY <2>3
  <2> QED BY <2>3, <2>4
<1>7. CASE s \in {"benchmark", "index"}
  <2>1. s \in Reporters /\ s # "packet" BY <1>7 DEF Reporters
  <2>2. f = Json(s) \/ f = Html(s) BY <1>4, <2>1
  <2>3. w = Report(s, 1, TRUE, Cites(s)) BY <2>1, WritesAre
  <2>4. DOMAIN w = 1 .. 2 /\ w[1].file = Html(s) /\ w[2].file = Json(s) BY <2>1, <2>3, ReporterSound
  <2> HIDE DEF w
  <2>5. 1 \in DOMAIN w /\ 2 \in DOMAIN w BY <2>4
  <2> QED BY <2>2, <2>4, <2>5
<1>8. CASE s = "packet"
  <2>1. f = Json("packet") \/ f = Html("packet") \/ f = Archive BY <1>4, <1>8
  <2>2. w = PacketWrites BY <1>8, WritesAre
  <2>3. w[3].file = Archive /\ w[1].file = Html("packet") /\ w[2].file = Json("packet")
        /\ DOMAIN w = 1 .. 5
    <3>1. /\ Sound("packet", w) /\ Len(w) = 5
          /\ \A k \in 1 .. 2 : w[k] = PacketReport[k]
          /\ w[3] = PacketArchive
      BY <2>2, PacketSound DEF DiskSound
    <3>2. PacketReport[1].file = Html("packet") /\ PacketReport[2].file = Json("packet")
      BY DEF PacketReport, Report, Write
    <3>3. PacketArchive.file = Archive BY DEF PacketArchive, Write
    <3> HIDE DEF w
    <3>4. DOMAIN w = 1 .. 5 BY <3>1, SoundLen
    <3>5. 1 \in 1 .. 2 /\ 2 \in 1 .. 2 OBVIOUS
    <3> QED BY <3>1, <3>2, <3>3, <3>4, <3>5
  <2> HIDE DEF w
  <2>4. 1 \in DOMAIN w /\ 2 \in DOMAIN w /\ 3 \in DOMAIN w BY <2>3
  <2> QED BY <2>1, <2>3, <2>4
<1>9. s \in CoreScripts BY CoreFilesAre
<1> QED BY <1>5, <1>6, <1>7, <1>8, <1>9 DEF CoreScripts

\* The final gate that passes says so.
LEMMA PassFinal ==
    ASSUME DiskSound
    PROVE  After(Writes("final", TRUE))[Json("final")].ok = TRUE
<1> DEFINE s == "final"
           w == Writes(s, TRUE)
<1>1. s \in {"sales", "final"} /\ s \in Scripts BY DEF Scripts
<1>2. Sound(s, w) BY <1>1, WritesSound
<1>3. DOMAIN w = 1 .. 1 /\ w[1].file = Json(s) /\ w[1].content.ok = TRUE
  BY <1>1, GateSound, WritesAre
<1> HIDE DEF s, w
<1>4. 1 \in DOMAIN w /\ \A j \in DOMAIN w : j <= 1 BY <1>3
<1>5. After(w)[w[1].file] = w[1].content BY <1>2, <1>4, AfterAt
<1> QED BY <1>3, <1>5 DEF s, w

\* The index that passes cites the files it indexed as they are.
LEMMA PassIndex ==
    ASSUME DiskSound
    PROVE  Adds(After(Writes("index", TRUE))[Json("index")].cites, Html("index"), Stamp(1),
                Digests(Indexed))
<1> DEFINE s == "index"
           w == Writes(s, TRUE)
           c == Citing(Html(s), 1, Cites(s))
<1>1. s \in Reporters /\ s \in Scripts BY DEF Scripts, Reporters
<1>2. Sound(s, w) BY <1>1, WritesSound
<1>3. DOMAIN w = 1 .. 2 /\ w[2].file = Json(s) /\ w[2].content = File(1, TRUE, c)
  BY <1>1, ReporterSound, WritesAre
<1>4. File(1, TRUE, c).cites = c BY FileOk
<1>5. Adds(c, Html(s), Stamp(1), Cites(s)) BY CitingAdds
<1>6. Cites(s) = Digests(Indexed) BY DEF Cites
<1> HIDE DEF s, w, c
<1>7. 2 \in DOMAIN w /\ \A j \in DOMAIN w : j <= 2 BY <1>3
<1>8. After(w)[w[2].file] = w[2].content BY <1>2, <1>7, AfterAt
<1>9. After(w)[Json(s)].cites = c BY <1>3, <1>4, <1>8
<1> QED BY <1>5, <1>6, <1>9 DEF s, w

\* The archive that passes cites what was packed as it is.
LEMMA PassPacket ==
    ASSUME DiskSound
    PROVE  Adds(After(Writes("packet", TRUE))[Archive].cites, Html("packet"), Stamp(1),
                Digests(Packed))
<1> DEFINE w == PacketWrites
           c == Citing(Html("packet"), 1, Digests(Packed))
           p == "packet"
<1>1. Writes("packet", TRUE) = w BY WritesAre
<1>2. Sound(p, w) /\ Len(w) = 5 /\ w[3] = PacketArchive /\ \A k \in 1 .. 2 : w[3 + k] = PacketFinal[k]
  BY PacketSound DEF DiskSound
<1>3. PacketArchive.file = Archive /\ PacketArchive.content = File(1, TRUE, c)
  BY DEF PacketArchive, Write
<1>4. PacketFinal[1].file # Archive /\ PacketFinal[2].file # Archive
  <2>1. PacketFinal[1].file = Html("packet") /\ PacketFinal[2].file = Json("packet")
    BY DEF PacketFinal, Report, Write
  <2> QED BY <2>1, FileNames
<1>5. File(1, TRUE, c).cites = c BY FileOk
<1>6. Adds(c, Html("packet"), Stamp(1), Digests(Packed)) BY CitingAdds
<1> HIDE DEF w, c, p
<1>7. DOMAIN w = 1 .. 5 BY <1>2, SoundLen
<1>8. w[4].file # Archive /\ w[5].file # Archive
  <2>1. 1 \in 1 .. 2 /\ 2 \in 1 .. 2 /\ 3 + 1 = 4 /\ 3 + 2 = 5 OBVIOUS
  <2>2. w[4] = PacketFinal[1] /\ w[5] = PacketFinal[2] BY <1>2, <2>1
  <2> QED BY <1>4, <2>2
<1>9. 3 \in DOMAIN w /\ w[3].file = Archive /\ \A j \in DOMAIN w : w[j].file = w[3].file => j <= 3
  <2>1. \A j \in 1 .. 5 : j <= 3 \/ j = 4 \/ j = 5 OBVIOUS
  <2>2. 3 \in 1 .. 5 OBVIOUS
  <2> QED BY <1>2, <1>3, <1>7, <1>8, <2>1, <2>2
<1>10. After(w)[w[3].file] = w[3].content BY <1>2, <1>9, AfterAt
<1>11. After(w)[Archive].cites = c BY <1>2, <1>3, <1>5, <1>9, <1>10
<1> QED BY <1>1, <1>6, <1>11

\* The procurement pack that passes is for the version.
LEMMA PassProcurement ==
    ASSUME DiskSound
    PROVE  After(Writes("procurement", TRUE))[Json("procurement")].version = version
<1> DEFINE s == "procurement"
           w == Writes(s, TRUE)
           c == Citing(Html(s), 1, Cites(s))
<1>1. s \in Reporters /\ s \in Scripts BY DEF Scripts, Reporters
<1>2. Sound(s, w) BY <1>1, WritesSound
<1>3. DOMAIN w = 1 .. 2 /\ w[2].file = Json(s) /\ w[2].content = File(1, TRUE, c)
  BY <1>1, ReporterSound, WritesAre
<1>4. File(1, TRUE, c).version = version BY FileOk
<1> HIDE DEF s, w, c
<1>5. 2 \in DOMAIN w /\ \A j \in DOMAIN w : j <= 2 BY <1>3
<1>6. After(w)[w[2].file] = w[2].content BY <1>2, <1>5, AfterAt
<1> QED BY <1>3, <1>4, <1>6 DEF s, w

\* The manifest says whether the run succeeded and cites every listed file as it is.
LEMMA PublishIs ==
    ASSUME DiskSound
    PROVE  /\ Sound("release", ManifestWrites)
           /\ After(ManifestWrites)[Json("release")].ok = Succeeded
           /\ After(ManifestWrites)[Json("release")].stamp[1] = run
           /\ Adds(After(ManifestWrites)[Json("release")].cites, Html("release"),
                   Stamp(Len(stages)), Digests(Listed))
<1> DEFINE s == "release"
           n == Len(stages)
           ok == Succeeded
           cites == Digests(Listed)
           w == Report(s, n, ok, cites)
           c == Citing(Html(s), n, cites)
<1>1. s \in Htmls /\ s # "packet" BY DEF Htmls
<1>2. ok \in BOOLEAN BY DEF Succeeded
<1>3. run \in Nat BY DEF DiskSound
<1>4. ManifestWrites = w BY DEF ManifestWrites
<1> HIDE DEF s, n, ok, cites
<1>5. /\ Sound(s, w) /\ DOMAIN w = 1 .. 2
      /\ w[2] = Write(Json(s), File(n, ok, c))
  BY <1>1, <1>2, <1>3, ReportSound
<1>6. /\ File(n, ok, c).ok = ok /\ File(n, ok, c).stamp[1] = run /\ File(n, ok, c).cites = c
  BY FileFields
<1>7. Adds(c, Html(s), Stamp(n), cites) BY CitingAdds
<1>8. w[2].file = Json(s) /\ w[2].content = File(n, ok, c) BY <1>5, WriteFields
<1> HIDE DEF w, c
<1>9. 2 \in DOMAIN w /\ \A j \in DOMAIN w : j <= 2 BY <1>5
<1>10. After(w)[w[2].file] = w[2].content BY <1>5, <1>9, AfterAt
<1>11. /\ After(w)[Json(s)].ok = ok /\ After(w)[Json(s)].stamp[1] = run
       /\ After(w)[Json(s)].cites = c
  BY <1>6, <1>8, <1>10
<1> QED BY <1>4, <1>5, <1>7, <1>11 DEF s, n, ok, cites

-----------------------------------------------------------------------------
(* The invariant                                                             *)

ChainTyped ==
    /\ version \in Versions /\ moves \in 0 .. MaxMoves /\ run \in 0 .. MaxRuns
    /\ options \in Options /\ phase \in {"idle", "stage", "publish"}
    /\ stages \in Seq(Scripts \X BOOLEAN) /\ pending \in Seq(Scripts)
    /\ DiskSound

Begun     == phase # "idle" \/ stages # <<>>
AllPassed == \A i \in DOMAIN stages : stages[i][2]

\* A run goes through its plan up to the first script that does not pass; it
\* publishes with the final gate passed or with a failure.
PlanFollowed ==
    Begun =>
        /\ run >= 1
        /\ Len(stages) <= Len(Plan(options))
        /\ \A i \in 1 .. Len(stages) : stages[i][1] = Plan(options)[i]
        /\ \A i \in 1 .. Len(stages) - 1 : stages[i][2]
        /\ AllPassed =>
               /\ Len(stages) + Len(pending) = Len(Plan(options))
               /\ \A i \in 1 .. Len(pending) : pending[i] = Plan(options)[Len(stages) + i]
        /\ ~AllPassed => pending = <<>> /\ phase # "stage"
        /\ phase = "stage" => pending # <<>>
        /\ phase # "stage" => stages # <<>> /\ (AllPassed => Len(stages) >= FinalAt(options))

\* What has this run's stamp was written by one of the scripts it ran.
OwnFiles ==
    Begun => \A f \in Files : disk[f].stamp[1] = run =>
                 f[1] = "release" \/ \E i \in 1 .. Len(stages) : stages[i][1] = f[1]

\* A run that ended by itself has told how.
Told ==
    (phase = "idle" /\ stages # <<>>) =>
        /\ disk[Json("release")].stamp[1] = run
        /\ disk[Json("release")].ok = AllPassed
        /\ AllPassed => pending = <<>>

\* the archive is up to date, the index is, and the wheel is the one bought
PackedCited ==
    \A f \in Packed : Exists(f) => f \in DOMAIN disk[Archive].cites
                                   /\ disk[Archive].cites[f] = disk[f].stamp

IndexedMatched == \A f \in Indexed : Exists(f) => Matches(Json("index"), f)

WheelBought ==
    /\ Dist # {} /\ disk[Wheel].ok
    /\ Wheel = <<"build", disk[Json("procurement")].version>>

\* what there is after script s has passed
Effect(s) ==
    /\ \A f \in CoreFiles : f[1] = s => disk[f].stamp[1] = run
    /\ s = "packet" => PackedCited
    /\ s = "index" => IndexedMatched
    /\ s = "final" => disk[Json("final")].ok /\ Dist # {}
    /\ s = "procurement" => WheelBought

\* s is a script of the run that has passed.
Done(s) == \E i \in 1 .. Len(stages) : stages[i][1] = s /\ stages[i][2]

Evidence == \A s \in Scripts : Done(s) => Effect(s)

\* What a released manifest lists is of its run and is there with the digest listed.
Backed ==
    Released =>
        /\ \A f \in CoreFiles : disk[f].stamp[1] = run /\ Matches(Json("release"), f)
        /\ PackedCited /\ IndexedMatched
        /\ Dist # {} /\ Matches(Json("release"), Wheel)
        /\ \A f \in DOMAIN disk[Json("release")].cites : f[1] = "build" => f = Wheel
        /\ phase # "idle" => Len(stages) >= FinalAt(options)

ChainInv == ChainTyped /\ PlanFollowed /\ OwnFiles /\ Told /\ Evidence /\ Backed

-----------------------------------------------------------------------------
(* The order of the scripts                                                  *)

\* h writes nothing that what s leaves behind rests on.
CanFollow(h, s) ==
    /\ h # s /\ h # "build"
    /\ s = "packet" => h \notin {"acceptance", "benchmark", "sales"}
    /\ s = "index" => h \notin {"acceptance", "benchmark", "sales", "packet"}

\* Where the final gate is.
LEMMA FinalNat == \A o \in Options : FinalAt(o) \in Nat
BY DEF FinalAt, Before

\* Each script has its place in the plan.
LEMMA PlanPlaces ==
    ASSUME NEW o \in Options, NEW k \in 1 .. Len(Plan(o))
    PROVE  /\ Plan(o)[k] = "build" => k = 1 /\ k <= Before(o)
           /\ Plan(o)[k] = "acceptance" => k = Before(o) + 1
           /\ Plan(o)[k] = "benchmark" => k = Before(o) + 2
           /\ Plan(o)[k] = "sales" => k = Before(o) + 3
           /\ Plan(o)[k] = "packet" => k = Before(o) + 4
           /\ Plan(o)[k] = "index" => k = Before(o) + 5
           /\ Plan(o)[k] = "final" => k = Before(o) + 6
           /\ k < FinalAt(o) => InCore(Plan(o)[k]) /\ Plan(o)[k] # "final"
           /\ k > FinalAt(o) => Plan(o)[k] \in ExtraScripts
<1> DEFINE P == Plan(o)
           b == Before(o)
<1>1. /\ Len(P) \in Nat /\ Len(P) >= b + 6 /\ b \in {0, 1}
      /\ b = 1 => P[1] = "build"
      /\ \A i \in 1 .. 6 : P[b + i] = Core[i]
      /\ \A i \in b + 7 .. Len(P) : P[i] \in ExtraScripts
      /\ \A j, i \in 1 .. Len(P) : P[j] = P[i] => j = i
  <2>1. FinalAt(o) = b + 6 /\ FinalAt(o) + 1 = b + 7 /\ b \in {0, 1} BY PlanShape DEF FinalAt
  <2> QED BY <2>1, PlanShape
<1>2. /\ Core[1] = "acceptance" /\ Core[2] = "benchmark" /\ Core[3] = "sales"
      /\ Core[4] = "packet" /\ Core[5] = "index" /\ Core[6] = "final"
  BY DEF Core
<1>3. FinalAt(o) = b + 6 BY DEF FinalAt
<1> HIDE DEF P, b
<1>4. /\ P[b + 1] = "acceptance" /\ P[b + 2] = "benchmark" /\ P[b + 3] = "sales"
      /\ P[b + 4] = "packet" /\ P[b + 5] = "index" /\ P[b + 6] = "final"
  <2>1. 1 \in 1 .. 6 /\ 2 \in 1 .. 6 /\ 3 \in 1 .. 6 /\ 4 \in 1 .. 6 /\ 5 \in 1 .. 6 /\ 6 \in 1 .. 6
    OBVIOUS
  <2> QED BY <1>1, <1>2, <2>1
<1>5. /\ b + 1 \in 1 .. Len(P) /\ b + 2 \in 1 .. Len(P) /\ b + 3 \in 1 .. Len(P)
      /\ b + 4 \in 1 .. Len(P) /\ b + 5 \in 1 .. Len(P) /\ b + 6 \in 1 .. Len(P)
  BY <1>1
<1>6. k \in 1 .. Len(P) BY DEF P
<1>7. /\ P[k] = "acceptance" => k = b + 1
      /\ P[k] = "benchmark" => k = b + 2
      /\ P[k] = "sales" => k = b + 3
      /\ P[k] = "packet" => k = b + 4
      /\ P[k] = "index" => k = b + 5
      /\ P[k] = "final" => k = b + 6
  BY <1>1, <1>4, <1>5, <1>6
<1>8. k > b + 6 => P[k] \in ExtraScripts
  <2>1. k > b + 6 => k \in b + 7 .. Len(P) BY <1>1, <1>6
  <2> QED BY <1>1, <2>1
<1>9. \/ (k = 1 /\ b = 1)
      \/ k = b + 1 \/ k = b + 2 \/ k = b + 3 \/ k = b + 4 \/ k = b + 5 \/ k = b + 6
      \/ k > b + 6
  BY <1>1, <1>6
<1>10. P[k] = "build" => k = 1 /\ k <= b
  <2>1. "build" \notin ExtraScripts BY DEF ExtraScripts
  <2> QED BY <1>4, <1>8, <1>9, <2>1
<1>11. k < b + 6 => P[k] # "final" /\ P[k] \in CoreScripts \cup {"build"}
  <2> SUFFICES ASSUME k < b + 6 PROVE P[k] # "final" /\ P[k] \in CoreScripts \cup {"build"} OBVIOUS
  <2>1. P[k] # "final" BY <1>1, <1>6, <1>7
  <2>2. P[k] \in {"build", "acceptance", "benchmark", "sales", "packet", "index"}
    BY <1>1, <1>4, <1>6, <1>9
  <2> QED BY <2>1, <2>2 DEF CoreScripts
<1>12. k < b + 6 => InCore(P[k]) /\ P[k] # "final" BY <1>11, CoreIs
<1> QED BY <1>3, <1>7, <1>8, <1>10, <1>12 DEF P, b

\* In a plan, a later script leaves alone what an earlier one vouched for.
LEMMA LaterFollows ==
    ASSUME NEW o \in Options, NEW k \in 1 .. Len(Plan(o)), NEW i \in 1 .. k - 1
    PROVE  CanFollow(Plan(o)[k], Plan(o)[i])
<1> DEFINE P == Plan(o)
           b == Before(o)
<1>1. b \in {0, 1} /\ Len(P) \in Nat /\ \A j, h \in 1 .. Len(P) : P[j] = P[h] => j = h BY PlanShape
<1>2. i \in 1 .. Len(P) /\ i < k /\ i \in Nat /\ k \in Nat BY <1>1
<1>3. P[k] # P[i] BY <1>1, <1>2
<1>4. P[k] # "build"
  <2>1. P[k] = "build" => k = 1 BY PlanPlaces
  <2> QED BY <1>2, <2>1
<1>5. P[i] = "packet" => i = b + 4 BY <1>2, PlanPlaces
<1>6. P[i] = "index" => i = b + 5 BY <1>2, PlanPlaces
<1>7. /\ P[k] = "acceptance" => k = b + 1
      /\ P[k] = "benchmark" => k = b + 2
      /\ P[k] = "sales" => k = b + 3
      /\ P[k] = "packet" => k = b + 4
  BY PlanPlaces
<1> HIDE DEF P, b
<1>8. P[i] = "packet" => P[k] \notin {"acceptance", "benchmark", "sales"} BY <1>1, <1>2, <1>5, <1>7
<1>9. P[i] = "index" => P[k] \notin {"acceptance", "benchmark", "sales", "packet"}
  BY <1>1, <1>2, <1>6, <1>7
<1> QED BY <1>3, <1>4, <1>8, <1>9 DEF CanFollow, P

\* So does publishing the manifest.
LEMMA ReleaseFollows == \A s \in Scripts : CanFollow("release", s)
BY DEF CanFollow, Scripts

-----------------------------------------------------------------------------
(* What stays                                                                *)

\* Only the build changes dist.
LEMMA WheelsStay ==
    ASSUME NEW h, h # "build", Touched(h, disk')
    PROVE  Dist' = Dist /\ Wheel' = Wheel /\ \A v \in Versions : disk'[<<"build", v>>] = disk[<<"build", v>>]
<1>1. \A v \in Versions : <<"build", v>> \in Files /\ <<"build", v>>[1] # h BY FilesAre, FileNames
<1>2. \A v \in Versions : disk'[<<"build", v>>] = disk[<<"build", v>>] BY <1>1 DEF Touched
<1>3. Dist' = Dist BY <1>2 DEF Dist, Exists
<1>4. Wheel' = Wheel BY <1>3 DEF Wheel
<1> QED BY <1>2, <1>3, <1>4

\* With a wheel in dist, the wheel listed is one of those there.
LEMMA WheelIs ==
    ASSUME DiskSound, Dist # {}
    PROVE  /\ \E v \in Dist : Wheel = <<"build", v>>
           /\ Wheel \in Wheels /\ Wheel \in Files /\ Wheel[1] = "build" /\ Exists(Wheel)
<1>1. Dist \subseteq Versions BY DEF Dist
<1>2. Dist \subseteq Nat BY <1>1, ReleaseAssumption
<1>3. PICK m \in Dist : \A k \in Dist : m <= k BY <1>2, LeastNumber
<1>4. Min(Dist) \in Dist BY <1>3 DEF Min
<1>5. Wheel = <<"build", Min(Dist)>> BY DEF Wheel
<1>6. Min(Dist) \in Versions /\ Exists(<<"build", Min(Dist)>>) BY <1>4 DEF Dist
<1>7. <<"build", Min(Dist)>> \in Wheels /\ <<"build", Min(Dist)>> \in Files
      /\ <<"build", Min(Dist)>>[1] = "build"
  BY <1>6, FilesAre, FileNames DEF Wheels
<1> QED BY <1>4, <1>5, <1>6, <1>7

\* The packet's archive keeps what it cites.
LEMMA PackedStays ==
    ASSUME NEW h, Touched(h, disk'), PackedCited,
           h \notin {"build", "acceptance", "benchmark", "sales", "packet"}
    PROVE  PackedCited'
<1>1. disk'[Archive] = disk[Archive] BY FilesAre, FileNames DEF Touched
<1>2. \A f \in Packed : disk'[f] = disk[f] BY CoreFilesAre DEF Touched
<1> QED BY <1>1, <1>2 DEF PackedCited, Exists

\* A script that writes no indexed file leaves the index right.
LEMMA IndexedStays ==
    ASSUME NEW h, Touched(h, disk'), IndexedMatched,
           h \notin {"build", "acceptance", "benchmark", "sales", "packet", "index"}
    PROVE  IndexedMatched'
<1>1. disk'[Json("index")] = disk[Json("index")]
  <2>1. "index" \in Jsons BY DEF Jsons, Rendered
  <2> QED BY <2>1, FilesAre, FileNames DEF Touched
<1>2. \A f \in Indexed : disk'[f] = disk[f] BY CoreFilesAre DEF Touched
<1> QED BY <1>1, <1>2 DEF IndexedMatched, Exists, Matches

\* What a script left is not undone by one that can follow it.
LEMMA EffectStays ==
    ASSUME NEW h, Touched(h, disk'), run' = run, NEW s, CanFollow(h, s), Effect(s)
    PROVE  Effect(s)'
<1>1. h # s /\ h # "build" BY DEF CanFollow
<1>2. ASSUME NEW f \in CoreFiles, f[1] = s PROVE disk'[f].stamp[1] = run'
  <2>1. f \in Files BY CoreFilesAre
  <2>2. disk'[f] = disk[f] BY <1>1, <1>2, <2>1 DEF Touched
  <2> QED BY <1>2, <2>2 DEF Effect
<1>3. s = "packet" => PackedCited'
  BY <1>1, PackedStays DEF CanFollow, Effect
<1>4. s = "index" => IndexedMatched'
  BY <1>1, IndexedStays DEF CanFollow, Effect
<1>5. Dist' = Dist /\ Wheel' = Wheel /\ \A v \in Versions : disk'[<<"build", v>>] = disk[<<"build", v>>]
  BY <1>1, WheelsStay
<1>6. s = "final" => disk'[Json("final")].ok /\ Dist' # {}
  <2> SUFFICES ASSUME s = "final" PROVE disk'[Json("final")].ok /\ Dist' # {} OBVIOUS
  <2>1. Json("final") \in Files /\ Json("final")[1] = "final" BY FilesAre, FileNames DEF Jsons
  <2>2. disk'[Json("final")] = disk[Json("final")] BY <1>1, <2>1 DEF Touched
  <2> QED BY <1>5, <2>2 DEF Effect
<1>7. s = "procurement" => WheelBought'
  <2> SUFFICES ASSUME s = "procurement" PROVE WheelBought' OBVIOUS
  <2>1. Json("procurement") \in Files /\ Json("procurement")[1] = "procurement"
    BY FilesAre, FileNames DEF Jsons, Rendered
  <2>2. disk'[Json("procurement")] = disk[Json("procurement")] BY <1>1, <2>1 DEF Touched
  <2>3. WheelBought BY DEF Effect
  <2>4. disk'[Wheel] = disk[Wheel]
    <3>1. \A f \in Files : f[1] = "build" => disk'[f] = disk[f] BY <1>1 DEF Touched
    <3>2. Dist # {} /\ Dist \subseteq Versions /\ Wheel = <<"build", disk[Json("procurement")].version>>
      BY <2>3 DEF WheelBought, Dist
    <3>3. Dist \subseteq Nat BY <3>2, ReleaseAssumption
    <3>4. PICK m \in Dist : \A k \in Dist : m <= k BY <3>2, <3>3, LeastNumber
    <3>5. Min(Dist) \in Dist BY <3>4 DEF Min
    <3>6. disk'[<<"build", Min(Dist)>>] = disk[<<"build", Min(Dist)>>] BY <1>5, <3>2, <3>5
    <3> QED BY <3>6 DEF Wheel
  <2> QED BY <1>5, <2>2, <2>3, <2>4 DEF WheelBought
<1> QED BY <1>2, <1>3, <1>4, <1>6, <1>7 DEF Effect

\* What a script that passes leaves behind.
LEMMA PassEffect ==
    ASSUME DiskSound, NEW s \in Scripts, Accepts(s), disk' = After(Writes(s, TRUE)),
           run' = run, version' = version
    PROVE  Effect(s)'
<1>1. Touched(s, disk')
  <2>1. Sound(s, Writes(s, TRUE)) BY WritesSound
  <2> QED BY <2>1, AfterTouches
<1>2. ASSUME NEW f \in CoreFiles, f[1] = s PROVE disk'[f].stamp[1] = run'
  BY <1>2, PassStamps
<1>3. s = "packet" => PackedCited'
  <2> SUFFICES ASSUME s = "packet" PROVE PackedCited' OBVIOUS
  <2>1. Adds(disk'[Archive].cites, Html("packet"), Stamp(1), Digests(Packed)) BY PassPacket
  <2>2. \A f \in Packed : disk'[f] = disk[f] /\ f # Html("packet")
    BY <1>1, CoreFilesAre, ArchiveNotPacked DEF Touched
  <2>3. ASSUME NEW f \in Packed, Exists(f)
        PROVE  f \in DOMAIN disk'[Archive].cites /\ disk'[Archive].cites[f] = disk[f].stamp
    <3>1. f \in DOMAIN Digests(Packed) /\ Digests(Packed)[f] = disk[f].stamp BY <2>3, DigestsAre
    <3> QED BY <2>1, <2>2, <3>1 DEF Adds
  <2> QED BY <2>2, <2>3 DEF PackedCited, Exists
<1>4. s = "index" => IndexedMatched'
  <2> SUFFICES ASSUME s = "index" PROVE IndexedMatched' OBVIOUS
  <2>1. Adds(disk'[Json("index")].cites, Html("index"), Stamp(1), Digests(Indexed)) BY PassIndex
  <2>2. \A f \in Indexed : disk'[f] = disk[f] /\ f # Html("index")
    <3>1. \A f \in Indexed : f \in Files /\ f[1] # "index" BY CoreFilesAre
    <3>2. Html("index")[1] = "index" BY FileNames
    <3> QED BY <1>1, <3>1, <3>2 DEF Touched
  <2>3. ASSUME NEW f \in Indexed, Exists(f)
        PROVE  f \in DOMAIN disk'[Json("index")].cites /\ disk'[Json("index")].cites[f] = disk[f].stamp
    <3>1. f \in DOMAIN Digests(Indexed) /\ Digests(Indexed)[f] = disk[f].stamp BY <2>3, DigestsAre
    <3> QED BY <2>1, <2>2, <3>1 DEF Adds
  <2> QED BY <2>2, <2>3 DEF IndexedMatched, Exists, Matches
<1>5. s # "build" => Dist' = Dist /\ Wheel' = Wheel
                     /\ \A v \in Versions : disk'[<<"build", v>>] = disk[<<"build", v>>]
  BY <1>1, WheelsStay
<1>6. s = "final" => disk'[Json("final")].ok /\ Dist' # {}
  <2> SUFFICES ASSUME s = "final" PROVE disk'[Json("final")].ok /\ Dist' # {} OBVIOUS
  <2>1. disk'[Json("final")].ok = TRUE BY PassFinal
  <2>2. Dist # {} BY DEF Accepts, Gate
  <2> QED BY <1>5, <2>1, <2>2
<1>7. s = "procurement" => WheelBought'
  <2> SUFFICES ASSUME s = "procurement" PROVE WheelBought' OBVIOUS
  <2>1. Dist # {} /\ disk[Wheel].ok /\ Wheel[2] = version BY DEF Accepts, ProcurementAccepts, Packaged
  <2>2. PICK v \in Dist : Wheel = <<"build", v>> BY <2>1, WheelIs
  <2>3. v \in Versions /\ v = version BY <2>1, <2>2 DEF Dist
  <2>4. disk'[Json("procurement")].version = version BY PassProcurement
  <2>5. disk'[Wheel] = disk[Wheel] BY <1>5, <2>2, <2>3
  <2> QED BY <1>5, <2>1, <2>2, <2>3, <2>4, <2>5 DEF WheelBought
<1> QED BY <1>2, <1>3, <1>4, <1>6, <1>7 DEF Effect

\* Sound writes leave every file well made.
LEMMA DiskStays ==
    ASSUME DiskSound, NEW h, Touched(h, disk'), run' = run, version' \in Versions
    PROVE  DiskSound'
<1>1. ASSUME NEW f \in Files PROVE WellMade(f, disk'[f]) /\ disk'[f].stamp[1] <= run'
  <2>1. CASE disk'[f] = disk[f] BY <2>1 DEF DiskSound
  <2>2. CASE f[1] = h /\ disk'[f].stamp[1] = run /\ WellMade(f, disk'[f]) BY <2>2 DEF DiskSound
  <2> QED BY <2>1, <2>2 DEF Touched
<1> QED BY <1>1 DEF DiskSound, Touched

\* A released manifest stays backed while only the scripts after the final gate write.
LEMMA BackedStays ==
    ASSUME DiskSound, Backed, NEW h, Touched(h, disk'), run' = run,
           Released => h \in ExtraScripts \cup {"release"},
           disk'[Json("release")] = disk[Json("release")],
           Released /\ phase' # "idle" => Len(stages)' >= FinalAt(options)'
    PROVE  Backed'
<1> SUFFICES ASSUME Released' PROVE Backed' BY DEF Backed
<1>1. Released BY DEF Released
<1>2. h \notin CoreScripts /\ h # "build" BY <1>1 DEF CoreScripts, ExtraScripts
<1>3. \A f \in CoreFiles : disk'[f] = disk[f] BY <1>2, CoreFilesAre DEF Touched
<1>4. PackedCited' /\ IndexedMatched'
  <2>1. h \notin {"build", "acceptance", "benchmark", "sales", "packet", "index"}
    BY <1>2 DEF CoreScripts
  <2> QED BY <1>1, <2>1, PackedStays, IndexedStays DEF Backed
<1>5. Dist' = Dist /\ Wheel' = Wheel BY <1>2, WheelsStay
<1>6. disk'[Wheel] = disk[Wheel]
  <2>1. Wheel \in Files /\ Wheel[1] = "build" BY <1>1, WheelIs DEF Backed
  <2> QED BY <1>2, <2>1 DEF Touched
<1>7. \A f \in CoreFiles : disk'[f].stamp[1] = run' /\ Matches(Json("release"), f)'
  BY <1>1, <1>3 DEF Backed, Matches, Exists
<1>8. Dist' # {} /\ Matches(Json("release"), Wheel)'
  BY <1>1, <1>5, <1>6 DEF Backed, Matches, Exists
<1>9. \A f \in DOMAIN disk'[Json("release")].cites : f[1] = "build" => f = Wheel'
  BY <1>1, <1>5 DEF Backed
<1> QED BY <1>1, <1>4, <1>7, <1>8, <1>9 DEF Backed

\* Which script runs next.
LEMMA NextScript ==
    ASSUME ChainTyped, PlanFollowed, phase = "stage"
    PROVE  LET n == Len(stages) + 1
               h == Head(pending) IN
           /\ n \in 1 .. Len(Plan(options)) /\ Plan(options)[n] = h /\ h \in Scripts
           /\ AllPassed /\ n \in Nat
           /\ Tail(pending) \in Seq(Scripts) /\ Len(Tail(pending)) = Len(Plan(options)) - n
           /\ \A i \in 1 .. Len(Tail(pending)) : Tail(pending)[i] = Plan(options)[n + i]
<1> DEFINE P == Plan(options)
<1>1. Begun /\ pending # <<>> /\ AllPassed BY DEF PlanFollowed, Begun
<1>2. Len(P) \in Nat BY PlanShape DEF ChainTyped
<1>3. pending \in Seq(Scripts) /\ Len(stages) \in Nat /\ Len(pending) \in Nat /\ Len(pending) > 0
  <2>1. pending \in Seq(Scripts) /\ stages \in Seq(Scripts \X BOOLEAN) BY DEF ChainTyped
  <2> QED BY <1>1, <2>1, LenProperties, EmptySeq
<1>4. /\ Len(stages) + Len(pending) = Len(P)
      /\ \A i \in 1 .. Len(pending) : pending[i] = P[Len(stages) + i]
  BY <1>1 DEF PlanFollowed
<1> HIDE DEF P
<1>5. /\ Head(pending) \in Scripts /\ Tail(pending) \in Seq(Scripts)
      /\ Len(Tail(pending)) = Len(pending) - 1
      /\ \A i \in 1 .. Len(Tail(pending)) : Tail(pending)[i] = pending[i + 1]
  BY <1>1, <1>3, HeadTailProperties
<1>6. Head(pending) = pending[1] BY <1>1, <1>3
<1>7. P[Len(stages) + 1] = Head(pending) BY <1>3, <1>4, <1>6
<1>8. \A i \in 1 .. Len(Tail(pending)) : Tail(pending)[i] = P[Len(stages) + 1 + i]
  <2> SUFFICES ASSUME NEW i \in 1 .. Len(Tail(pending))
               PROVE  Tail(pending)[i] = P[Len(stages) + 1 + i]
    OBVIOUS
  <2>1. i + 1 \in 1 .. Len(pending) /\ Len(stages) + (i + 1) = Len(stages) + 1 + i BY <1>3, <1>5
  <2>2. Tail(pending)[i] = pending[i + 1] BY <1>5
  <2>3. pending[i + 1] = P[Len(stages) + (i + 1)] BY <1>4, <2>1
  <2> QED BY <2>1, <2>2, <2>3
<1>9. Len(stages) + 1 \in 1 .. Len(P) /\ Len(stages) + 1 \in Nat
      /\ Len(Tail(pending)) = Len(P) - (Len(stages) + 1)
  BY <1>2, <1>3, <1>4, <1>5
<1> QED BY <1>1, <1>5, <1>7, <1>8, <1>9 DEF P

\* A stage that ends is one more in the list.
LEMMA StagesGrow ==
    ASSUME ChainTyped, NEW h \in Scripts, NEW b \in BOOLEAN, stages' = Append(stages, <<h, b>>)
    PROVE  /\ stages' \in Seq(Scripts \X BOOLEAN) /\ Len(stages') = Len(stages) + 1 /\ Len(stages) \in Nat
           /\ \A i \in 1 .. Len(stages) : stages'[i] = stages[i]
           /\ stages'[Len(stages) + 1] = <<h, b>>
           /\ DOMAIN stages' = 1 .. Len(stages) + 1 /\ DOMAIN stages = 1 .. Len(stages)
<1>1. stages \in Seq(Scripts \X BOOLEAN) BY DEF ChainTyped
<1> DEFINE e == <<h, b>>
<1>2. e \in Scripts \X BOOLEAN OBVIOUS
<1> HIDE DEF e
<1>3. /\ Append(stages, e) \in Seq(Scripts \X BOOLEAN)
      /\ Len(Append(stages, e)) = Len(stages)+1
      /\ \A i \in 1.. Len(stages) : Append(stages, e)[i] = stages[i]
      /\ Append(stages, e)[Len(stages)+1] = e
  BY <1>1, <1>2, AppendProperties
<1>4. stages' = Append(stages, e) BY DEF e
<1>5. Len(stages) \in Nat /\ DOMAIN stages = 1 .. Len(stages) BY <1>1, LenProperties
<1>6. DOMAIN stages' = 1 .. Len(stages') BY <1>3, <1>4, LenProperties
<1> QED BY <1>3, <1>4, <1>5, <1>6 DEF e

-----------------------------------------------------------------------------
(* The steps                                                                 *)

\* In an empty directory nothing is claimed.
LEMMA InvInit == Init => ChainInv
<1> SUFFICES ASSUME Init PROVE ChainInv OBVIOUS
<1>1. disk = [f \in Files |-> Absent] /\ run = 0 BY DEF Init
<1>2. \A f \in Files : disk[f] = Absent BY <1>1
<1>3. Absent.ok = FALSE /\ Absent.stamp[1] = 0 /\ DOMAIN Absent.cites = {} BY DEF Absent, NoCites
<1>4. \A f : WellMade(f, Absent)
  <2> DEFINE c == Absent
  <2>1. c.ok \in BOOLEAN BY DEF Absent
  <2>3. c.stamp[1] \in Nat BY DEF Absent
  <2>4. DOMAIN c.cites = {} BY DEF Absent, NoCites
  <2> HIDE DEF c
  <2>2. \A f : WellMade(f, c) BY <2>1, <2>3, <2>4 DEF WellMade
  <2> QED BY <2>2 DEF c
<1>5. DiskSound
  <2>1. \A f \in Files : WellMade(f, disk[f]) /\ disk[f].stamp[1] <= run BY <1>1, <1>2, <1>3, <1>4
  <2> QED BY <1>1, <2>1 DEF DiskSound, Init
<1>6. ChainTyped
  <2>1. << >> \in Seq(Scripts \X BOOLEAN) /\ << >> \in Seq(Scripts) BY EmptySeq
  <2>2. 0 \in 0 .. MaxMoves /\ 0 \in 0 .. MaxRuns BY ReleaseAssumption
  <2> QED BY <1>5, <2>1, <2>2 DEF ChainTyped, Init
<1>7. ~Begun /\ stages = << >> BY DEF Begun, Init
<1>8. Len(stages) = 0 BY <1>7, EmptySeq
<1>9. ~Released
  <2>1. Json("release") \in Files BY FilesAre DEF Jsons
  <2> QED BY <1>2, <1>3, <2>1 DEF Released
<1>10. PlanFollowed /\ OwnFiles BY <1>7 DEF PlanFollowed, OwnFiles
<1>11. Told BY <1>7 DEF Told
<1>12. Evidence BY <1>8 DEF Evidence, Done
<1>13. Backed BY <1>9 DEF Backed
<1> QED BY <1>6, <1>10, <1>11, <1>12, <1>13 DEF ChainInv

\* A script runs, whether it passes or not.
LEMMA ScriptRuns ==
    ASSUME ChainInv, phase = "stage", NEW h, h = Head(pending),
           NEW w, Sound(h, w), disk' = After(w),
           NEW b \in BOOLEAN, stages' = Append(stages, <<h, b>>), b => Effect(h)',
           UNCHANGED <<version, moves, run, options>>,
           phase' \in {"stage", "publish"}, pending' \in Seq(Scripts)
    PROVE  ChainTyped' /\ OwnFiles' /\ Told' /\ Evidence' /\ Backed'
<1> DEFINE n == Len(stages) + 1
           P == Plan(options)
<1>1. ChainTyped /\ PlanFollowed /\ OwnFiles /\ Evidence /\ Backed /\ DiskSound
  BY DEF ChainInv, ChainTyped
<1>2. n \in 1 .. Len(P) /\ P[n] = h /\ h \in Scripts /\ n \in Nat BY <1>1, NextScript
<1>3. Touched(h, disk') BY AfterTouches
<1>4. /\ stages' \in Seq(Scripts \X BOOLEAN) /\ Len(stages') = n /\ Len(stages) \in Nat
      /\ \A i \in 1 .. Len(stages) : stages'[i] = stages[i]
      /\ stages'[n] = <<h, b>>
  BY <1>1, <1>2, StagesGrow
<1>5. stages'[n][1] = h /\ stages'[n][2] = b BY <1>4
<1>6. ChainTyped'
  <2>1. DiskSound' BY <1>1, <1>3, DiskStays DEF ChainTyped
  <2> QED BY <1>1, <1>4, <2>1 DEF ChainTyped
<1>7. /\ Begun /\ phase # "idle" /\ \A i \in 1 .. Len(stages) : stages[i][1] = P[i]
  BY <1>1 DEF PlanFollowed, Begun
<1>8. OwnFiles'
  <2> SUFFICES ASSUME NEW f \in Files, disk'[f].stamp[1] = run
               PROVE  f[1] = "release" \/ \E i \in 1 .. Len(stages') : stages'[i][1] = f[1]
    BY DEF OwnFiles
  <2>1. CASE disk'[f] = disk[f]
    <3>1. f[1] = "release" \/ \E i \in 1 .. Len(stages) : stages[i][1] = f[1]
      BY <1>1, <1>7, <2>1 DEF OwnFiles
    <3>2. \A i \in 1 .. Len(stages) : i \in 1 .. Len(stages') /\ stages'[i] = stages[i] BY <1>4
    <3> QED BY <3>1, <3>2
  <2>2. CASE f[1] = h
    <3>1. n \in 1 .. Len(stages') BY <1>2, <1>4
    <3> QED BY <1>5, <2>2, <3>1
  <2> QED BY <1>3, <2>1, <2>2 DEF Touched
<1>9. Evidence'
  <2> SUFFICES ASSUME NEW s \in Scripts, Done(s)' PROVE Effect(s)' BY DEF Evidence
  <2>1. PICK i \in 1 .. n : stages'[i][1] = s /\ stages'[i][2] BY <1>4 DEF Done
  <2>2. CASE i = n
    <3>1. s = h /\ b BY <1>5, <2>1, <2>2
    <3> QED BY <3>1
  <2>3. CASE i \in 1 .. Len(stages)
    <3>1. stages[i][1] = s /\ stages[i][2] BY <1>4, <2>1, <2>3
    <3>2. Effect(s) BY <1>1, <2>3, <3>1 DEF Evidence, Done
    <3>3. i \in 1 .. n - 1 /\ options \in Options BY <1>1, <1>4, <2>3 DEF ChainTyped
    <3>4. CanFollow(P[n], P[i]) BY <1>2, <3>3, LaterFollows
    <3>5. CanFollow(h, s) BY <1>2, <1>7, <2>3, <3>1, <3>4
    <3> QED BY <1>3, <3>2, <3>5, EffectStays
  <2> QED BY <1>4, <2>2, <2>3
<1>10. Told' BY DEF Told
<1>11. Backed'
  <2>1. Released => n > FinalAt(options)
    <3>1. Released => Len(stages) >= FinalAt(options) BY <1>1, <1>7 DEF Backed
    <3>2. FinalAt(options) \in Nat BY <1>1, FinalNat DEF ChainTyped
    <3> QED BY <1>4, <3>1, <3>2
  <2>2. Released => h \in ExtraScripts BY <1>1, <1>2, <2>1, PlanPlaces DEF ChainTyped
  <2>3. disk'[Json("release")] = disk[Json("release")]
    <3>1. Json("release") \in Files /\ Json("release")[1] = "release" BY FilesAre, FileNames DEF Jsons
    <3>2. h # "release" BY <1>2 DEF Scripts
    <3> QED BY <1>3, <3>1, <3>2 DEF Touched
  <2>4. Released => Len(stages)' >= FinalAt(options)'
    <3>1. FinalAt(options) \in Nat BY <1>1, FinalNat DEF ChainTyped
    <3> QED BY <1>4, <2>1, <3>1
  <2> QED BY <1>1, <1>3, <2>2, <2>3, <2>4, BackedStays
<1> QED BY <1>6, <1>8, <1>9, <1>10, <1>11

\* A script that passes keeps the invariant: its own effect holds from now on, and
\* those before it are left alone.
LEMMA PassStep == ChainInv /\ Pass => ChainInv'
<1> SUFFICES ASSUME ChainInv, Pass PROVE ChainInv' OBVIOUS
<1> PICK h : h = Head(pending) OBVIOUS
<1> DEFINE n == Len(stages) + 1
           P == Plan(options)
<1>1. ChainTyped /\ PlanFollowed /\ phase = "stage" /\ DiskSound /\ options \in Options
  BY DEF ChainInv, ChainTyped, Pass
<1>2. /\ n \in 1 .. Len(P) /\ P[n] = h /\ h \in Scripts /\ AllPassed /\ n \in Nat
      /\ Tail(pending) \in Seq(Scripts) /\ Len(Tail(pending)) = Len(P) - n
      /\ \A i \in 1 .. Len(Tail(pending)) : Tail(pending)[i] = P[n + i]
  BY <1>1, NextScript
<1>3. /\ Accepts(h) /\ disk' = After(Writes(h, TRUE)) /\ stages' = Append(stages, <<h, TRUE>>)
      /\ pending' = Tail(pending) /\ UNCHANGED <<version, moves, run, options>>
      /\ phase' = IF InCore(h) /\ h # "final" THEN "stage" ELSE "publish"
  BY DEF Pass
<1>4. Sound(h, Writes(h, TRUE)) BY <1>1, <1>2, WritesSound
<1>5. Effect(h)' BY <1>1, <1>2, <1>3, PassEffect
<1>6. phase' \in {"stage", "publish"} BY <1>3
<1>7. PICK b \in BOOLEAN : b = TRUE OBVIOUS
<1>8. stages' = Append(stages, <<h, b>>) BY <1>3, <1>7
<1>9. /\ Len(stages') = n /\ Len(stages) \in Nat
      /\ \A i \in 1 .. Len(stages) : stages'[i] = stages[i]
      /\ stages'[n] = <<h, b>> /\ DOMAIN stages' = 1 .. n /\ DOMAIN stages = 1 .. Len(stages)
  BY <1>1, <1>2, <1>8, StagesGrow
<1>10. ChainTyped' /\ OwnFiles' /\ Told' /\ Evidence' /\ Backed'
  <2>1. h = Head(pending) /\ pending' \in Seq(Scripts) BY <1>2, <1>3
  <2> DEFINE w == Writes(h, TRUE)
  <2>2. Sound(h, w) /\ disk' = After(w) BY <1>3, <1>4
  <2> HIDE DEF w
  <2> QED BY <1>1, <1>3, <1>5, <1>6, <1>8, <2>1, <2>2, ScriptRuns
<1>11. PlanFollowed'
  <2>1. stages'[n][1] = h /\ stages'[n][2] = TRUE BY <1>7, <1>9
  <2>2. Begun /\ run >= 1 /\ \A i \in 1 .. Len(stages) : stages[i][1] = P[i]
    BY <1>1 DEF PlanFollowed, Begun
  <2>3. \A i \in 1 .. Len(stages) : stages[i][2] BY <1>2, <1>9 DEF AllPassed
  <2>4. \A i \in 1 .. n : i = n \/ i \in 1 .. Len(stages) BY <1>9
  <2>5. \A i \in 1 .. n : stages'[i][1] = P[i] /\ stages'[i][2]
    BY <1>2, <1>9, <2>1, <2>2, <2>3, <2>4
  <2>6. AllPassed' BY <1>9, <2>5 DEF AllPassed
  <2>7. run' = run /\ options' = options BY <1>3
  <2>8. P' = P BY <2>7 DEF Plan, Extras
  <2>9. Len(P) \in Nat BY <1>1, PlanShape
  <2>10. /\ Len(stages') <= Len(P)
         /\ Len(stages') + Len(pending') = Len(P)
         /\ \A i \in 1 .. Len(pending') : pending'[i] = P[Len(stages') + i]
    BY <1>2, <1>3, <1>9, <2>9
  <2>11. stages' # <<>>
    <3>1. Len(stages') # 0 BY <1>2, <1>9
    <3> QED BY <3>1, EmptySeq
  <2>12. phase' = "stage" => pending' # <<>>
    <3> SUFFICES ASSUME phase' = "stage" PROVE pending' # <<>> OBVIOUS
    <3>1. InCore(h) /\ h # "final" BY <1>3
    <3>2. n < FinalAt(options)
      <4>1. n > FinalAt(options) => h \in ExtraScripts BY <1>1, <1>2, PlanPlaces
      <4>2. h \notin ExtraScripts BY <3>1, CoreIs DEF CoreScripts, ExtraScripts
      <4>3. n = FinalAt(options) => h = "final"
        <5>1. 6 \in 1 .. 6 /\ Core[6] = "final" BY DEF Core
        <5>2. P[Before(options) + 6] = Core[6] BY <1>1, <5>1, PlanShape
        <5> QED BY <1>2, <5>1, <5>2 DEF FinalAt
      <4>4. FinalAt(options) \in Nat BY <1>1, FinalNat
      <4> QED BY <1>2, <3>1, <4>1, <4>2, <4>3, <4>4
    <3>3. Len(P) >= FinalAt(options) /\ FinalAt(options) \in Nat BY <1>1, PlanShape, FinalNat
    <3>4. Len(pending') # 0 BY <1>2, <1>3, <2>9, <3>2, <3>3
    <3> QED BY <3>4, EmptySeq
  <2>13. phase' # "stage" => Len(stages') >= FinalAt(options)
    <3> SUFFICES ASSUME phase' # "stage" PROVE Len(stages') >= FinalAt(options) OBVIOUS
    <3>1. ~(InCore(h) /\ h # "final") BY <1>3
    <3>2. ~(n < FinalAt(options)) BY <1>1, <1>2, <3>1, PlanPlaces
    <3>3. FinalAt(options) \in Nat BY <1>1, FinalNat
    <3> QED BY <1>2, <1>9, <3>2, <3>3
  <2>14. FinalAt(options)' = FinalAt(options) BY <2>7 DEF FinalAt, Before
  <2>15. \A i \in 1 .. Len(stages') - 1 : stages'[i][2] BY <1>9, <2>3, <2>5
  <2> HIDE DEF P, n
  <2>16. \A i \in 1 .. Len(stages') : stages'[i][1] = P[i] BY <1>9, <2>5
  <2> QED BY <2>2, <2>6, <2>7, <2>8, <2>10, <2>11, <2>12, <2>13, <2>14, <2>15, <2>16
          DEF PlanFollowed, P
<1> QED BY <1>10, <1>11 DEF ChainInv

\* A script that fails keeps the invariant, whatever of its writes were made.
LEMMA FailStep == ChainInv /\ Fail => ChainInv'
<1> SUFFICES ASSUME ChainInv, Fail PROVE ChainInv' OBVIOUS
<1> PICK h : h = Head(pending) OBVIOUS
<1> DEFINE n == Len(stages) + 1
           P == Plan(options)
<1>1. ChainTyped /\ PlanFollowed /\ phase = "stage" /\ DiskSound /\ options \in Options
  BY DEF ChainInv, ChainTyped, Fail
<1>2. /\ n \in 1 .. Len(P) /\ P[n] = h /\ h \in Scripts /\ AllPassed /\ n \in Nat
  BY <1>1, NextScript
<1>3. PICK w \in Leaves(h) : disk' = After(w) BY DEF Fail
<1>4. /\ stages' = Append(stages, <<h, FALSE>>)
      /\ pending' = <<>> /\ phase' = "publish" /\ UNCHANGED <<version, moves, run, options>>
  BY DEF Fail
<1>5. Sound(h, w) BY <1>1, <1>2, <1>3, LeavesSound
<1>7. PICK b \in BOOLEAN : b = FALSE OBVIOUS
<1>8. stages' = Append(stages, <<h, b>>) BY <1>4, <1>7
<1>9. /\ Len(stages') = n /\ Len(stages) \in Nat
      /\ \A i \in 1 .. Len(stages) : stages'[i] = stages[i]
      /\ stages'[n] = <<h, b>> /\ DOMAIN stages' = 1 .. n /\ DOMAIN stages = 1 .. Len(stages)
  BY <1>1, <1>2, <1>8, StagesGrow
<1>10. ChainTyped' /\ OwnFiles' /\ Told' /\ Evidence' /\ Backed'
  <2>1. h = Head(pending) /\ pending' \in Seq(Scripts) BY <1>4, EmptySeq
  <2>2. phase' \in {"stage", "publish"} BY <1>4
  <2>3. b => Effect(h)' BY <1>7
  <2> QED BY <1>1, <1>3, <1>4, <1>5, <1>8, <2>1, <2>2, <2>3, ScriptRuns
<1>11. PlanFollowed'
  <2>1. stages'[n][1] = h /\ stages'[n][2] = FALSE BY <1>7, <1>9
  <2>2. Begun /\ run >= 1 /\ \A i \in 1 .. Len(stages) : stages[i][1] = P[i]
    BY <1>1 DEF PlanFollowed, Begun
  <2>3. \A i \in 1 .. Len(stages) : stages[i][2] BY <1>2, <1>9 DEF AllPassed
  <2>4. \A i \in 1 .. n : i = n \/ i \in 1 .. Len(stages) BY <1>9
  <2>5. \A i \in 1 .. n : stages'[i][1] = P[i]
    BY <1>2, <1>9, <2>1, <2>2, <2>4
  <2>6. ~AllPassed' BY <1>2, <1>9, <2>1 DEF AllPassed
  <2>7. run' = run /\ options' = options BY <1>4
  <2>8. P' = P BY <2>7 DEF Plan, Extras
  <2>9. Len(P) \in Nat BY <1>1, PlanShape
  <2>10. Len(stages') <= Len(P) BY <1>2, <1>9, <2>9
  <2>11. stages' # <<>>
    <3>1. Len(stages') # 0 BY <1>2, <1>9
    <3> QED BY <3>1, EmptySeq
  <2>15. \A i \in 1 .. Len(stages') - 1 : stages'[i][2]
    <3>1. \A i \in 1 .. Len(stages') - 1 : i \in 1 .. Len(stages) BY <1>9
    <3> QED BY <1>9, <2>3, <3>1
  <2> HIDE DEF P, n
  <2>16. \A i \in 1 .. Len(stages') : stages'[i][1] = P[i] BY <1>9, <2>5
  <2> QED BY <1>4, <2>2, <2>6, <2>7, <2>8, <2>10, <2>11, <2>15, <2>16 DEF PlanFollowed, P
<1> QED BY <1>10, <1>11 DEF ChainInv

\* When the builder publishes and nothing has failed, the whole core has passed.
LEMMA CoreDone ==
    ASSUME ChainTyped, PlanFollowed, Begun, phase # "stage", AllPassed
    PROVE  Len(stages) >= FinalAt(options) /\ \A s \in CoreScripts : Done(s)
<1> DEFINE P == Plan(options)
           b == Before(options)
<1>1. options \in Options /\ Len(stages) \in Nat /\ DOMAIN stages = 1 .. Len(stages)
  <2>1. options \in Options /\ stages \in Seq(Scripts \X BOOLEAN) BY DEF ChainTyped
  <2> QED BY <2>1, LenProperties
<1>2. /\ Len(stages) >= FinalAt(options)
      /\ \A i \in 1 .. Len(stages) : stages[i][1] = P[i]
      /\ \A i \in 1 .. Len(stages) : stages[i][2]
  <2>1. \A i \in DOMAIN stages : stages[i][2] BY DEF AllPassed
  <2> QED BY <1>1, <2>1 DEF PlanFollowed
<1>3. b \in {0, 1} /\ FinalAt(options) = b + 6 /\ \A k \in 1 .. 6 : P[b + k] = Core[k]
  BY <1>1, PlanShape DEF FinalAt
<1>4. ASSUME NEW s \in CoreScripts PROVE Done(s)
  <2>1. s \in Range(Core) BY CoreIs
  <2>2. DOMAIN Core = 1 .. 6 BY DEF Core
  <2>3. PICK k \in 1 .. 6 : Core[k] = s BY <2>1, <2>2 DEF Range
  <2>4. b + k \in 1 .. Len(stages) BY <1>1, <1>2, <1>3
  <2>5. stages[b + k][1] = s /\ stages[b + k][2] BY <1>2, <1>3, <2>3, <2>4
  <2> QED BY <2>4, <2>5 DEF Done
<1> QED BY <1>2, <1>4

\* The run succeeds when every stage passed: the final gate's own record agrees.
LEMMA SucceededIs ==
    ASSUME ChainInv, phase = "publish"
    PROVE  Succeeded = AllPassed
<1>1. ChainTyped /\ PlanFollowed /\ Evidence /\ Begun /\ phase # "stage"
  BY DEF ChainInv, Begun
<1>2. AllPassed => disk[Json("final")].ok
  <2> SUFFICES ASSUME AllPassed PROVE disk[Json("final")].ok OBVIOUS
  <2>1. "final" \in CoreScripts /\ "final" \in Scripts BY DEF CoreScripts, Scripts
  <2>2. Done("final") BY <1>1, <2>1, CoreDone
  <2> QED BY <1>1, <2>1, <2>2 DEF Evidence, Effect
<1> QED BY <1>2 DEF Succeeded, AllPassed

\* The manifest lists every core file.
LEMMA CoreListed == \A f \in CoreFiles : f \in Listed
<1>1. \A f \in CoreFiles : f \in Files /\ f[1] \in CoreScripts /\ f \notin Wheels /\ f # Outputs
  <2>1. \A f \in CoreFiles : f \in {Json(s) : s \in CoreScripts}
            \cup {Html(s) : s \in {"benchmark", "packet", "index"}} \cup {Archive}
    BY CoreFilesAre
  <2>2. \A f \in CoreFiles : f[2] \in {"json", "html", "zip"} BY <2>1, FileNames
  <2>3. Outputs[2] = "outputs" BY FileNames
  <2> QED BY <2>2, <2>3, CoreFilesAre
<1>2. "release" \notin CoreScripts BY DEF CoreScripts
<1>3. \A f \in CoreFiles : f # Json("release") /\ f # Html("release") BY <1>1, <1>2, FileNames
<1> QED BY <1>1, <1>3 DEF Listed

\* A manifest that is written out is backed if it says ok.
LEMMA ManifestBacked ==
    ASSUME ChainInv, phase = "publish", Touched("release", disk'), run' = run,
           disk'[Json("release")] = After(ManifestWrites)[Json("release")],
           phase' # "idle" => stages' = stages /\ options' = options
    PROVE  Backed'
<1> SUFFICES ASSUME Released' PROVE Backed' BY DEF Backed
<1>1. ChainTyped /\ PlanFollowed /\ Evidence /\ Begun /\ DiskSound /\ run >= 1 /\ run \in Nat
  BY DEF ChainInv, Begun, PlanFollowed, ChainTyped, DiskSound
<1>2. /\ disk'[Json("release")].ok = Succeeded
      /\ Adds(disk'[Json("release")].cites, Html("release"), Stamp(Len(stages)), Digests(Listed))
  BY <1>1, PublishIs
<1>3. AllPassed BY <1>2, SucceededIs DEF Released
<1>4. Len(stages) >= FinalAt(options) /\ \A s \in CoreScripts : Done(s) BY <1>1, <1>3, CoreDone
<1>5. \A s \in CoreScripts : Effect(s)
  <2>1. CoreScripts \subseteq Scripts BY DEF CoreScripts, Scripts
  <2> QED BY <1>1, <1>4, <2>1 DEF Evidence
<1>6. \A f \in Files : f[1] # "release" => disk'[f] = disk[f] BY DEF Touched
<1>7. ASSUME NEW f \in Listed, f \in Files, f[1] # "release", Exists(f)
      PROVE  Matches(Json("release"), f)'
  <2>1. f \in DOMAIN Digests(Listed) /\ Digests(Listed)[f] = disk[f].stamp BY <1>7, DigestsAre
  <2>2. f # Html("release") BY <1>7, FileNames
  <2>3. f \in DOMAIN disk'[Json("release")].cites
        /\ disk'[Json("release")].cites[f] = disk[f].stamp
    BY <1>2, <2>1, <2>2 DEF Adds
  <2>4. disk'[f] = disk[f] BY <1>6, <1>7
  <2> QED BY <1>7, <2>3, <2>4 DEF Matches, Exists
<1>8. ASSUME NEW f \in CoreFiles
      PROVE  disk'[f].stamp[1] = run' /\ Matches(Json("release"), f)'
  <2>1. f \in Files /\ f[1] \in CoreScripts /\ f \in Listed BY CoreFilesAre, CoreListed
  <2>2. disk[f].stamp[1] = run BY <1>5, <2>1 DEF Effect
  <2>3. f[1] # "release" BY <2>1 DEF CoreScripts
  <2>4. Exists(f)
    <3>1. Absent.stamp[1] = 0 BY DEF Absent
    <3> QED BY <1>1, <2>2, <3>1 DEF Exists
  <2>5. disk'[f] = disk[f] BY <1>6, <2>1, <2>3
  <2> QED BY <1>7, <2>1, <2>2, <2>3, <2>4, <2>5
<1>9. PackedCited' /\ IndexedMatched'
  <2>1. "packet" \in CoreScripts /\ "index" \in CoreScripts BY DEF CoreScripts
  <2>2. PackedCited /\ IndexedMatched BY <1>5, <2>1 DEF Effect
  <2>3. \A r : r = "release" => r \notin {"build", "acceptance", "benchmark", "sales", "packet", "index"}
    OBVIOUS
  <2>4. PICK r : r = "release" OBVIOUS
  <2> QED BY <2>2, <2>3, <2>4, PackedStays, IndexedStays
<1>10. Dist # {} /\ Dist' = Dist /\ Wheel' = Wheel
  <2>1. "final" \in CoreScripts BY DEF CoreScripts
  <2>2. PICK r : r = "release" OBVIOUS
  <2> QED BY <1>5, <2>1, <2>2, WheelsStay DEF Effect
<1>11. PICK f \in Files : f = Wheel /\ f[1] = "build" /\ Exists(f) BY <1>1, <1>10, WheelIs
<1>12. Matches(Json("release"), Wheel)'
  <2>1. f \in Listed BY <1>10, <1>11 DEF Listed
  <2>2. Matches(Json("release"), f)' BY <1>7, <1>11, <2>1
  <2> QED BY <1>10, <1>11, <2>2 DEF Matches, Exists
<1>13. ASSUME NEW g \in DOMAIN disk'[Json("release")].cites, g[1] = "build"
       PROVE  g = Wheel'
  <2>1. g # Html("release") BY <1>13, FileNames
  <2>2. g \in DOMAIN Digests(Listed) BY <1>2, <2>1 DEF Adds
  <2>3. g \in Listed BY <2>2, DigestsAre
  <2>4. g \in Files \ Wheels => FALSE BY <1>13, FilesAre
  <2>5. g = Wheel BY <1>10, <2>3, <2>4 DEF Listed
  <2> QED BY <1>10, <2>5
<1>14. phase' # "idle" => Len(stages)' >= FinalAt(options)'
  <2> SUFFICES ASSUME phase' # "idle" PROVE Len(stages)' >= FinalAt(options)' OBVIOUS
  <2>1. stages' = stages /\ options' = options OBVIOUS
  <2>2. FinalAt(options)' = FinalAt(options) BY <2>1 DEF FinalAt, Before
  <2> QED BY <1>4, <2>1, <2>2
<1> QED BY <1>8, <1>9, <1>10, <1>12, <1>13, <1>14 DEF Backed

\* Publishing keeps every effect.
LEMMA ReleaseStays ==
    ASSUME ChainInv, Touched("release", disk'), run' = run, version' = version
    PROVE  DiskSound' /\ (stages' = stages => Evidence')
<1>1. DiskSound /\ Evidence /\ version' \in Versions BY DEF ChainInv, ChainTyped, DiskSound
<1>2. PICK r : r = "release" OBVIOUS
<1>3. Touched(r, disk') /\ \A s \in Scripts : CanFollow(r, s) BY <1>2, ReleaseFollows
<1>4. DiskSound' BY <1>1, <1>3, DiskStays
<1>5. ASSUME stages' = stages, NEW s \in Scripts, Done(s)' PROVE Effect(s)'
  <2>1. Done(s) BY <1>5 DEF Done
  <2>2. Effect(s) BY <1>1, <2>1 DEF Evidence
  <2> QED BY <1>3, <2>2, EffectStays
<1> QED BY <1>4, <1>5 DEF Evidence

\* Publishing the manifest keeps the invariant, and backs it.
LEMMA PublishStep == ChainInv /\ Publish => ChainInv'
<1> SUFFICES ASSUME ChainInv, Publish PROVE ChainInv' OBVIOUS
<1>1. /\ ChainTyped /\ PlanFollowed /\ OwnFiles /\ DiskSound /\ phase = "publish" /\ Begun
      /\ options \in Options /\ run >= 1
  BY DEF ChainInv, ChainTyped, Publish, Begun, PlanFollowed
<1>2. /\ disk' = After(ManifestWrites)
      /\ phase' = IF Succeeded /\ pending # <<>> THEN "stage" ELSE "idle"
      /\ UNCHANGED <<version, moves, run, options, pending, stages>>
  BY DEF Publish
<1>3. Touched("release", disk')
  <2>1. Sound("release", ManifestWrites) BY <1>1, PublishIs
  <2> QED BY <1>2, <2>1, AfterTouches
<1>4. Succeeded = AllPassed BY <1>1, SucceededIs
<1>5. ChainTyped' /\ Evidence'
  <2>1. DiskSound' /\ Evidence' BY <1>2, <1>3, ReleaseStays
  <2>2. phase' \in {"idle", "stage", "publish"} BY <1>2
  <2> QED BY <1>1, <1>2, <2>1, <2>2 DEF ChainTyped
<1>6. Backed' BY <1>1, <1>2, <1>3, ManifestBacked
<1>7. AllPassed' = AllPassed /\ Plan(options)' = Plan(options) /\ FinalAt(options)' = FinalAt(options)
  BY <1>2 DEF AllPassed, Plan, Extras, FinalAt, Before
<1>8. stages # <<>> BY <1>1 DEF PlanFollowed
<1>9. PlanFollowed' /\ Begun'
  <2>1. Begun' BY <1>2, <1>8 DEF Begun
  <2>2. phase' = "stage" => AllPassed /\ pending # <<>> BY <1>2, <1>4
  <2>3. phase # "stage" BY <1>1
  <2> QED BY <1>1, <1>2, <1>7, <1>8, <2>1, <2>2, <2>3 DEF PlanFollowed
<1>10. OwnFiles'
  <2> SUFFICES ASSUME NEW f \in Files, disk'[f].stamp[1] = run
               PROVE  f[1] = "release" \/ \E i \in 1 .. Len(stages) : stages[i][1] = f[1]
    BY <1>2 DEF OwnFiles
  <2> QED BY <1>1, <1>3 DEF OwnFiles, Touched
<1>11. Told'
  <2> SUFFICES ASSUME phase' = "idle"
               PROVE  /\ disk'[Json("release")].stamp[1] = run /\ disk'[Json("release")].ok = AllPassed
                      /\ AllPassed => pending = <<>>
    BY <1>2, <1>7 DEF Told
  <2>1. disk'[Json("release")].ok = Succeeded /\ disk'[Json("release")].stamp[1] = run
    BY <1>1, <1>2, PublishIs
  <2>2. AllPassed => pending = <<>> BY <1>2, <1>4
  <2> QED BY <1>4, <2>1, <2>2
<1> QED BY <1>5, <1>6, <1>9, <1>10, <1>11 DEF ChainInv

\* A crash at any write keeps the invariant.
LEMMA CrashStep == ChainInv /\ Crash => ChainInv'
<1> SUFFICES ASSUME ChainInv, Crash PROVE ChainInv' OBVIOUS
<1>1. /\ ChainTyped /\ PlanFollowed /\ DiskSound /\ Backed /\ phase \in {"stage", "publish"}
      /\ options \in Options /\ run \in Nat /\ version \in Versions
  BY DEF ChainInv, ChainTyped, Crash, DiskSound
<1>2. /\ pending' = <<>> /\ phase' = "idle" /\ stages' = <<>>
      /\ UNCHANGED <<version, moves, run, options>>
  BY DEF Crash
<1>3. ~Begun' /\ stages' = <<>> BY <1>2 DEF Begun
<1>4. PlanFollowed' /\ OwnFiles' BY <1>3 DEF PlanFollowed, OwnFiles
<1>5. Told' BY <1>3 DEF Told
<1>6. Evidence'
  <2>1. Len(stages') = 0 BY <1>3, EmptySeq
  <2>2. \A i \in 1 .. Len(stages') : FALSE BY <2>1
  <2> QED BY <2>2 DEF Evidence, Done
<1>7. DiskSound' => ChainTyped'
  <2>1. << >> \in Seq(Scripts \X BOOLEAN) /\ << >> \in Seq(Scripts) BY EmptySeq
  <2> QED BY <1>1, <1>2, <2>1 DEF ChainTyped
<1>8. CASE phase = "stage"
  <2>1. PICK h : h = Head(pending) OBVIOUS
  <2>2. PICK w \in Leaves(h) : disk' = After(w) BY <1>8, <2>1 DEF Crash
  <2> DEFINE n == Len(stages) + 1
  <2>3. /\ n \in 1 .. Len(Plan(options)) /\ Plan(options)[n] = h /\ h \in Scripts
        /\ n \in Nat
    BY <1>1, <1>8, <2>1, NextScript
  <2>4. Sound(h, w) BY <1>1, <2>2, <2>3, LeavesSound
  <2>5. Touched(h, disk') BY <2>2, <2>4, AfterTouches
  <2>6. DiskSound' BY <1>1, <1>2, <2>5, DiskStays
  <2>7. Released => n > FinalAt(options)
    <3>1. Released => Len(stages) >= FinalAt(options) BY <1>1, <1>8 DEF Backed
    <3>2. FinalAt(options) \in Nat /\ Len(stages) \in Nat
      <4>1. stages \in Seq(Scripts \X BOOLEAN) BY <1>1 DEF ChainTyped
      <4> QED BY <1>1, <4>1, FinalNat, LenProperties
    <3> QED BY <3>1, <3>2
  <2>8. Released => h \in ExtraScripts \cup {"release"} BY <1>1, <2>3, <2>7, PlanPlaces
  <2>9. disk'[Json("release")] = disk[Json("release")]
    <3>1. Json("release") \in Files /\ Json("release")[1] = "release" BY FilesAre, FileNames DEF Jsons
    <3>2. h # "release" BY <2>3 DEF Scripts
    <3> QED BY <2>5, <3>1, <3>2 DEF Touched
  <2>10. Backed' BY <1>1, <1>2, <2>5, <2>8, <2>9, BackedStays
  <2> QED BY <1>4, <1>5, <1>6, <1>7, <2>6, <2>10 DEF ChainInv
<1>9. CASE phase = "publish"
  <2>1. PICK w \in Cut(ManifestWrites) : disk' = After(w) BY <1>9 DEF Crash
  <2>2. PICK r : r = "release" OBVIOUS
  <2>3. Sound(r, ManifestWrites) BY <1>1, <2>2, PublishIs
  <2>4. Sound(r, w) BY <1>1, <2>1, <2>3, CutSound
  <2>5. Touched(r, disk') BY <2>1, <2>4, AfterTouches
  <2>6. DiskSound' BY <1>1, <1>2, <2>5, DiskStays
  <2>7. Json("release") \in Files BY FilesAre DEF Jsons
  <2>8. \/ disk'[Json("release")] = disk[Json("release")]
        \/ disk'[Json("release")] = After(ManifestWrites)[Json("release")]
        \/ disk'[Json("release")] = Torn
    <3>1. CASE \A k \in DOMAIN w : w[k].file # Json("release")
      BY <2>1, <2>4, <2>7, <3>1, AfterSound
    <3>2. CASE \E k \in DOMAIN w : w[k].file = Json("release")
      <4>1. PICK k \in DOMAIN w : w[k].file = Json("release")
                                  /\ After(w)[Json("release")] = w[k].content
        BY <2>4, <2>7, <3>2, AfterSound
      <4> DEFINE m == ManifestWrites
      <4>2. PICK i \in DOMAIN m : w[k] = m[i] \/ w[k] = Write(m[i].file, Torn)
        BY <2>1, <2>3, <4>1, CutShape
      <4>3. CASE w[k] = Write(m[i].file, Torn)
        <5>1. w[k].content = Torn BY <4>3, WriteFields
        <5> QED BY <2>1, <4>1, <5>1
      <4>4. CASE w[k] = m[i]
        <5>1. /\ DOMAIN m = 1 .. 2 /\ m[1].file = Html("release") /\ m[2].file = Json("release")
          <6>1. m = <<m[1], m[2]>> /\ DOMAIN m = 1 .. 2 BY DEF ManifestWrites, Report
          <6>2. m[1].file = Html("release") /\ m[2].file = Json("release")
            BY DEF ManifestWrites, Report, Write
          <6> QED BY <6>1, <6>2
        <5>2. Html("release") # Json("release") BY FileNames
        <5> HIDE DEF m
        <5>3. i = 2 BY <4>1, <4>4, <5>1, <5>2
        <5>4. 2 \in DOMAIN m /\ \A j \in DOMAIN m : j <= 2 BY <5>1
        <5>5. After(m)[m[2].file] = m[2].content BY <2>3, <5>4, AfterAt DEF m
        <5> QED BY <2>1, <4>1, <4>4, <5>1, <5>3, <5>5 DEF m
      <4> QED BY <4>2, <4>3, <4>4
    <3> QED BY <3>1, <3>2
  <2>9. CASE disk'[Json("release")] = disk[Json("release")]
    <3>1. r \in ExtraScripts \cup {"release"} BY <2>2
    <3>2. Backed' BY <1>1, <1>2, <2>5, <2>9, <3>1, BackedStays
    <3> QED BY <1>4, <1>5, <1>6, <1>7, <2>6, <3>2 DEF ChainInv
  <2>10. CASE disk'[Json("release")] = After(ManifestWrites)[Json("release")]
    <3>1. Touched("release", disk') BY <2>2, <2>5
    <3>2. Backed' BY <1>2, <1>9, <2>10, <3>1, ManifestBacked
    <3> QED BY <1>4, <1>5, <1>6, <1>7, <2>6, <3>2 DEF ChainInv
  <2>11. CASE disk'[Json("release")] = Torn
    <3>1. Torn.ok = FALSE BY <1>1, TornWellMade
    <3>2. ~Released' BY <2>11, <3>1 DEF Released
    <3>3. Backed' BY <3>2 DEF Backed
    <3> QED BY <1>4, <1>5, <1>6, <1>7, <2>6, <3>3 DEF ChainInv
  <2> QED BY <2>8, <2>9, <2>10, <2>11
<1> QED BY <1>1, <1>8, <1>9

\* A new run keeps the invariant: it has done nothing yet, and what is on the disk is
\* older.
LEMMA StartStep == ASSUME NEW o \in Options PROVE ChainInv /\ Start(o) => ChainInv'
<1> SUFFICES ASSUME ChainInv, Start(o) PROVE ChainInv' OBVIOUS
<1>1. ChainTyped /\ DiskSound /\ run \in Nat BY DEF ChainInv, ChainTyped, DiskSound
<1>2. /\ run < MaxRuns /\ run' = run + 1 /\ options' = o /\ pending' = Plan(o)
      /\ phase' = "stage" /\ stages' = <<>> /\ UNCHANGED <<version, moves, disk>>
  BY DEF Start
<1>3. DiskSound'
  <2>1. \A f \in Files : disk[f].stamp[1] \in Nat /\ disk[f].stamp[1] <= run
    BY <1>1 DEF DiskSound, WellMade
  <2>2. \A f \in Files : disk[f].stamp[1] <= run + 1 BY <1>1, <2>1
  <2> QED BY <1>1, <1>2, <2>2 DEF DiskSound
<1>4. \A f \in Files : disk[f].stamp[1] # run + 1
  <2>1. \A f \in Files : disk[f].stamp[1] \in Nat /\ disk[f].stamp[1] <= run
    BY <1>1 DEF DiskSound, WellMade
  <2> QED BY <1>1, <2>1
<1>5. Plan(o) \in Seq(Scripts) /\ Len(Plan(o)) \in Nat /\ Len(Plan(o)) >= FinalAt(o)
      /\ FinalAt(o) \in Nat /\ FinalAt(o) > 0
  <2>1. Before(o) \in {0, 1} BY PlanShape
  <2>2. FinalAt(o) \in Nat /\ FinalAt(o) > 0 BY <2>1 DEF FinalAt
  <2> QED BY <2>2, PlanShape
<1>6. Len(stages') = 0 /\ DOMAIN stages' = {} BY <1>2, EmptySeq
<1>7. ChainTyped'
  <2>1. << >> \in Seq(Scripts \X BOOLEAN) BY EmptySeq
  <2>2. run + 1 \in 0 .. MaxRuns BY <1>1, <1>2, ReleaseAssumption
  <2> QED BY <1>1, <1>2, <1>3, <1>5, <2>1, <2>2 DEF ChainTyped
<1>8. PlanFollowed'
  <2>1. AllPassed' BY <1>6 DEF AllPassed
  <2>2. Plan(options)' = Plan(o) BY <1>2 DEF Plan, Extras
  <2>3. \A i \in 1 .. Len(stages') : FALSE BY <1>6
  <2>4. \A i \in 1 .. Len(stages') - 1 : FALSE BY <1>6
  <2>5. run' >= 1 BY <1>1, <1>2
  <2>6. pending' # <<>>
    <3>1. Len(Plan(o)) # 0 BY <1>5
    <3> QED BY <1>2, <3>1, EmptySeq
  <2>7. Len(stages') <= Len(Plan(o)) /\ Len(stages') + Len(pending') = Len(Plan(o))
    BY <1>2, <1>5, <1>6
  <2>8. \A i \in 1 .. Len(pending') : pending'[i] = Plan(o)[Len(stages') + i] BY <1>2, <1>6
  <2> QED BY <1>2, <2>1, <2>2, <2>3, <2>4, <2>5, <2>6, <2>7, <2>8 DEF PlanFollowed
<1>9. OwnFiles' BY <1>2, <1>4 DEF OwnFiles
<1>10. Told' BY <1>2 DEF Told
<1>11. Evidence'
  <2>1. \A i \in 1 .. Len(stages') : FALSE BY <1>6
  <2> QED BY <2>1 DEF Evidence, Done
<1>12. Backed'
  <2>1. Json("release") \in Files BY FilesAre DEF Jsons
  <2>2. ~Released' BY <1>2, <1>4, <2>1 DEF Released
  <2> QED BY <2>2 DEF Backed
<1> QED BY <1>7, <1>8, <1>9, <1>10, <1>11, <1>12 DEF ChainInv

\* The version is what no part of the invariant but the type looks at.
LEMMA StillStep ==
    ASSUME ChainInv, UNCHANGED <<disk, run, options, pending, phase, stages>>,
           version' \in Versions, moves' \in 0 .. MaxMoves
    PROVE  ChainInv'
<1>1. /\ disk' = disk /\ run' = run /\ options' = options /\ pending' = pending
      /\ phase' = phase /\ stages' = stages
  OBVIOUS
<1>2. ChainTyped' BY <1>1 DEF ChainInv, ChainTyped, DiskSound
<1>3. AllPassed' = AllPassed /\ Begun' = Begun /\ Plan(options)' = Plan(options)
      /\ FinalAt(options)' = FinalAt(options)
  BY <1>1 DEF AllPassed, Begun, Plan, Extras, FinalAt, Before
<1>4. PlanFollowed' /\ OwnFiles' /\ Told'
  BY <1>1, <1>3 DEF ChainInv, PlanFollowed, OwnFiles, Told
<1>5. PackedCited' = PackedCited /\ IndexedMatched' = IndexedMatched /\ Dist' = Dist
      /\ Wheel' = Wheel /\ Released' = Released
  BY <1>1 DEF PackedCited, IndexedMatched, Dist, Wheel, Exists, Matches, Released
<1>6. WheelBought' = WheelBought BY <1>1, <1>5 DEF WheelBought
<1>7. ASSUME NEW s \in Scripts, Done(s)' PROVE Effect(s)'
  <2>1. Done(s) BY <1>1, <1>7 DEF Done
  <2>2. Effect(s) BY <2>1 DEF ChainInv, Evidence
  <2> QED BY <1>1, <1>5, <1>6, <2>2 DEF Effect
<1>8. Evidence' BY <1>7 DEF Evidence
<1>9. Backed' BY <1>1, <1>3, <1>5 DEF ChainInv, Backed, Matches, Exists
<1> QED BY <1>2, <1>4, <1>8, <1>9 DEF ChainInv

-----------------------------------------------------------------------------
(* The theorems                                                              *)

\* The invariant holds of every run of the builder: whatever scripts refuse, die
\* or are killed, and whatever earlier runs left on disk.
THEOREM ChainInvariant == Spec => []ChainInv
<1>1. ChainInv /\ [Next]_vars => ChainInv'
  <2> SUFFICES ASSUME ChainInv, [Next]_vars PROVE ChainInv' OBVIOUS
  <2>1. CASE Pass BY <2>1, PassStep
  <2>2. CASE Fail BY <2>2, FailStep
  <2>3. CASE Publish BY <2>3, PublishStep
  <2>4. CASE Crash BY <2>4, CrashStep
  <2>5. ASSUME NEW v \in Versions, CheckOut(v) PROVE ChainInv'
    <3>1. /\ UNCHANGED <<disk, run, options, pending, phase, stages>>
          /\ version' = v /\ moves < MaxMoves /\ moves' = moves + 1
      BY <2>5 DEF CheckOut
    <3>2. moves' \in 0 .. MaxMoves
      <4>1. moves \in 0 .. MaxMoves BY DEF ChainInv, ChainTyped
      <4> QED BY <3>1, <4>1, ReleaseAssumption
    <3> QED BY <3>1, <3>2, StillStep
  <2>6. ASSUME NEW o \in Options, Start(o) PROVE ChainInv' BY <2>6, StartStep
  <2>7. CASE UNCHANGED vars
    <3>1. UNCHANGED <<disk, run, options, pending, phase, stages>>
          /\ version' = version /\ moves' = moves
      BY <2>7 DEF vars
    <3>2. version' \in Versions /\ moves' \in 0 .. MaxMoves BY <3>1 DEF ChainInv, ChainTyped
    <3> QED BY <3>1, <3>2, StillStep
  <2> QED BY <2>1, <2>2, <2>3, <2>4, <2>5, <2>6, <2>7 DEF Next
<1> QED BY InvInit, <1>1, PTL DEF Spec

\* The variables keep their types.
THEOREM ChainIsTyped == Spec => []TypeOK
<1>1. ChainInv => TypeOK
  <2> SUFFICES ASSUME ChainInv PROVE TypeOK OBVIOUS
  <2>1. ChainTyped /\ DiskSound /\ pending \in Seq(Scripts) BY DEF ChainInv, ChainTyped
  <2>2. Range(pending) \subseteq Scripts BY <2>1, LenProperties, ElementOfSeq DEF Range
  <2> QED BY <2>1, <2>2 DEF ChainTyped, DiskSound, TypeOK
<1> QED BY <1>1, ChainInvariant, PTL

\* build_commercial_release.py: whatever lay in the output directory, what a
\* released manifest rests on was written by its own run and is there with the
\* digest listed, and due diligence was about the wheel of the version checked out.
THEOREM EvidenceIsOfThisRun == Spec => []EvidenceOfThisRun
<1>1. ChainInv => EvidenceOfThisRun
  <2> SUFFICES ASSUME ChainInv, Released
               PROVE  /\ \A f \in CoreFiles : disk[f].stamp[1] = run /\ Matches(Json("release"), f)
                      /\ <<"procurement", TRUE>> \in Range(stages) =>
                             LET wheels == {f \in DOMAIN disk[Json("release")].cites : f[1] = "build"} IN
                             /\ wheels = {<<"build", disk[Json("procurement")].version>>}
                             /\ \A f \in wheels : disk[f].ok /\ Matches(Json("release"), f)
    BY DEF EvidenceOfThisRun
  <2>1. /\ \A f \in CoreFiles : disk[f].stamp[1] = run /\ Matches(Json("release"), f)
        /\ Dist # {} /\ Matches(Json("release"), Wheel)
        /\ \A f \in DOMAIN disk[Json("release")].cites : f[1] = "build" => f = Wheel
        /\ Evidence /\ DiskSound /\ stages \in Seq(Scripts \X BOOLEAN)
    BY DEF ChainInv, Backed, ChainTyped
  <2> DEFINE wheels == {f \in DOMAIN disk[Json("release")].cites : f[1] = "build"}
  <2>2. wheels = {Wheel}
    <3>1. Wheel \in DOMAIN disk[Json("release")].cites BY <2>1 DEF Matches
    <3>2. PICK f : f = Wheel /\ f[1] = "build" BY <2>1, WheelIs
    <3> QED BY <2>1, <3>1, <3>2
  <2>3. ASSUME <<"procurement", TRUE>> \in Range(stages) PROVE WheelBought
    <3>1. PICK i \in DOMAIN stages : stages[i] = <<"procurement", TRUE>> BY <2>3 DEF Range
    <3>2. i \in 1 .. Len(stages) BY <2>1, LenProperties
    <3>3. Done("procurement")
      <4>1. stages[i][1] = "procurement" /\ stages[i][2] = TRUE BY <3>1
      <4> QED BY <3>2, <4>1 DEF Done
    <3>4. "procurement" \in Scripts BY DEF Scripts
    <3> QED BY <2>1, <3>3, <3>4 DEF Evidence, Effect
  <2>4. ASSUME <<"procurement", TRUE>> \in Range(stages)
        PROVE  /\ wheels = {<<"build", disk[Json("procurement")].version>>}
               /\ \A f \in wheels : disk[f].ok /\ Matches(Json("release"), f)
    <3>1. disk[Wheel].ok /\ Wheel = <<"build", disk[Json("procurement")].version>>
      BY <2>3, <2>4 DEF WheelBought
    <3> HIDE DEF wheels
    <3> QED BY <2>1, <2>2, <3>1
  <2> QED BY <2>1, <2>4
<1> QED BY <1>1, ChainInvariant, PTL

\* build_packet and the evidence index: the archive of a released packet holds,
\* and the index lists, the files that are there.
THEOREM BuyerGetsIt == Spec => []BuyerGetsWhatWasIndexed
<1>1. ChainInv => BuyerGetsWhatWasIndexed
  BY DEF ChainInv, Backed, BuyerGetsWhatWasIndexed, PackedCited, IndexedMatched
<1> QED BY <1>1, ChainInvariant, PTL

\* build_commercial_release: the manifest of a run that ended by itself says ok
\* exactly if every script of the plan has passed.
THEOREM ManifestDoesTell == Spec => []ManifestTells
<1>1. ChainInv => ManifestTells
  <2> SUFFICES ASSUME ChainInv, phase = "idle", stages # <<>>
               PROVE  /\ disk[Json("release")].stamp[1] = run
                      /\ disk[Json("release")].ok <=>
                             [i \in DOMAIN stages |-> stages[i][1]] = Plan(options)
                             /\ \A i \in DOMAIN stages : stages[i][2]
                      /\ \A i \in 1 .. Len(stages) - 1 : stages[i][2]
                      /\ \A f \in Files : disk[f].stamp[1] = run =>
                             f[1] \in {"release"} \cup {stages[i][1] : i \in DOMAIN stages}
    BY DEF ManifestTells
  <2>1. /\ ChainTyped /\ PlanFollowed /\ OwnFiles /\ Told /\ Begun /\ options \in Options
        /\ stages \in Seq(Scripts \X BOOLEAN)
    BY DEF ChainInv, ChainTyped, Begun
  <2>2. Len(stages) \in Nat /\ DOMAIN stages = 1 .. Len(stages) BY <2>1, LenProperties
  <2>3. /\ disk[Json("release")].stamp[1] = run /\ disk[Json("release")].ok = AllPassed
        /\ AllPassed => pending = <<>>
    BY <2>1 DEF Told
  <2> DEFINE names == [i \in DOMAIN stages |-> stages[i][1]]
             P == Plan(options)
  <2>4. AllPassed => names = P
    <3> SUFFICES ASSUME AllPassed PROVE names = P OBVIOUS
    <3>1. Len(stages) + Len(pending) = Len(P) /\ \A i \in 1 .. Len(stages) : stages[i][1] = P[i]
      BY <2>1 DEF PlanFollowed
    <3>2. Len(pending) = 0 BY <2>3, EmptySeq
    <3>3. P \in Seq(Scripts) /\ Len(P) \in Nat BY <2>1, PlanShape
    <3>4. P \in [1 .. Len(P) -> Scripts] BY <3>3, LenProperties
    <3> HIDE DEF P
    <3>5. Len(stages) = Len(P) BY <2>2, <3>1, <3>2, <3>3
    <3> QED BY <2>2, <3>1, <3>4, <3>5
  <2>5. disk[Json("release")].ok <=> names = P /\ \A i \in DOMAIN stages : stages[i][2]
    BY <2>3, <2>4 DEF AllPassed
  <2>6. \A i \in 1 .. Len(stages) - 1 : stages[i][2] BY <2>1 DEF PlanFollowed
  <2>7. \A f \in Files : disk[f].stamp[1] = run =>
            f[1] \in {"release"} \cup {stages[i][1] : i \in DOMAIN stages}
    BY <2>1, <2>2 DEF OwnFiles
  <2> QED BY <2>3, <2>5, <2>6, <2>7
<1> QED BY <1>1, ChainInvariant, PTL

\* sales_readiness.py: what the gate accepts was not pieced together from two runs
\* by a kill between a report and its manifest, or between a packet and its archive.
THEOREM AcceptedIsOfOnePiece == Spec => []AcceptedIsWhole
<1>1. ChainInv => AcceptedIsWhole
  <2> SUFFICES ASSUME ChainInv, Gate(Rendered)
               PROVE  /\ \A s \in Rendered : disk[Html(s)].stamp = disk[Json(s)].stamp
                      /\ disk[Archive].stamp[1] = disk[Json("packet")].stamp[1]
    BY DEF AcceptedIsWhole
  <2>1. \A f \in Files : WellMade(f, disk[f]) BY DEF ChainInv, ChainTyped, DiskSound
  <2>2. \A s \in Rendered : Valid(s) BY DEF Gate
  <2>3. \A s \in Rendered : ReportValid(s) BY <2>2 DEF Valid, PacketValid
  <2>4. ASSUME NEW s \in Rendered PROVE disk[Html(s)].stamp = disk[Json(s)].stamp
    <3>1. Json(s) \in Files BY FilesAre DEF Jsons
    <3>2. WellMade(Json(s), disk[Json(s)]) BY <2>1, <3>1
    <3>3. Html(s) \in DOMAIN disk[Json(s)].cites
          /\ disk[Json(s)].cites[Html(s)] = disk[Html(s)].stamp
      BY <2>3 DEF ReportValid, Matches
    <3>4. disk[Json(s)].cites[Html(s)] = disk[Json(s)].stamp BY <3>2, <3>3 DEF WellMade
    <3> QED BY <3>3, <3>4
  <2>5. disk[Archive].stamp[1] = disk[Json("packet")].stamp[1]
    <3>1. "packet" \in Rendered BY DEF Rendered
    <3>2. PacketValid BY <2>2, <3>1 DEF Valid
    <3>3. Json("packet") \in Files BY <3>1, FilesAre DEF Jsons
    <3>4. WellMade(Json("packet"), disk[Json("packet")]) BY <2>1, <3>3
    <3>5. Archive \in DOMAIN disk[Json("packet")].cites
          /\ disk[Json("packet")].cites[Archive] = disk[Archive].stamp
      BY <3>2 DEF PacketValid, Matches
    <3> QED BY <3>4, <3>5 DEF WellMade
  <2> QED BY <2>4, <2>5
<1> QED BY <1>1, ChainInvariant, PTL

-----------------------------------------------------------------------------
(* The installation                                                          *)

Roots(tree)        == {<<<<n>>, tree[Top][n]>> : n \in PackageRoots}
Below(tree, level) ==
    UNION {{<<Append(p[1], n), tree[p[2]][n]>> : n \in Bound(tree, p[2])} :
           p \in {q \in level : q[2] \in Dirs}}

DownTo(tree, f, n) == f = [k \in 0 .. n |-> IF k = 0 THEN Roots(tree) ELSE Below(tree, f[k - 1])]

\* There are levels down to any depth.
LEMMA LevelsExist == ASSUME NEW tree, NEW n \in Nat PROVE \E f : DownTo(tree, f, n)
<1> DEFINE Missing == {k \in Nat : ~ \E f : DownTo(tree, f, k)}
<1>1. SUFFICES ASSUME Missing # {} PROVE FALSE OBVIOUS
<1>2. PICK m \in Missing : \A k \in Missing : m <= k BY <1>1, LeastNumber
<1>3. CASE m = 0
  <2> DEFINE f == [k \in 0 .. 0 |-> Roots(tree)]
  <2>1. f = [k \in 0 .. 0 |-> IF k = 0 THEN Roots(tree) ELSE Below(tree, f[k - 1])] OBVIOUS
  <2>2. DownTo(tree, f, 0) BY <2>1 DEF DownTo
  <2> QED BY <1>2, <1>3, <2>2
<1>4. CASE m # 0
  <2>1. m \in Nat /\ m - 1 \in Nat /\ ~ (m - 1 \in Missing) BY <1>2, <1>4
  <2>2. PICK f : DownTo(tree, f, m - 1) BY <2>1
  <2> DEFINE g == [k \in 0 .. m |-> IF k = 0 THEN Roots(tree) ELSE Below(tree, f[k - 1])]
  <2>3. \A k \in 0 .. m - 1 : f[k] = g[k] BY <2>1, <2>2 DEF DownTo
  <2>4. \A k \in 0 .. m : k # 0 => f[k - 1] = g[k - 1] BY <2>1, <2>3
  <2>5. g = [k \in 0 .. m |-> IF k = 0 THEN Roots(tree) ELSE Below(tree, g[k - 1])] BY <2>4
  <2>6. DownTo(tree, g, m) BY <2>5 DEF DownTo
  <2> QED BY <1>2, <2>6
<1> QED BY <1>3, <1>4

\* The first level is that of the package roots, each other has what is in the
\* directories of the one above.
LEMMA LevelsAre ==
    ASSUME NEW tree
    PROVE  /\ Deepest \in Nat /\ MaxDepth <= Deepest
           /\ Levels(tree)[0] = Roots(tree)
           /\ \A k \in 1 .. Deepest : Levels(tree)[k] = Below(tree, Levels(tree)[k - 1])
<1>1. Deepest \in Nat /\ MaxDepth <= Deepest
  BY FileSystemAssumption, FS_CardinalityType DEF Deepest
<1>2. Levels(tree) = CHOOSE f : DownTo(tree, f, Deepest)
  BY DEF Levels, DownTo, Roots, Below
<1>3. DownTo(tree, Levels(tree), Deepest) BY <1>1, <1>2, LevelsExist
<1> QED BY <1>1, <1>3 DEF DownTo

\* What a directory of a level has is on the next.
LEMMA LevelBelow ==
    ASSUME NEW tree, NEW k \in Nat, k + 1 <= Deepest, NEW p \in Levels(tree)[k], p[2] \in Dirs,
           NEW n \in Bound(tree, p[2])
    PROVE  <<Append(p[1], n), tree[p[2]][n]>> \in Levels(tree)[k + 1]
<1>1. k + 1 \in 1 .. Deepest /\ (k + 1) - 1 = k BY LevelsAre
<1>2. Levels(tree)[k + 1] = Below(tree, Levels(tree)[k]) BY <1>1, LevelsAre
<1> QED BY <1>2 DEF Below

\* Every level can be reached.
LEMMA LevelReached ==
    ASSUME NEW tree, NEW k \in Nat, k <= Deepest
    PROVE  Levels(tree)[k] \subseteq Reachable(tree)
BY LevelsAre DEF Reachable

-----------------------------------------------------------------------------
(* What a pass has settled                                                   *)

\* L are the files a pass has confirmed: <<path, inode>>.
FilesSettled(L, tree, contents, settled, met) ==
    /\ L \subseteq Reachable(tree)
    /\ {l[1] : l \in L} = settled /\ {l[2] : l \in L} = met
    /\ \A l \in L : /\ l[2] \in FileInodes /\ Len(l[1]) > 1
                    /\ l[1] \in DOMAIN Members /\ contents[l[2]] = Members[l[1]]
    /\ \A l, m \in L : l[2] = m[2] => l = m

\* V are the directories it has left: all that is in them is settled.
DirsSettled(V, L, tree) ==
    \A v \in V : /\ v[2] \in Dirs
                 /\ \A n \in Bound(tree, v[2]) : <<Append(v[1], n), tree[v[2]][n]>> \in V \cup L

\* When the package roots are settled, so is everything below them.
LEMMA AllSettled ==
    ASSUME NEW V, NEW L, NEW tree, DirsSettled(V, L, tree), Roots(tree) \subseteq V \cup L,
           \A l \in L : l[2] \notin Dirs
    PROVE  Reachable(tree) \subseteq V \cup L
<1> DEFINE Unsettled == {k \in 0 .. Deepest : ~ (Levels(tree)[k] \subseteq V \cup L)}
<1>1. SUFFICES Unsettled = {} BY DEF Reachable
<1>2. SUFFICES ASSUME Unsettled # {} PROVE FALSE OBVIOUS
<1>3. Deepest \in Nat BY LevelsAre
<1>4. Unsettled \subseteq Nat BY <1>3
<1>5. PICK k \in Unsettled : \A j \in Unsettled : k <= j
  <2> HIDE DEF Unsettled
  <2> QED BY <1>2, <1>4, LeastNumber
<1>6. k # 0 BY LevelsAre
<1>7. k \in 1 .. Deepest /\ k - 1 \in 0 .. Deepest BY <1>3, <1>6
<1>8. Levels(tree)[k - 1] \subseteq V \cup L BY <1>5, <1>7
<1>9. Levels(tree)[k] = Below(tree, Levels(tree)[k - 1]) BY <1>7, LevelsAre
<1>10. Below(tree, Levels(tree)[k - 1]) \subseteq V \cup L BY <1>8 DEF Below, DirsSettled
<1> QED BY <1>9, <1>10

-----------------------------------------------------------------------------
(* What a step does that does not end the verification                       *)

\* The path of the directory of frame j.
PathTo(j) == [k \in 1 .. (j - 1) |-> walk[k + 1].name]

InHand == step \in {"open", "read", "verify", "confirm"}

\* The stamp of the directory of frame j has been kept or compared.
Entered(j) == j < Len(walk) \/ step # "enter"

Frames == [dir : Dirs, name : Names \union {Nil}, opened : Stamps, before : Stamps,
           todo : SUBSET Names]

Stays == UNCHANGED <<fileSystem, step, pass, walk, file, noted, between>>

LooksUp(n) ==
    /\ step = "entry" /\ step' = "open" /\ n \in here.todo
    /\ ~ Unacceptable(n, entry[here.dir][n])
    /\ walk' = [walk EXCEPT ![Len(walk)].todo = @ \ {n}]
    /\ file' = [name |-> n, ino |-> entry[here.dir][n], stamp |-> stamp[entry[here.dir][n]],
                got |-> <<>>]
    /\ entries' = (IF Len(walk) = 1 THEN entries ELSE entries + 1) /\ ~ TooMany(entries')
    /\ UNCHANGED <<fileSystem, pass, directories, snapshots, identities, finalNames, between>>

OpensFile ==
    /\ step = "open" /\ step' = (IF pass = 1 THEN "read" ELSE "confirm")
    /\ entry[here.dir][file.name] = file.ino /\ file.ino \in FileInodes
    /\ stamp[file.ino] = file.stamp /\ ~ Disagrees
    /\ UNCHANGED <<fileSystem, pass, walk, file, noted, between>>

StepsInto ==
    /\ step = "open" /\ step' = "enter"
    /\ entry[here.dir][file.name] = file.ino /\ file.ino \in Dirs
    /\ stamp[file.ino] = file.stamp
    /\ walk' = Append(walk, [dir |-> file.ino, name |-> file.name, opened |-> Looked,
                             before |-> Looked, todo |-> {}])
    /\ file' = NoFile
    /\ UNCHANGED <<fileSystem, pass, noted, between>>

Enters ==
    /\ step = "enter" /\ step' = "list" /\ Len(walk) - 1 <= MaxDepth
    /\ pass = 2 => <<DirPath, StampOf(here.dir)>> \in directories
    /\ walk' = [walk EXCEPT ![Len(walk)].before = StampOf(here.dir)]
    /\ directories' = IF pass = 1 THEN directories \union {<<DirPath, StampOf(here.dir)>>}
                      ELSE directories
    /\ UNCHANGED <<fileSystem, pass, file, entries, snapshots, identities, finalNames, between>>

ReadsOn ==
    /\ step = "read" /\ Len(file.got) < Len(data[file.ino]) /\ UNCHANGED step
    /\ file' = [file EXCEPT !.got = Append(@, data[file.ino][Len(@) + 1])]
    /\ UNCHANGED <<fileSystem, pass, walk, noted, between>>

ReadsAll ==
    /\ step = "read" /\ step' = "verify" /\ ~ (Len(file.got) < Len(data[file.ino]))
    /\ UNCHANGED <<fileSystem, pass, walk, file, noted, between>>

Verifies ==
    /\ step = "verify" /\ step' = "confirm"
    /\ UNCHANGED <<fileSystem, pass, walk, file, noted, between>>

Confirms ==
    /\ step = "confirm" /\ step' = "entry"
    /\ entry[here.dir][file.name] = file.ino /\ stamp[file.ino] = file.stamp
    /\ pass = 1 => file.got = Members[Path(file.name)]
    /\ identities' = identities \union {file.ino}
    /\ snapshots' = IF pass = 1 THEN snapshots \union {<<Path(file.name), Looked>>} ELSE snapshots
    /\ finalNames' = IF pass = 2 THEN finalNames \union {Path(file.name)} ELSE finalNames
    /\ file' = NoFile
    /\ UNCHANGED <<fileSystem, pass, walk, entries, directories, between>>

Finishes ==
    /\ step = "entry" /\ step' = "leave" /\ here.todo = {} /\ Len(walk) > 1
    /\ StampOf(here.dir) = here.before
    /\ UNCHANGED <<fileSystem, pass, walk, file, noted, between>>

StepsOut ==
    /\ step = "leave" /\ step' = "entry"
    /\ entry[walk[Len(walk) - 1].dir][here.name] = here.opened[1]
    /\ stamp[here.opened[1]] = here.opened[2]
    /\ walk' = SubSeq(walk, 1, Len(walk) - 1)
    /\ UNCHANGED <<fileSystem, pass, file, noted, between>>

Turns ==
    /\ AtEnd /\ pass = 1 /\ pass' = 2
    /\ {s[1] : s \in snapshots} = DOMAIN Members
    /\ walk' = [walk EXCEPT ![1].todo = PackageRoots]
    /\ identities' = {} /\ entries' = 0
    /\ between' = [entry |-> entry, data |-> data, clock |-> clock]
    /\ UNCHANGED <<fileSystem, step, file, directories, snapshots, finalNames>>

Proceeds ==
    \/ Begin \/ (\E n \in Names : LooksUp(n)) \/ OpensFile \/ StepsInto \/ Enters \/ List
    \/ ReadsOn \/ ReadsAll \/ Verifies \/ Confirms \/ Finishes \/ StepsOut \/ Turns

\* A frame is one of a sequence of frames.
LEMMA TypedWalk ==
    ASSUME ReadinessTypeOK
    PROVE  /\ walk \in Seq(Frames) /\ Len(walk) \in Nat
           /\ \A j \in 1 .. Len(walk) : walk[j] \in Frames
           /\ walk # <<>> => Len(walk) \in 1 .. Len(walk) /\ here \in Frames
<1>1. walk \in Seq(Frames) BY DEF ReadinessTypeOK, Frames
<1> QED BY <1>1 DEF here

\* Every step is one of the installer, goes on or leaves everything but the
\* answer as it is.
LEMMA EveryStep ==
    ASSUME ReadinessTypeOK, [ReadinessNext]_readinessVars,
           InHand => file.name \in Names /\ file.ino \in Dirs \union FileInodes
    PROVE  Installer \/ Stays \/ Proceeds
<1>1. CASE UNCHANGED readinessVars BY <1>1 DEF readinessVars, Stays
<1>2. CASE Installer BY <1>2
<1>3. CASE GiveUp BY <1>3 DEF GiveUp, Conclude, Stays
<1>4. CASE Answered BY <1>4 DEF Answered, readinessVars, Stays
<1>5. CASE Begin BY <1>5 DEF Proceeds
<1>6. ASSUME step = "entry", NEW n \in here.todo, Look(n) PROVE Stays \/ LooksUp(n)
  BY <1>6 DEF Look, LooksUp, Conclude, Stays
<1>7. CASE step = "entry" /\ \E n \in here.todo : Look(n)
  <2>1. PICK n \in here.todo : Look(n) BY <1>7
  <2>2. walk # <<>> BY <1>7 DEF ReadinessTypeOK
  <2>3. here.todo \subseteq Names BY <2>2, TypedWalk DEF Frames
  <2> QED BY <1>6, <1>7, <2>1, <2>3 DEF Proceeds
<1>8. CASE Open
  <2> DEFINE i == entry[here.dir][file.name]
  <2>1. step = "open" /\ walk # <<>> BY <1>8 DEF Open, ReadinessTypeOK
  <2>2. file.name \in Names /\ file.ino \in Dirs \union FileInodes /\ here.dir \in Dirs
    BY <2>1, TypedWalk DEF InHand, Frames
  <2>3. i \in Inodes \union {Nil} BY <2>2 DEF ReadinessTypeOK, Entry
  <2>4. CASE Stays BY <2>4
  <2>5. CASE ~ Stays
    <3>1. i # Nil /\ StampOf(i) = Looked /\ i \notin Others BY <1>8, <2>5 DEF Open, Conclude, Stays
    <3>2. i = file.ino /\ stamp[i] = file.stamp BY <3>1 DEF StampOf, Looked
    <3>3. i \in FileInodes \/ i \in Dirs BY <2>3, <3>1 DEF Inodes
    <3>4. ASSUME i \in FileInodes PROVE OpensFile
      <4>1. i \notin Dirs BY <3>4, FileSystemAssumption
      <4>2. ~ Disagrees BY <1>8, <2>5, <3>4 DEF Open, Conclude, Stays
      <4>3. step' = (IF pass = 1 THEN "read" ELSE "confirm") /\ UNCHANGED <<fileSystem, pass, walk, file, noted, between>>
        BY <1>8, <2>5, <3>4, <4>1 DEF Open, Conclude, Stays
      <4> QED BY <2>1, <3>2, <3>4, <4>2, <4>3 DEF OpensFile
    <3>5. ASSUME i \in Dirs PROVE StepsInto
      <4>1. i \notin FileInodes BY <3>5, FileSystemAssumption
      <4>2. /\ walk' = Append(walk, [dir |-> i, name |-> file.name, opened |-> Looked,
                                     before |-> Looked, todo |-> {}])
            /\ file' = NoFile /\ step' = "enter" /\ UNCHANGED <<fileSystem, pass, noted, between>>
        BY <1>8, <2>5, <3>5, <4>1 DEF Open, Conclude, Stays
      <4> QED BY <2>1, <3>2, <3>5, <4>2 DEF StepsInto
    <3> QED BY <3>3, <3>4, <3>5 DEF Proceeds
  <2> QED BY <2>4, <2>5
<1>9. CASE Enter
  <2>1. Len(walk) \in Nat BY TypedWalk
  <2> QED BY <1>9, <2>1, FileSystemAssumption DEF Enter, Enters, Conclude, Stays, Proceeds
<1>10. CASE List BY <1>10 DEF Proceeds
<1>11. CASE Read BY <1>11 DEF Read, ReadsOn, ReadsAll, Conclude, Stays, Proceeds
<1>12. CASE Verify BY <1>12 DEF Verify, Verifies, Conclude, Stays, Proceeds
<1>13. CASE Confirm
  <2>1. CASE Stays BY <2>1
  <2>2. CASE ~ Stays
    <3>1. StampOf(entry[here.dir][file.name]) = Looked /\ (pass = 1 => file.got = Members[Path(file.name)])
      BY <1>13, <2>2 DEF Confirm, Conclude, Stays
    <3>2. entry[here.dir][file.name] = file.ino /\ stamp[file.ino] = file.stamp BY <3>1 DEF StampOf, Looked
    <3> QED BY <1>13, <2>2, <3>1, <3>2 DEF Confirm, Confirms, Conclude, Stays, Proceeds
  <2> QED BY <2>1, <2>2
<1>14. CASE Finish BY <1>14 DEF Finish, Finishes, Conclude, Stays, Proceeds
<1>15. CASE Leave
  <2>1. CASE Stays BY <2>1
  <2>2. CASE ~ Stays
    <3> DEFINE i == entry[walk[Len(walk) - 1].dir][here.name]
    <3>1. StampOf(i) = here.opened BY <1>15, <2>2 DEF Leave, Conclude, Stays
    <3>2. i = here.opened[1] /\ stamp[i] = here.opened[2] BY <3>1 DEF StampOf
    <3> QED BY <1>15, <2>2, <3>2 DEF Leave, StepsOut, Conclude, Stays, Proceeds
  <2> QED BY <2>1, <2>2
<1>16. CASE Turn BY <1>16 DEF Turn, Turns, Reset, Conclude, Stays, Proceeds
<1>17. CASE Close BY <1>17 DEF Close, Conclude, Stays
<1> QED
  BY <1>1, <1>2, <1>3, <1>4, <1>5, <1>7, <1>8, <1>9, <1>10, <1>11, <1>12, <1>13, <1>14, <1>15,
     <1>16, <1>17 DEF ReadinessNext, Verifier

-----------------------------------------------------------------------------
(* The invariant                                                             *)

\* A frame's directory was opened before it was entered, and neither stamp is
\* one it has yet to get.
FrameFits(w) ==
    /\ w.opened[1] = w.dir /\ w.before[1] = w.dir
    /\ w.opened[2] <= w.before[2] /\ w.before[2] <= stamp[w.dir]

\* The walk starts at the root, goes on with a package root and then down names.
WalkFits ==
    /\ \A j \in 1 .. Len(walk) : FrameFits(walk[j])
    /\ \A j \in 2 .. Len(walk) : walk[j].name \in Names
    /\ step # "begin" => /\ walk[1].dir = Top /\ walk[1].before = walk[1].opened
                         /\ walk[1].todo \subseteq PackageRoots
    /\ Len(walk) >= 2 => walk[2].name \in PackageRoots
    /\ step \in {"enter", "list", "leave"} => Len(walk) >= 2
    /\ Len(walk) <= MaxDepth + (IF step = "enter" THEN 2 ELSE 1)
    /\ step = "leave" => here.todo = {}

\* The entry in hand was acceptable when it was looked up.
FileFits ==
    InHand =>
      /\ file.name \in Names /\ file.ino \in Dirs \union FileInodes
      /\ file.stamp <= stamp[file.ino]
      /\ Len(walk) = 1 => file.name \in PackageRoots
      /\ file.ino \in FileInodes =>
           Len(walk) > 1 /\ Path(file.name) \in DOMAIN Members /\ file.ino \notin identities
      /\ step # "open" => file.ino \in FileInodes
      /\ pass = 2 /\ step # "open" => step = "confirm" /\ <<Path(file.name), Looked>> \in snapshots

\* What the installer did: what is not as it was has a new stamp.
Installs ==
    /\ clock' = clock + 1
    /\ \A i \in Inodes : \/ stamp'[i] = clock + 1
                         \/ /\ stamp'[i] = stamp[i]
                            /\ i \in Dirs => entry'[i] = entry[i]
                            /\ i \in FileInodes => data'[i] = data[i]
    /\ UNCHANGED <<step, pass, walk, file, noted, answer, between>>

LEMMA InstallerInstalls ==
    ASSUME ReadinessTypeOK, Installer
    PROVE  /\ Installs /\ entry' \in [Dirs -> [Names -> Entry]] /\ data' \in [FileInodes -> Contents]
           /\ stamp' \in [Inodes -> 0 .. MaxChanges] /\ clock' \in 0 .. MaxChanges
<1>1. ASSUME NEW touched, Touch(touched)
      PROVE  /\ clock' = clock + 1 /\ clock' \in 0 .. MaxChanges
             /\ stamp' \in [Inodes -> 0 .. MaxChanges]
             /\ \A i \in Inodes : stamp'[i] = (IF i \in touched THEN clock + 1 ELSE stamp[i])
             /\ UNCHANGED <<step, pass, walk, file, noted, answer, between>>
  BY <1>1, FileSystemAssumption DEF Touch, ReadinessTypeOK
<1>2. CASE \E i \in FileInodes, content \in Contents : Rewrite(i, content)
  <2>1. PICK i \in FileInodes, content \in Contents : Rewrite(i, content) BY <1>2
  <2>2. data' = [data EXCEPT ![i] = content] /\ UNCHANGED entry /\ Touch({i}) BY <2>1 DEF Rewrite
  <2>3. data' \in [FileInodes -> Contents] /\ \A j \in FileInodes : j # i => data'[j] = data[j]
    BY <2>2 DEF ReadinessTypeOK
  <2> QED BY <1>1, <2>2, <2>3 DEF Installs, ReadinessTypeOK
<1>3. CASE \E slot \in Slots : Bind(slot[1], slot[2], slot[3])
  <2>1. PICK slot \in Slots : Bind(slot[1], slot[2], slot[3]) BY <1>3
  <2>2. slot[1] \in Dirs /\ slot[2] \in Names /\ slot[3] \in Entry
    BY FileSystemAssumption DEF Entry
  <2>3. /\ entry' = [entry EXCEPT ![slot[1]][slot[2]] = slot[3]] /\ UNCHANGED data
        /\ Touch({slot[1]} \union ({slot[3], entry[slot[1]][slot[2]]} \ {Nil}))
    BY <2>1 DEF Bind
  <2>4. entry' \in [Dirs -> [Names -> Entry]] /\ \A d \in Dirs : d # slot[1] => entry'[d] = entry[d]
    BY <2>2, <2>3 DEF ReadinessTypeOK
  <2> QED BY <1>1, <2>2, <2>3, <2>4 DEF Installs, ReadinessTypeOK
<1> QED BY <1>2, <1>3 DEF Installer

\* The last frame is replaced.
LEMMA TopReplaced ==
    ASSUME NEW w \in Seq(Frames), w # <<>>, NEW m, m = Len(w), NEW x \in Frames,
           NEW v, v = [w EXCEPT ![m] = x]
    PROVE  /\ v \in Seq(Frames) /\ Len(v) = m /\ v # <<>> /\ v[m] = x
           /\ \A j \in 1 .. m : j # m => v[j] = w[j]
<1>1. m \in 1 .. Len(w) BY EmptySeq
<1>2. v \in Seq(Frames) /\ Len(v) = m BY <1>1, ExceptSeq
<1>3. v # <<>> BY <1>1, <1>2
<1> QED BY <1>1, <1>2, <1>3, ExceptSeq

LEMMA TopRemoved ==
    ASSUME NEW w \in Seq(Frames), Len(w) >= 2
    PROVE  LET v == SubSeq(w, 1, Len(w) - 1)
           IN  /\ v \in Seq(Frames) /\ Len(v) = Len(w) - 1 /\ v # <<>>
               /\ \A j \in 1 .. Len(v) : v[j] = w[j]
<1>1. Len(w) \in Nat /\ 1 \in 1 .. Len(w) + 1 /\ Len(w) - 1 \in 0 .. Len(w) OBVIOUS
<1> DEFINE v == SubSeq(w, 1, Len(w) - 1)
<1>2. v \in Seq(Frames) /\ Len(v) = Len(w) - 1 /\ \A j \in 1 .. Len(v) : v[j] = w[j]
  BY <1>1, SubSeqProperties
<1>3. v # <<>>
  <2>1. Len(v) # 0 /\ v \in Seq(Frames) BY <1>1, <1>2
  <2> HIDE DEF v
  <2> QED BY <2>1, EmptySeq
<1> QED BY <1>2, <1>3

LEMMA TopAdded ==
    ASSUME NEW w \in Seq(Frames), NEW x \in Frames
    PROVE  LET v == Append(w, x)
           IN  /\ v \in Seq(Frames) /\ Len(v) = Len(w) + 1 /\ v # <<>> /\ v[Len(w) + 1] = x
               /\ \A j \in 1 .. Len(w) : v[j] = w[j]
BY AppendProperties

LEMMA WalkKept ==
    ASSUME ReadinessTypeOK, WalkFits, FileFits, Proceeds
    PROVE  walk' \in Seq(Frames) /\ (step' # "begin" => walk' # <<>>) /\ WalkFits'
<1> USE FileSystemAssumption
<1>20. PICK m : m = Len(walk) OBVIOUS
<1>21. PICK top : top = walk[m] OBVIOUS
<1>0. /\ m = Len(walk) /\ top = walk[m] /\ walk \in Seq(Frames) /\ m \in Nat /\ \A j \in 1 .. m : walk[j] \in Frames
      /\ step # "begin" => walk # <<>> /\ m >= 1 /\ top \in Frames
  BY <1>20, <1>21, TypedWalk, EmptySeq DEF ReadinessTypeOK, here
<1>1. CASE Begin
  <2> DEFINE first == [dir |-> Top, name |-> Nil, opened |-> StampOf(Top),
                       before |-> StampOf(Top), todo |-> PackageRoots]
  <2>1. walk' = <<first>> /\ step' = "entry" /\ UNCHANGED <<fileSystem, file, noted>> BY <1>1 DEF Begin
  <2>2. stamp[Top] \in 0 .. MaxChanges /\ Top \in Inodes BY DEF ReadinessTypeOK, Inodes
  <2>3. first \in Frames BY <2>2 DEF Frames, StampOf, Stamps
  <2>4. Len(walk') = 1 /\ walk'[1] = first /\ walk' \in Seq(Frames) /\ walk' # <<>> BY <2>1, <2>3
  <2>5. FrameFits(walk[1])' BY <2>1, <2>2, <2>4 DEF FrameFits, StampOf, fileSystem
  <2> QED BY <2>1, <2>4, <2>5 DEF WalkFits, fileSystem
<1>2. ASSUME NEW n \in Names, LooksUp(n) PROVE walk' \in Seq(Frames) /\ walk' # <<>> /\ WalkFits'
  <2>1. walk # <<>> /\ m >= 1 /\ top \in Frames BY <1>0, <1>2 DEF LooksUp
  <2>2. PICK x \in Frames : x = [top EXCEPT !.todo = top.todo \ {n}]
    BY <1>0, <2>1 DEF Frames
  <2>3. walk' = [walk EXCEPT ![m] = x] BY <1>0, <1>2, <2>2 DEF LooksUp
  <2>4. /\ walk' \in Seq(Frames) /\ walk' # <<>> /\ Len(walk') = m /\ walk'[m] = x
        /\ \A j \in 1 .. m : j # m => walk'[j] = walk[j]
    BY <1>0, <2>1, <2>3, TopReplaced
  <2>5. \A j \in 1 .. m : /\ walk'[j].dir = walk[j].dir /\ walk'[j].name = walk[j].name
                          /\ walk'[j].opened = walk[j].opened /\ walk'[j].before = walk[j].before
                          /\ walk'[j].todo \subseteq walk[j].todo
    BY <1>0, <2>1, <2>2, <2>4 DEF Frames
  <2>6. step = "entry" /\ step' = "open" /\ UNCHANGED stamp BY <1>2 DEF LooksUp, fileSystem
  <2>7. \A j \in 1 .. m : FrameFits(walk[j])' BY <1>0, <2>5, <2>6 DEF WalkFits, FrameFits
  <2> QED BY <1>0, <2>1, <2>4, <2>5, <2>6, <2>7 DEF WalkFits
<1>3. CASE walk' = walk /\ step' # "enter" /\ (step # "enter" \/ step' = "list")
           /\ (step' \in {"list", "leave"} => m >= 2) /\ (step' = "leave" => top.todo = {})
           /\ step # "begin" /\ step' # "begin" /\ stamp' = stamp /\ step # "enter"
  BY <1>0, <1>3 DEF WalkFits, FrameFits, here
<1>4. CASE OpensFile
  <2>1. step' # "enter" /\ step' \notin {"list", "leave", "begin"} BY <1>4 DEF OpensFile
  <2> QED BY <1>3, <1>4, <2>1 DEF OpensFile, fileSystem
<1>5. CASE ReadsOn \/ ReadsAll \/ Verifies \/ Confirms
  BY <1>3, <1>5 DEF ReadsOn, ReadsAll, Verifies, Confirms, fileSystem
<1>6. CASE Finishes
  <2>1. m >= 2 /\ top.todo = {} BY <1>0, <1>6 DEF Finishes, here
  <2> QED BY <1>3, <1>6, <2>1 DEF Finishes, fileSystem
<1>7. CASE StepsInto
  <2>1. /\ step = "open" /\ step' = "enter" /\ UNCHANGED stamp
        /\ file.ino \in Dirs /\ stamp[file.ino] = file.stamp /\ file.name \in Names
        /\ m = 1 => file.name \in PackageRoots
    BY <1>0, <1>7 DEF StepsInto, FileFits, InHand, fileSystem
  <2>2. Looked \in Stamps BY <2>1 DEF Looked, Stamps, Inodes, ReadinessTypeOK
  <2>3. PICK x \in Frames : x = [dir |-> file.ino, name |-> file.name, opened |-> Looked, before |-> Looked, todo |-> {}]
    BY <2>1, <2>2 DEF Frames
  <2>12. walk' = Append(walk, x) BY <1>0, <1>7, <2>3 DEF StepsInto
  <2>4. /\ walk' \in Seq(Frames) /\ walk' # <<>> /\ Len(walk') = m + 1 /\ walk'[m + 1] = x
        /\ \A j \in 1 .. m : walk'[j] = walk[j]
    BY <1>0, <2>12, TopAdded
  <2>5. file.stamp \in Nat BY <2>1 DEF ReadinessTypeOK, Inodes
  <2>6. \A j \in 1 .. m : FrameFits(walk[j])' BY <1>0, <2>1, <2>4 DEF WalkFits, FrameFits
  <2>7. FrameFits(walk[m + 1])' BY <2>1, <2>3, <2>4, <2>5 DEF FrameFits, Looked
  <2>8. \A j \in 1 .. Len(walk') : FrameFits(walk[j])' BY <1>0, <2>4, <2>6, <2>7
  <2>9. \A j \in 2 .. Len(walk') : walk'[j].name \in Names BY SMTT(30), <1>0, <2>1, <2>3, <2>4 DEF WalkFits
  <2>10. m >= 1 /\ 1 \in 1 .. m /\ walk[1].dir = Top /\ walk[1].before = walk[1].opened
         /\ walk[1].todo \subseteq PackageRoots /\ m <= MaxDepth + 1 /\ (m >= 2 => walk[2].name \in PackageRoots)
    BY <1>0, <2>1 DEF WalkFits
  <2>11. Len(walk') >= 2 /\ walk'[2].name \in PackageRoots BY <1>0, <2>1, <2>3, <2>4, <2>10
  <2> QED BY <1>0, <2>1, <2>4, <2>8, <2>9, <2>10, <2>11 DEF WalkFits
<1>8. CASE Enters
  <2>1. /\ walk # <<>> /\ m >= 2 /\ top \in Frames /\ step = "enter" /\ step' = "list"
        /\ m - 1 <= MaxDepth /\ UNCHANGED stamp
    BY <1>0, <1>8 DEF Enters, WalkFits, fileSystem
  <2>2. PICK x \in Frames : x = [top EXCEPT !.before = StampOf(top.dir)]
    BY <2>1 DEF Frames, StampOf, Stamps, Inodes, ReadinessTypeOK
  <2>3. walk' = [walk EXCEPT ![m] = x] BY <1>0, <1>8, <2>2 DEF Enters, here
  <2>4. /\ walk' \in Seq(Frames) /\ walk' # <<>> /\ Len(walk') = m /\ walk'[m] = x
        /\ \A j \in 1 .. m : j # m => walk'[j] = walk[j]
    BY <1>0, <2>1, <2>3, TopReplaced
  <2>5. /\ top.dir \in Inodes /\ stamp[top.dir] \in Nat /\ FrameFits(top)
        /\ top.before[2] \in Nat /\ top.opened[2] \in Nat
    <3>1. top.dir \in Dirs /\ top.before \in Stamps /\ top.opened \in Stamps BY <2>1 DEF Frames
    <3>2. top.before[2] \in Nat /\ top.opened[2] \in Nat BY <3>1 DEF Stamps
    <3>3. top.dir \in Inodes /\ stamp[top.dir] \in Nat BY <3>1 DEF Inodes, ReadinessTypeOK
    <3> QED BY <1>0, <2>1, <3>2, <3>3 DEF WalkFits
  <2>6. x.dir = top.dir /\ x.name = top.name /\ x.opened = top.opened /\ x.before = <<top.dir, stamp[top.dir]>>
    BY <2>1, <2>2 DEF Frames, StampOf
  <2>7. FrameFits(walk[m])' BY <2>1, <2>4, <2>5, <2>6 DEF FrameFits
  <2>8. \A j \in 1 .. m : FrameFits(walk[j])'
    <3>1. ASSUME NEW j \in 1 .. m, j # m PROVE FrameFits(walk[j])'
      BY <1>0, <2>1, <2>4, <3>1 DEF WalkFits, FrameFits
    <3> QED BY <2>7, <3>1
  <2>9. \A j \in 2 .. m : walk'[j].name \in Names
    BY <1>0, <2>1, <2>4, <2>6 DEF WalkFits
  <2>10. walk'[1] = walk[1] /\ (m = 2 => walk'[2].name = walk[2].name) /\ (m > 2 => walk'[2] = walk[2])
    BY <1>0, <2>1, <2>4, <2>6
  <2> QED BY <1>0, <2>1, <2>4, <2>8, <2>9, <2>10 DEF WalkFits
<1>9. CASE List
  <2>1. /\ walk # <<>> /\ m >= 2 /\ top \in Frames /\ step = "list" /\ step' = "entry"
        /\ UNCHANGED stamp
    BY <1>0, <1>9 DEF List, WalkFits, fileSystem
  <2>2. PICK x \in Frames : x = [top EXCEPT !.todo = Bound(entry, here.dir)]
    BY <2>1 DEF Frames, Bound
  <2>3. walk' = [walk EXCEPT ![m] = x] BY <1>0, <1>9, <2>2 DEF List, here
  <2>4. /\ walk' \in Seq(Frames) /\ walk' # <<>> /\ Len(walk') = m /\ walk'[m] = x
        /\ \A j \in 1 .. m : j # m => walk'[j] = walk[j]
    BY <1>0, <2>1, <2>3, TopReplaced
  <2>5. \A j \in 1 .. m : /\ walk'[j].dir = walk[j].dir /\ walk'[j].name = walk[j].name
                          /\ walk'[j].opened = walk[j].opened /\ walk'[j].before = walk[j].before
    BY <1>0, <2>1, <2>2, <2>4 DEF Frames
  <2>6. \A j \in 1 .. m : FrameFits(walk[j])' BY <1>0, <2>1, <2>5 DEF WalkFits, FrameFits
  <2>7. walk'[1] = walk[1] BY <1>0, <2>1, <2>4
  <2> QED BY <1>0, <2>1, <2>4, <2>5, <2>6, <2>7 DEF WalkFits
<1>10. CASE StepsOut
  <2>1. /\ m >= 2 /\ step' = "entry" /\ walk' = SubSeq(walk, 1, m - 1) /\ UNCHANGED stamp
    BY <1>0, <1>10 DEF StepsOut, WalkFits, fileSystem
  <2>2. /\ walk' \in Seq(Frames) /\ Len(walk') = m - 1 /\ walk' # <<>>
        /\ \A j \in 1 .. m - 1 : walk'[j] = walk[j]
    BY <1>0, <2>1, TopRemoved
  <2>3. \A j \in 1 .. m - 1 : FrameFits(walk[j])' BY <1>0, <2>1, <2>2 DEF WalkFits, FrameFits
  <2>4. step = "leave" BY <1>10 DEF StepsOut
  <2> QED BY <1>0, <2>1, <2>2, <2>3, <2>4 DEF WalkFits
<1>11. CASE Turns
  <2>1. m = 1 /\ walk # <<>> /\ top \in Frames /\ step = "entry" /\ step' = "entry" /\ UNCHANGED stamp
    BY <1>0, <1>11 DEF Turns, AtEnd, fileSystem
  <2>2. PICK x \in Frames : x = [top EXCEPT !.todo = PackageRoots]
    BY <1>0, <2>1 DEF Frames
  <2>3. walk' = [walk EXCEPT ![m] = x] BY <1>0, <1>11, <2>2, <2>1 DEF Turns
  <2>4. walk' \in Seq(Frames) /\ walk' # <<>> /\ Len(walk') = 1 /\ walk'[1] = x
    <3>1. walk \in Seq(Frames) /\ walk # <<>> /\ m = Len(walk) BY <1>0, <2>1
    <3>2. walk' \in Seq(Frames) /\ walk' # <<>> /\ Len(walk') = m /\ walk'[m] = x
      BY <2>3, <3>1, TopReplaced
    <3> QED BY <2>1, <3>2
  <2>5. x.dir = walk[1].dir /\ x.opened = walk[1].opened /\ x.before = walk[1].before /\ x.todo = PackageRoots
    BY <1>0, <2>1, <2>2 DEF Frames
  <2>6. FrameFits(walk[1])' BY <2>1, <2>4, <2>5 DEF WalkFits, FrameFits
  <2> QED BY <2>1, <2>4, <2>5, <2>6 DEF WalkFits
<1> QED BY <1>1, <1>2, <1>4, <1>5, <1>6, <1>7, <1>8, <1>9, <1>10, <1>11 DEF Proceeds

-----------------------------------------------------------------------------
(* How the walk moves                                                        *)

\* The same directories are open under the same names.
SameWay ==
    /\ Len(walk') = Len(walk)
    /\ \A j \in 1 .. Len(walk) : /\ walk'[j].dir = walk[j].dir /\ walk'[j].name = walk[j].name
                                 /\ walk'[j].opened = walk[j].opened

SameBefore == \A j \in 1 .. Len(walk) : walk'[j].before = walk[j].before

\* Only the last frame has other entries to do.
NowToDo(todo) ==
    \A j \in 1 .. Len(walk) : walk'[j].todo = IF j = Len(walk) THEN todo ELSE walk[j].todo

LEMMA WayKept ==
    ASSUME ReadinessTypeOK, Proceeds
    PROVE  /\ \A n \in Names : LooksUp(n) =>
                SameWay /\ SameBefore /\ NowToDo(here.todo \ {n})
           /\ Enters => /\ SameWay /\ NowToDo(here.todo)
                        /\ \A j \in 1 .. Len(walk) :
                             walk'[j].before = IF j = Len(walk) THEN StampOf(here.dir) ELSE walk[j].before
           /\ List => SameWay /\ SameBefore /\ NowToDo(Bound(entry, here.dir))
           /\ Turns => SameWay /\ SameBefore /\ NowToDo(PackageRoots)
           /\ walk' = walk => SameWay /\ SameBefore /\ NowToDo(here.todo)
<1>20. PICK m : m = Len(walk) OBVIOUS
<1>0. /\ m = Len(walk) /\ here = walk[m] /\ walk \in Seq(Frames) /\ m \in Nat
      /\ \A j \in 1 .. m : walk[j] \in Frames
      /\ step # "begin" => walk # <<>> /\ m >= 1 /\ here \in Frames
  BY <1>20, TypedWalk, EmptySeq DEF ReadinessTypeOK, here
<1>1. ASSUME NEW x \in Frames, step # "begin", walk' = [walk EXCEPT ![m] = x],
             x.dir = here.dir, x.name = here.name, x.opened = here.opened
      PROVE  /\ SameWay /\ NowToDo(x.todo) /\ (x.before = here.before => SameBefore)
             /\ \A j \in 1 .. m : walk'[j].before = IF j = m THEN x.before ELSE walk[j].before
  <2>1. walk # <<>> BY <1>0, <1>1
  <2>2. Len(walk') = m /\ walk'[m] = x /\ \A j \in 1 .. m : j # m => walk'[j] = walk[j]
    BY <1>0, <1>1, <2>1, TopReplaced
  <2> QED BY <1>0, <1>1, <2>2 DEF SameWay, SameBefore, NowToDo
<1>2. ASSUME NEW n \in Names, LooksUp(n)
      PROVE  SameWay /\ SameBefore /\ NowToDo(here.todo \ {n})
  <2>1. step # "begin" /\ here \in Frames BY <1>0, <1>2 DEF LooksUp
  <2>2. PICK x \in Frames : x = [here EXCEPT !.todo = here.todo \ {n}] BY <2>1 DEF Frames
  <2>3. walk' = [walk EXCEPT ![m] = x] BY <1>0, <1>2, <2>2 DEF LooksUp
  <2>4. /\ x.dir = here.dir /\ x.name = here.name /\ x.opened = here.opened
        /\ x.before = here.before /\ x.todo = here.todo \ {n}
    BY <2>1, <2>2 DEF Frames
  <2>5. SameWay /\ SameBefore /\ NowToDo(x.todo) BY <1>1, <2>1, <2>3, <2>4
  <2> QED BY <2>4, <2>5
<1>3. ASSUME Enters
      PROVE  /\ SameWay /\ NowToDo(here.todo)
             /\ \A j \in 1 .. m : walk'[j].before = IF j = m THEN StampOf(here.dir) ELSE walk[j].before
  <2>1. step # "begin" /\ here \in Frames BY <1>0, <1>3 DEF Enters
  <2>2. PICK x \in Frames : x = [here EXCEPT !.before = StampOf(here.dir)]
    BY <2>1 DEF Frames, StampOf, Stamps, Inodes, ReadinessTypeOK
  <2>3. walk' = [walk EXCEPT ![m] = x] BY <1>0, <1>3, <2>2 DEF Enters
  <2>4. /\ x.dir = here.dir /\ x.name = here.name /\ x.opened = here.opened
        /\ x.before = StampOf(here.dir) /\ x.todo = here.todo
    BY <2>1, <2>2 DEF Frames
  <2>5. /\ SameWay /\ NowToDo(x.todo)
        /\ \A j \in 1 .. m : walk'[j].before = IF j = m THEN x.before ELSE walk[j].before
    BY <1>1, <2>1, <2>3, <2>4
  <2> QED BY <2>4, <2>5
<1>4. ASSUME List PROVE SameWay /\ SameBefore /\ NowToDo(Bound(entry, here.dir))
  <2>1. step # "begin" /\ here \in Frames BY <1>0, <1>4 DEF List
  <2>2. PICK x \in Frames : x = [here EXCEPT !.todo = Bound(entry, here.dir)]
    BY <2>1 DEF Frames, Bound
  <2>3. walk' = [walk EXCEPT ![m] = x] BY <1>0, <1>4, <2>2 DEF List
  <2>4. /\ x.dir = here.dir /\ x.name = here.name /\ x.opened = here.opened
        /\ x.before = here.before /\ x.todo = Bound(entry, here.dir)
    BY <2>1, <2>2 DEF Frames
  <2>5. SameWay /\ SameBefore /\ NowToDo(x.todo) BY <1>1, <2>1, <2>3, <2>4
  <2> QED BY <2>4, <2>5
<1>5. ASSUME Turns PROVE SameWay /\ SameBefore /\ NowToDo(PackageRoots)
  <2>1. step # "begin" /\ here \in Frames /\ m = 1 BY <1>0, <1>5 DEF Turns, AtEnd
  <2>2. PICK x \in Frames : x = [here EXCEPT !.todo = PackageRoots]
    BY <2>1, FileSystemAssumption DEF Frames
  <2>3. walk' = [walk EXCEPT ![m] = x] BY <1>0, <1>5, <2>1, <2>2 DEF Turns
  <2>4. /\ x.dir = here.dir /\ x.name = here.name /\ x.opened = here.opened
        /\ x.before = here.before /\ x.todo = PackageRoots
    BY <2>1, <2>2 DEF Frames
  <2>5. SameWay /\ SameBefore /\ NowToDo(x.todo) BY <1>1, <2>1, <2>3, <2>4
  <2> QED BY <2>4, <2>5
<1>6. ASSUME walk' = walk PROVE SameWay /\ SameBefore /\ NowToDo(here.todo)
  BY <1>0, <1>6 DEF SameWay, SameBefore, NowToDo
<1> QED BY <1>0, <1>2, <1>3, <1>4, <1>5, <1>6

\* Where the walk gets longer or shorter, the rest stays.
LEMMA WayLonger ==
    ASSUME ReadinessTypeOK, WalkFits, FileFits, StepsInto
    PROVE  /\ Len(walk') = Len(walk) + 1 /\ \A j \in 1 .. Len(walk) : walk'[j] = walk[j]
           /\ walk'[Len(walk) + 1].dir = file.ino /\ walk'[Len(walk) + 1].name = file.name
           /\ walk'[Len(walk) + 1].before = Looked /\ walk'[Len(walk) + 1].todo = {}
<1>1. /\ walk \in Seq(Frames) /\ file.ino \in Dirs /\ file.name \in Names
      /\ stamp[file.ino] = file.stamp
  BY TypedWalk DEF StepsInto, FileFits, InHand
<1>2. Looked \in Stamps BY <1>1 DEF Looked, Stamps, Inodes, ReadinessTypeOK
<1>3. PICK x \in Frames : x = [dir |-> file.ino, name |-> file.name, opened |-> Looked,
                               before |-> Looked, todo |-> {}]
  BY <1>1, <1>2 DEF Frames
<1>4. walk' = Append(walk, x) BY <1>3 DEF StepsInto
<1> QED BY <1>1, <1>3, <1>4, TopAdded

LEMMA WayShorter ==
    ASSUME ReadinessTypeOK, WalkFits, StepsOut
    PROVE  /\ Len(walk) >= 2 /\ Len(walk') = Len(walk) - 1
           /\ \A j \in 1 .. Len(walk) - 1 : walk'[j] = walk[j]
<1>1. Len(walk) >= 2 /\ walk \in Seq(Frames) BY TypedWalk DEF StepsOut, WalkFits
<1> QED BY <1>1, TopRemoved DEF StepsOut

\* Paths depend on names only.
LEMMA PathsKept ==
    ASSUME ReadinessTypeOK, NEW m \in Nat, \A j \in 1 .. m : walk'[j].name = walk[j].name
    PROVE  \A j \in 1 .. m : PathTo(j)' = PathTo(j)
BY DEF PathTo

LEMMA PathsTyped ==
    ASSUME ReadinessTypeOK, WalkFits
    PROVE  /\ \A j \in 1 .. Len(walk) : PathTo(j) \in Seq(Names) /\ Len(PathTo(j)) = j - 1
           /\ \A j \in 1 .. Len(walk) - 1 : PathTo(j + 1) = Append(PathTo(j), walk[j + 1].name)
           /\ \A n : Path(n) = Append(PathTo(Len(walk)), n)
           /\ DirPath = PathTo(Len(walk))
<1>1. Len(walk) \in Nat BY TypedWalk
<1>2. ASSUME NEW j \in 1 .. Len(walk)
      PROVE  PathTo(j) \in [1 .. (j - 1) -> Names] /\ PathTo(j) \in Seq(Names) /\ Len(PathTo(j)) = j - 1
  <2>1. \A k \in 1 .. (j - 1) : walk[k + 1].name \in Names BY <1>1 DEF WalkFits
  <2>2. PathTo(j) \in [1 .. (j - 1) -> Names] BY <2>1 DEF PathTo
  <2>3. j - 1 \in Nat BY <1>1
  <2> QED BY <2>2, <2>3
<1>3. ASSUME NEW j \in 1 .. Len(walk) - 1
      PROVE  PathTo(j + 1) = Append(PathTo(j), walk[j + 1].name)
  <2>1. j \in 1 .. Len(walk) /\ j + 1 \in 1 .. Len(walk) /\ walk[j + 1].name \in Names
    BY <1>1 DEF WalkFits
  <2>2. PathTo(j + 1) \in Seq(Names) /\ Len(PathTo(j + 1)) = j BY <1>1, <1>2, <2>1
  <2>3. PathTo(j) \in Seq(Names) /\ Len(PathTo(j)) = j - 1 BY <1>2, <2>1
  <2>4. /\ Append(PathTo(j), walk[j + 1].name) \in Seq(Names)
        /\ Len(Append(PathTo(j), walk[j + 1].name)) = j
        /\ Append(PathTo(j), walk[j + 1].name)[j] = walk[j + 1].name
        /\ \A k \in 1 .. (j - 1) : Append(PathTo(j), walk[j + 1].name)[k] = PathTo(j)[k]
    BY <1>1, <2>1, <2>3, AppendProperties
  <2>5. \A k \in 1 .. j : PathTo(j + 1)[k] = walk[k + 1].name BY <1>1 DEF PathTo
  <2>6. \A k \in 1 .. (j - 1) : PathTo(j)[k] = walk[k + 1].name BY DEF PathTo
  <2>7. \A k \in 1 .. j : PathTo(j + 1)[k] = Append(PathTo(j), walk[j + 1].name)[k]
    <3>1. ASSUME NEW k \in 1 .. j PROVE PathTo(j + 1)[k] = Append(PathTo(j), walk[j + 1].name)[k]
      <4>1. PathTo(j + 1)[k] = walk[k + 1].name BY <2>5
      <4>2. CASE k = j BY <2>4, <4>1, <4>2
      <4>3. CASE k # j
        <5>1. k \in 1 .. (j - 1) BY <4>3
        <5> QED BY <2>4, <2>6, <4>1, <5>1
      <4> QED BY <4>2, <4>3
    <3> QED BY <3>1
  <2> QED BY <2>2, <2>4, <2>7, SeqEqual
<1>4. \A n : Path(n) = Append(PathTo(Len(walk)), n) BY DEF Path, PathTo
<1>5. DirPath = PathTo(Len(walk)) BY DEF DirPath, PathTo
<1> QED BY <1>2, <1>3, <1>4, <1>5

-----------------------------------------------------------------------------
(* Stamps and contents                                                       *)

\* No stamp is from later than now, and none noted or entered from later than
\* when the second pass began.
Clocked ==
    /\ \A i \in Inodes : stamp[i] <= clock
    /\ \A s \in snapshots \union directories : s[2][2] <= clock
    /\ pass = 2 =>
         /\ between.clock <= clock
         /\ \A s \in snapshots \union directories : s[2][2] <= between.clock
         /\ \A j \in 1 .. Len(walk) : Entered(j) => walk[j].before[2] <= between.clock

\* A file that has the stamp it was hashed with has the approved content.
Hashed ==
    \A s \in snapshots :
       /\ s[1] \in DOMAIN Members /\ s[2][1] \in FileInodes
       /\ stamp[s[2][1]] = s[2][2] => data[s[2][1]] = Members[s[1]]

\* What was read is the beginning of a file that still has the stamp it was looked
\* up with.
ReadSoFar ==
    /\ step = "open" => file.got = <<>>
    /\ pass = 1 /\ step \in {"read", "verify", "confirm"} /\ stamp[file.ino] = file.stamp =>
         /\ Len(file.got) <= Len(data[file.ino])
         /\ \A k \in 1 .. Len(file.got) : file.got[k] = data[file.ino][k]
         /\ step # "read" => Len(file.got) = Len(data[file.ino])

\* What has a stamp from before the second pass is as it was when that began.
Unmoved ==
    pass = 2 =>
      /\ \A d \in Dirs : stamp[d] <= between.clock => entry[d] = between.entry[d]
      /\ \A i \in FileInodes : stamp[i] <= between.clock => data[i] = between.data[i]

\* A verification begins without notes; its first pass keeps the stamps of the
\* directories it enters and confirms nothing.
Noting ==
    /\ step = "begin" => /\ walk = <<>> /\ pass = 1 /\ entries = 0
                         /\ snapshots = {} /\ directories = {} /\ identities = {}
    /\ pass = 1 => /\ finalNames = {}
                   /\ \A j \in 2 .. Len(walk) : Entered(j) => <<PathTo(j), walk[j].before>> \in directories

ReadinessInv ==
    ReadinessTypeOK /\ WalkFits /\ FileFits /\ Clocked /\ Hashed /\ ReadSoFar /\ Unmoved /\ Noting

LEMMA ContentsAreSeqs ==
    ASSUME ReadinessTypeOK
    PROVE  \A i \in FileInodes : /\ data[i] \in Seq(UNION {Range(c) : c \in Contents})
                                 /\ Len(data[i]) \in Nat
<1>1. ASSUME NEW i \in FileInodes PROVE data[i] \in Seq(UNION {Range(c) : c \in Contents})
  <2>1. PICK c \in Contents : c = data[i] BY DEF ReadinessTypeOK
  <2>2. c \in Seq(Range(c)) BY FileSystemAssumption
  <2>3. Range(c) \subseteq UNION {Range(d) : d \in Contents} OBVIOUS
  <2>4. c \in Seq(UNION {Range(d) : d \in Contents}) BY <2>2, <2>3, SeqMonotonic
  <2> QED BY <2>1, <2>4
<1> QED BY <1>1

\* The installer breaks none of it.
LEMMA InstallerKeeps ==
    ASSUME ReadinessInv, Installer
    PROVE  ReadinessInv'
<1> USE DEF ReadinessInv
<1>1. Installs /\ ReadinessTypeOK'
  BY InstallerInstalls DEF Installs, ReadinessTypeOK, noted
<1>2. /\ UNCHANGED <<step, pass, walk, file, between>> /\ UNCHANGED <<entries, directories, snapshots, identities, finalNames>>
      /\ clock' = clock + 1 /\ clock \in Nat
  BY <1>1, FileSystemAssumption DEF Installs, noted, ReadinessTypeOK
<1>3. \A i \in Inodes : /\ stamp[i] \in Nat /\ stamp'[i] \in Nat /\ stamp[i] <= stamp'[i]
                        /\ stamp'[i] <= clock'
                        /\ stamp'[i] <= clock => /\ stamp'[i] = stamp[i]
                                                 /\ i \in Dirs => entry'[i] = entry[i]
                                                 /\ i \in FileInodes => data'[i] = data[i]
  BY <1>1, <1>2, FileSystemAssumption DEF Installs, Clocked, ReadinessTypeOK
<1>4. WalkFits'
  <2>1. ASSUME NEW j \in 1 .. Len(walk) PROVE FrameFits(walk[j])'
    <3>1. walk[j] \in Frames BY TypedWalk
    <3>2. walk[j].dir \in Inodes /\ walk[j].before[2] \in Nat BY <3>1, FileSystemAssumption DEF Frames, Stamps, Inodes
    <3> QED BY <1>2, <1>3, <3>2 DEF WalkFits, FrameFits
  <2> QED BY <1>2, <2>1 DEF WalkFits, here
<1>5. FileFits'
  <2>1. ASSUME InHand PROVE file.ino \in Inodes /\ file.stamp \in Nat
    BY <2>1, FileSystemAssumption DEF FileFits, Inodes, ReadinessTypeOK
  <2> QED BY <1>2, <1>3, <2>1 DEF FileFits, InHand, Path, Looked
<1>6. Clocked'
  <2>1. \A s \in snapshots \union directories : s[2][2] \in Nat BY FileSystemAssumption DEF ReadinessTypeOK, Stamps
  <2>2. \A s \in snapshots \union directories : s[2][2] <= clock' BY <1>2, <2>1 DEF Clocked
  <2>3. pass = 2 => between.clock <= clock' BY <1>2, FileSystemAssumption DEF Clocked, ReadinessTypeOK
  <2> QED BY <1>2, <1>3, <2>2, <2>3 DEF Clocked, Entered
<1>7. Hashed'
  <2>1. ASSUME NEW s \in snapshots, stamp'[s[2][1]] = s[2][2] PROVE data'[s[2][1]] = Members[s[1]]
    <3>1. s[2][1] \in FileInodes /\ s[2][1] \in Inodes /\ s[2][2] <= clock BY DEF Hashed, Inodes, Clocked
    <3> QED BY <1>3, <2>1, <3>1 DEF Hashed
  <2> QED BY <1>2, <2>1 DEF Hashed
<1>8. ReadSoFar'
  <2>1. ASSUME step \in {"read", "verify", "confirm"}, stamp'[file.ino] = file.stamp
        PROVE  stamp[file.ino] = file.stamp /\ data'[file.ino] = data[file.ino]
    <3>1. file.ino \in FileInodes /\ file.ino \in Inodes /\ file.stamp <= stamp[file.ino]
      BY <2>1 DEF FileFits, InHand, Inodes
    <3>2. stamp[file.ino] <= clock /\ file.stamp \in Nat
      BY <3>1, FileSystemAssumption DEF Clocked, ReadinessTypeOK
    <3>3. stamp'[file.ino] <= clock BY <1>2, <1>3, <2>1, <3>1, <3>2
    <3> QED BY <1>3, <2>1, <3>1, <3>3
  <2> QED BY <1>2, <2>1 DEF ReadSoFar
<1>9. Unmoved'
  <2>1. ASSUME pass = 2, NEW i \in Inodes, stamp'[i] <= between.clock PROVE stamp'[i] <= clock
    BY <1>2, <1>3, <2>1, FileSystemAssumption DEF Clocked, ReadinessTypeOK
  <2>2. Dirs \subseteq Inodes /\ FileInodes \subseteq Inodes BY DEF Inodes
  <2> QED BY <1>2, <1>3, <2>1, <2>2 DEF Unmoved
<1>10. Noting' BY <1>2 DEF Noting, Entered, PathTo
<1> QED BY <1>1, <1>4, <1>5, <1>6, <1>7, <1>8, <1>9, <1>10

LEMMA StaysKeeps ==
    ASSUME ReadinessInv, Stays, answer' \in Answers \union {Nil}
    PROVE  ReadinessInv'
<1> USE DEF ReadinessInv
<1>1. /\ UNCHANGED <<entry, data, stamp, clock, step, pass, walk, file, between>>
      /\ UNCHANGED <<entries, directories, snapshots, identities, finalNames>>
  BY DEF Stays, fileSystem, noted
<1>2. ReadinessTypeOK' BY <1>1 DEF ReadinessTypeOK
<1>3. WalkFits' BY <1>1 DEF WalkFits, FrameFits, here
<1>4. FileFits' BY <1>1 DEF FileFits, InHand, Path, Looked
<1>5. Clocked' BY <1>1 DEF Clocked, Entered
<1>6. Hashed' BY <1>1 DEF Hashed
<1>7. ReadSoFar' BY <1>1 DEF ReadSoFar
<1>8. Unmoved' BY <1>1 DEF Unmoved
<1>9. Noting' BY <1>1 DEF Noting, Entered, PathTo
<1> QED BY <1>2, <1>3, <1>4, <1>5, <1>6, <1>7, <1>8, <1>9

LEMMA TypesKept ==
    ASSUME ReadinessInv, Proceeds, answer' \in Answers \union {Nil}
    PROVE  ReadinessTypeOK'
<1> USE DEF ReadinessInv
<1>1. walk' \in Seq(Frames) /\ (step' # "begin" => walk' # <<>>) BY WalkKept
<1>2. UNCHANGED <<entry, data, stamp, clock>>
  BY DEF Proceeds, Begin, LooksUp, OpensFile, StepsInto, Enters, List, ReadsOn, ReadsAll, Verifies, Confirms,
     Finishes, StepsOut, Turns, fileSystem
<1>3. step' \in Steps /\ pass' \in 1 .. 2
  BY DEF Proceeds, Begin, LooksUp, OpensFile, StepsInto, Enters, List, ReadsOn, ReadsAll, Verifies, Confirms,
     Finishes, StepsOut, Turns, Steps, ReadinessTypeOK
<1>4. step # "begin" => here \in Frames /\ here.dir \in Dirs /\ Len(walk) \in 1 .. Len(walk)
  BY TypedWalk DEF ReadinessTypeOK, Frames
<1>5. InHand => /\ file.name \in Names /\ Path(file.name) \in Seq(Names) /\ Looked \in Stamps
  <2>1. ASSUME InHand PROVE file.name \in Names /\ Len(walk) \in 1 .. Len(walk) /\ file.ino \in Inodes
    BY <2>1, <1>4 DEF FileFits, InHand, Inodes
  <2>2. ASSUME InHand PROVE Path(file.name) \in Seq(Names)
    <3>1. PathTo(Len(walk)) \in Seq(Names) /\ Path(file.name) = Append(PathTo(Len(walk)), file.name)
      BY <2>1, <2>2, PathsTyped
    <3> QED BY <2>1, <2>2, <3>1, AppendProperties
  <2>3. file.stamp \in 0 .. MaxChanges BY DEF ReadinessTypeOK
  <2> QED BY <2>1, <2>2, <2>3 DEF Looked, Stamps
<1> DEFINE Held == [name : Names \union {Nil}, ino : Entry, stamp : 0 .. MaxChanges,
                     got : Seq(UNION {Range(c) : c \in Contents})]
           Noted(s) == s[1] \in Seq(Names) /\ s[2] \in Stamps
<1>6. NoFile \in Held
  <2>1. <<>> \in Seq(UNION {Range(c) : c \in Contents}) BY EmptySeq
  <2> QED BY <2>1, FileSystemAssumption DEF NoFile, Entry
<1>7. file' \in Held
  <2>1. ASSUME NEW n \in Names, LooksUp(n) PROVE file' \in Held
    <3>1. entry[here.dir][n] # Nil /\ here.dir \in Dirs BY <1>4, <2>1 DEF LooksUp, Unacceptable
    <3>2. entry[here.dir][n] \in Entry /\ entry[here.dir][n] \in Inodes BY <3>1 DEF ReadinessTypeOK, Entry
    <3>3. stamp[entry[here.dir][n]] \in 0 .. MaxChanges BY <3>2 DEF ReadinessTypeOK
    <3>4. <<>> \in Seq(UNION {Range(c) : c \in Contents}) BY EmptySeq
    <3> QED BY <2>1, <3>2, <3>3, <3>4 DEF LooksUp
  <2>2. ASSUME ReadsOn PROVE file' \in Held
    <3>1. file.ino \in FileInodes /\ file \in Held BY <2>2 DEF ReadsOn, FileFits, InHand, ReadinessTypeOK
    <3>2. /\ data[file.ino] \in Seq(UNION {Range(c) : c \in Contents})
          /\ Len(file.got) \in Nat /\ Len(data[file.ino]) \in Nat
      BY <3>1, ContentsAreSeqs
    <3>3. Len(file.got) + 1 \in 1 .. Len(data[file.ino]) BY <2>2, <3>2 DEF ReadsOn
    <3>4. data[file.ino][Len(file.got) + 1] \in UNION {Range(c) : c \in Contents} BY <3>2, <3>3, ElementOfSeq
    <3>5. Append(file.got, data[file.ino][Len(file.got) + 1]) \in Seq(UNION {Range(c) : c \in Contents})
      BY <3>1, <3>4, AppendProperties
    <3>6. file' = [file EXCEPT !.got = Append(file.got, data[file.ino][Len(file.got) + 1])]
      BY <2>2 DEF ReadsOn
    <3> QED BY <3>1, <3>5, <3>6
  <2>3. StepsInto \/ Confirms => file' \in Held BY <1>6 DEF StepsInto, Confirms
  <2>4. file' = file => file' \in Held BY DEF ReadinessTypeOK
  <2>5. file' = file \/ (\E n \in Names : LooksUp(n)) \/ ReadsOn \/ StepsInto \/ Confirms
    BY DEF Proceeds, Begin, OpensFile, Enters, List, ReadsAll, Verifies, Finishes, StepsOut, Turns
  <2> QED BY <2>1, <2>2, <2>3, <2>4, <2>5
<1>8. entries' \in 0 .. MaxEntries
  <2>1. ASSUME NEW n \in Names, LooksUp(n) PROVE entries' \in 0 .. MaxEntries
    BY <2>1, FileSystemAssumption DEF LooksUp, TooMany, ReadinessTypeOK
  <2>2. entries' = entries \/ entries' = 0 \/ \E n \in Names : LooksUp(n)
    BY DEF Proceeds, Begin, OpensFile, StepsInto, Enters, List, ReadsOn, ReadsAll, Verifies, Confirms,
       Finishes, StepsOut, Turns, noted
  <2> QED BY <2>1, <2>2, FileSystemAssumption DEF ReadinessTypeOK
<1>9. directories' = directories \/ (Enters /\ directories' = directories \union {<<DirPath, StampOf(here.dir)>>})
  BY DEF Proceeds, Begin, LooksUp, OpensFile, StepsInto, Enters, List, ReadsOn, ReadsAll, Verifies, Confirms,
       Finishes, StepsOut, Turns, noted
<1>10. \/ UNCHANGED <<snapshots, identities, finalNames>>
       \/ UNCHANGED <<snapshots, finalNames>> /\ identities' = {}
       \/ Confirms
  BY DEF Proceeds, Begin, LooksUp, OpensFile, StepsInto, Enters, List, ReadsOn, ReadsAll, Verifies,
       Finishes, StepsOut, Turns, noted
<1>11. \A s \in directories' : Noted(s)
  <2>1. ASSUME Enters PROVE DirPath \in Seq(Names) /\ StampOf(here.dir) \in Stamps
    <3>1. here.dir \in Dirs /\ Len(walk) \in 1 .. Len(walk) BY <1>4, <2>1 DEF Enters
    <3> QED BY <3>1, PathsTyped DEF StampOf, Stamps, Inodes, ReadinessTypeOK
  <2> QED BY <1>9, <2>1 DEF ReadinessTypeOK
<1>12. \A s \in snapshots' : Noted(s)
  <2>1. ASSUME Confirms PROVE \A s \in snapshots' : Noted(s)
    BY <1>5, <2>1 DEF Confirms, InHand, ReadinessTypeOK
  <2> QED BY <1>10, <2>1 DEF ReadinessTypeOK
<1>13. identities' \subseteq FileInodes /\ finalNames' \subseteq DOMAIN Members
  <2>1. ASSUME Confirms PROVE identities' \subseteq FileInodes /\ finalNames' \subseteq DOMAIN Members
    BY <2>1 DEF Confirms, InHand, FileFits, ReadinessTypeOK
  <2> QED BY <1>10, <2>1 DEF ReadinessTypeOK
<1>14. pass' = 2 => between' \in [entry : [Dirs -> [Names -> Entry]], data : [FileInodes -> Contents],
                                  clock : 0 .. MaxChanges]
  <2>1. Turns \/ UNCHANGED <<pass, between>>
    BY DEF Proceeds, Begin, LooksUp, OpensFile, StepsInto, Enters, List, ReadsOn, ReadsAll, Verifies, Confirms,
       Finishes, StepsOut
  <2> QED BY <2>1 DEF Turns, ReadinessTypeOK
<1> QED
  BY <1>1, <1>2, <1>3, <1>7, <1>8, <1>11, <1>12, <1>13, <1>14 DEF ReadinessTypeOK, Frames

LEMMA FileKept ==
    ASSUME ReadinessInv, Proceeds
    PROVE  FileFits'
<1> USE DEF ReadinessInv
<1>1. ASSUME UNCHANGED <<stamp, pass, walk, identities, snapshots>>, InHand, InHand',
             file'.name = file.name, file'.ino = file.ino, file'.stamp = file.stamp,
             step' # "open" => file.ino \in FileInodes,
             pass = 2 /\ step' # "open" => step' = "confirm" /\ <<Path(file.name), Looked>> \in snapshots
      PROVE  FileFits'
  BY <1>1 DEF FileFits, Path, Looked
<1>2. ASSUME NEW n \in Names, LooksUp(n) PROVE FileFits'
  <2> DEFINE i == entry[here.dir][n]
  <2>1. /\ file'.name = n /\ file'.ino = i /\ file'.stamp = stamp[i] /\ step = "entry" /\ step' = "open"
        /\ UNCHANGED <<stamp, identities>> /\ n \in here.todo /\ ~ Unacceptable(n, i)
    BY <1>2 DEF LooksUp, fileSystem
  <2>2. walk # <<>> /\ here \in Frames /\ Len(walk) \in 1 .. Len(walk)
    BY <2>1, TypedWalk DEF ReadinessTypeOK
  <2>3. here.dir \in Dirs /\ i \in Inodes BY <2>1, <2>2 DEF Frames, Unacceptable, ReadinessTypeOK, Entry
  <2>4. i \in Dirs \union FileInodes BY <2>1, <2>3 DEF Unacceptable, Inodes
  <2>5. stamp[i] <= stamp[i] BY <2>3, FileSystemAssumption DEF ReadinessTypeOK
  <2>6. Len(walk) = 1 => n \in PackageRoots
    <3>1. ASSUME Len(walk) = 1 PROVE here = walk[1] BY <3>1 DEF here
    <3> QED BY <2>1, <3>1 DEF WalkFits
  <2>7. SameWay BY <1>2, WayKept
  <2>8. Len(walk') = Len(walk) /\ Path(n)' = Path(n)
    <3>1. \A j \in 1 .. Len(walk) : PathTo(j)' = PathTo(j) BY <2>2, <2>7, PathsKept DEF SameWay
    <3>2. Len(walk') = Len(walk) BY <2>7 DEF SameWay
    <3> QED BY <2>2, <3>1, <3>2 DEF Path, PathTo
  <2>9. i \in FileInodes => Len(walk) > 1 /\ Path(n) \in DOMAIN Members /\ i \notin identities
    <3>1. ASSUME i \in FileInodes PROVE Len(walk) # 1
      BY <2>1, <3>1, FileSystemAssumption DEF Unacceptable
    <3>2. i \in FileInodes => Path(n) \in DOMAIN Members /\ i \notin identities
      BY <2>1 DEF Unacceptable
    <3>3. Len(walk) = 1 \/ Len(walk) > 1
      <4>1. Len(walk) \in Nat \ {0} BY <2>2, TypedWalk, EmptySeq
      <4>2. \A l \in Nat \ {0} : l = 1 \/ l > 1 OBVIOUS
      <4> QED BY <4>1, <4>2
    <3> QED BY <3>1, <3>2, <3>3
  <2> QED BY <2>1, <2>4, <2>5, <2>6, <2>8, <2>9 DEF FileFits, Path
<1>3. CASE OpensFile
  <2>1. /\ UNCHANGED <<stamp, pass, walk, identities, snapshots, file>> /\ InHand /\ InHand' /\ file.ino \in FileInodes
        /\ step' = IF pass = 1 THEN "read" ELSE "confirm"
    BY <1>3 DEF OpensFile, InHand, noted, fileSystem
  <2>2. pass = 2 => step' = "confirm" /\ <<Path(file.name), Looked>> \in snapshots
    BY <1>3, <2>1 DEF OpensFile, Disagrees
  <2> QED BY <1>1, <2>1, <2>2
<1>4. CASE ReadsOn \/ ReadsAll \/ Verifies
  <2>1. /\ UNCHANGED <<stamp, pass, walk, identities, snapshots>> /\ InHand /\ InHand' /\ step # "open"
        /\ step # "confirm" /\ step' # "open"
    BY <1>4 DEF ReadsOn, ReadsAll, Verifies, InHand, noted, fileSystem
  <2>2. file.ino \in FileInodes /\ pass # 2 BY <2>1 DEF FileFits
  <2>3. file'.name = file.name /\ file'.ino = file.ino /\ file'.stamp = file.stamp
    BY <1>4 DEF ReadsOn, ReadsAll, Verifies, ReadinessTypeOK
  <2> QED BY <1>1, <2>1, <2>2, <2>3
<1>5. ASSUME ~ InHand' PROVE FileFits' BY <1>5 DEF FileFits
<1>6. ASSUME Begin \/ StepsInto \/ Enters \/ List \/ Confirms \/ Finishes \/ StepsOut \/ Turns PROVE ~ InHand'
  BY <1>6 DEF Begin, StepsInto, Enters, List, Confirms, Finishes, StepsOut, Turns, AtEnd, InHand
<1> QED BY <1>2, <1>3, <1>4, <1>5, <1>6 DEF Proceeds

LEMMA ClockedKept ==
    ASSUME ReadinessInv, Proceeds
    PROVE  Clocked'
<1> USE DEF ReadinessInv
<1>1. UNCHANGED <<stamp, clock>>
  BY DEF Proceeds, Begin, LooksUp, OpensFile, StepsInto, Enters, List, ReadsOn, ReadsAll, Verifies, Confirms,
     Finishes, StepsOut, Turns, fileSystem
<1>2. \A i \in Inodes : stamp[i] <= clock BY DEF Clocked
<1>3. step # "begin" => here.dir \in Inodes /\ Len(walk) \in 1 .. Len(walk)
  BY TypedWalk DEF ReadinessTypeOK, Frames, Inodes
<1> DEFINE Old(s, b) == s[2][2] <= clock /\ (pass = 2 => s[2][2] <= b)
<1>4. \A s \in snapshots \union directories : Old(s, between.clock) BY DEF Clocked
<1>5. CASE Begin
  <2>1. snapshots' = {} /\ directories' = {} /\ pass' = 1
    BY <1>5 DEF Begin, Noting, noted
  <2> QED BY <1>1, <1>2, <2>1 DEF Clocked
<1>6. CASE Turns
  <2>1. /\ pass = 1 /\ between'.clock = clock /\ UNCHANGED <<snapshots, directories>> /\ Len(walk) = 1
        /\ step # "begin" /\ step' = step
    BY <1>6 DEF Turns, AtEnd
  <2>2. Len(walk') = 1 /\ walk'[1].before = walk[1].before
    BY <1>6, <2>1, WayKept DEF SameWay, SameBefore
  <2>3. walk[1].before[2] <= clock
    <3>1. walk[1] \in Frames /\ FrameFits(walk[1]) BY <2>1, TypedWalk DEF WalkFits
    <3>2. walk[1].dir \in Inodes /\ walk[1].before[2] \in Nat BY <3>1, FileSystemAssumption DEF Frames, Stamps, Inodes
    <3> QED BY <1>2, <3>1, <3>2, FileSystemAssumption DEF FrameFits, ReadinessTypeOK
  <2>4. clock <= clock BY FileSystemAssumption DEF ReadinessTypeOK
  <2> QED BY <1>1, <1>2, <1>4, <2>1, <2>2, <2>3, <2>4 DEF Clocked
<1>7. ASSUME ~ Begin, ~ Turns PROVE Clocked'
  <2>1. UNCHANGED <<pass, between>>
    BY <1>7 DEF Proceeds, LooksUp, OpensFile, StepsInto, Enters, List, ReadsOn, ReadsAll, Verifies, Confirms,
     Finishes, StepsOut
  <2>2. \A s \in snapshots' \union directories' : Old(s, between.clock)
    <3>1. CASE UNCHANGED <<snapshots, directories>> BY <1>4, <3>1
    <3>2. CASE Enters
      <4>1. /\ UNCHANGED snapshots /\ (pass # 1 => directories' = directories)
            /\ pass = 1 => directories' = directories \union {<<DirPath, StampOf(here.dir)>>}
            /\ step # "begin"
        BY <3>2 DEF Enters
      <4>2. stamp[here.dir] <= clock BY <1>2, <1>3, <4>1
      <4> QED BY <1>4, <4>1, <4>2 DEF StampOf
    <3>3. CASE Confirms
      <4>1. /\ UNCHANGED directories /\ (pass # 1 => snapshots' = snapshots)
            /\ pass = 1 => snapshots' = snapshots \union {<<Path(file.name), Looked>>}
            /\ stamp[file.ino] = file.stamp /\ file.ino \in Inodes
        BY <3>3 DEF Confirms, FileFits, InHand, Inodes
      <4>2. file.stamp <= clock BY <1>2, <4>1
      <4> QED BY <1>4, <4>1, <4>2 DEF Looked
    <3> QED
      BY <1>7, <3>1, <3>2, <3>3 DEF Proceeds, LooksUp, OpensFile, StepsInto, List, ReadsOn, ReadsAll, Verifies,
         Finishes, StepsOut, noted
  <2>3. ASSUME pass = 2, NEW j \in 1 .. Len(walk'), Entered(j)'
        PROVE  walk'[j].before[2] <= between.clock
    <3>1. Len(walk) \in Nat /\ \A k \in 1 .. Len(walk) : Entered(k) => walk[k].before[2] <= between.clock
      BY <2>3, TypedWalk DEF Clocked
    <3>2. ASSUME SameWay, SameBefore, step' # "enter" \/ step = "enter", step # "enter" \/ step' = "enter"
          PROVE walk'[j].before[2] <= between.clock
      BY <2>3, <3>1, <3>2 DEF SameWay, SameBefore, Entered
    <3>3. CASE Enters
      <4>1. /\ Len(walk') = Len(walk) /\ walk'[j].before = IF j = Len(walk) THEN StampOf(here.dir) ELSE walk[j].before
        BY <2>3, <3>3, WayKept DEF SameWay
      <4>2. <<DirPath, StampOf(here.dir)>> \in directories BY <2>3, <3>3 DEF Enters
      <4>3. <<DirPath, StampOf(here.dir)>>[2][2] <= between.clock BY <2>3, <4>2 DEF Clocked
      <4>4. StampOf(here.dir)[2] <= between.clock BY <4>3
      <4> QED BY <2>3, <3>1, <4>1, <4>4 DEF Entered
    <3>4. CASE StepsInto
      <4>1. /\ Len(walk') = Len(walk) + 1 /\ \A k \in 1 .. Len(walk) : walk'[k] = walk[k]
            /\ step = "open" /\ step' = "enter"
        BY <3>4, WayLonger DEF StepsInto
      <4>2. j \in 1 .. Len(walk) BY <2>3, <3>1, <4>1 DEF Entered
      <4> QED BY <3>1, <4>1, <4>2 DEF Entered
    <3>5. CASE StepsOut
      <4>1. Len(walk') = Len(walk) - 1 /\ \A k \in 1 .. Len(walk) - 1 : walk'[k] = walk[k]
        BY <3>5, WayShorter
      <4> QED BY <2>3, <3>1, <4>1 DEF Entered
    <3>6. ASSUME NEW n \in Names, LooksUp(n) PROVE walk'[j].before[2] <= between.clock
      <4>1. SameWay /\ SameBefore /\ step = "entry" /\ step' = "open" BY <3>6, WayKept DEF LooksUp
      <4> QED BY <3>2, <4>1
    <3>7. CASE List
      <4>1. SameWay /\ SameBefore /\ step = "list" /\ step' = "entry" BY <3>7, WayKept DEF List
      <4> QED BY <3>2, <4>1
    <3>8. CASE OpensFile \/ ReadsOn \/ ReadsAll \/ Verifies \/ Confirms \/ Finishes
      <4>1. walk' = walk /\ step # "enter" /\ step' # "enter"
        BY <3>8 DEF OpensFile, ReadsOn, ReadsAll, Verifies, Confirms, Finishes
      <4>2. SameWay /\ SameBefore BY <4>1, WayKept
      <4> QED BY <3>2, <4>1, <4>2
    <3> QED BY <1>7, <3>3, <3>4, <3>5, <3>6, <3>7, <3>8 DEF Proceeds
  <2> HIDE DEF Old
  <2>4. \A s \in (snapshots \union directories)' : Old(s, between.clock) BY <2>2
  <2>5. \A s \in (snapshots \union directories)' : s[2][2] <= clock /\ (pass = 2 => s[2][2] <= between.clock)
    BY <2>4 DEF Old
  <2>6. pass = 2 => between.clock <= clock BY DEF Clocked
  <2> QED BY <1>1, <1>2, <2>1, <2>3, <2>5, <2>6 DEF Clocked
<1> QED BY <1>5, <1>6, <1>7

LEMMA HashedKept ==
    ASSUME ReadinessInv, Proceeds
    PROVE  Hashed'
<1> USE DEF ReadinessInv
<1>1. UNCHANGED <<stamp, data>>
  BY DEF Proceeds, Begin, LooksUp, OpensFile, StepsInto, Enters, List, ReadsOn, ReadsAll, Verifies, Confirms,
     Finishes, StepsOut, Turns, fileSystem
<1>2. CASE Confirms /\ pass = 1
  <2>1. /\ file.ino \in FileInodes /\ Path(file.name) \in DOMAIN Members /\ stamp[file.ino] = file.stamp
        /\ file.got = Members[Path(file.name)]
        /\ snapshots' = snapshots \union {<<Path(file.name), Looked>>}
    BY <1>2 DEF Confirms, FileFits, InHand
  <2>2. data[file.ino] = file.got
    <3> DEFINE S == UNION {Range(c) : c \in Contents}
    <3>1. data[file.ino] \in Seq(S) BY <2>1, ContentsAreSeqs
    <3>2. file.got \in Seq(S) BY DEF ReadinessTypeOK
    <3>3. Len(file.got) = Len(data[file.ino]) /\ \A k \in 1 .. Len(file.got) : file.got[k] = data[file.ino][k]
      BY <1>2, <2>1 DEF ReadSoFar, Confirms
    <3> QED BY <3>1, <3>2, <3>3, SeqEqual
  <2> QED BY <1>1, <2>1, <2>2 DEF Hashed, Looked
<1>3. CASE UNCHANGED snapshots BY <1>1, <1>3 DEF Hashed
<1>4. UNCHANGED snapshots \/ (Confirms /\ pass = 1)
  BY DEF Proceeds, Begin, LooksUp, OpensFile, StepsInto, Enters, List, ReadsOn, ReadsAll, Verifies, Confirms,
     Finishes, StepsOut, Turns, noted, ReadinessTypeOK
<1> QED BY <1>2, <1>3, <1>4

LEMMA ReadKept ==
    ASSUME ReadinessInv, Proceeds
    PROVE  ReadSoFar'
<1> USE DEF ReadinessInv
<1>1. UNCHANGED <<stamp, data>>
  BY DEF Proceeds, Begin, LooksUp, OpensFile, StepsInto, Enters, List, ReadsOn, ReadsAll, Verifies, Confirms,
     Finishes, StepsOut, Turns, fileSystem
<1>2. InHand /\ step # "open" => file.ino \in FileInodes /\ Len(data[file.ino]) \in Nat
  BY ContentsAreSeqs DEF FileFits
<1>3. Len(file.got) \in Nat BY DEF ReadinessTypeOK
<1>4. CASE OpensFile
  <2>1. file'.got = <<>> /\ file' = file /\ step' # "open" /\ file.ino \in FileInodes
        /\ step' = (IF pass = 1 THEN "read" ELSE "confirm") /\ pass' = pass
    BY <1>4 DEF OpensFile, ReadSoFar
  <2>2. Len(data[file.ino]) \in Nat BY <2>1, ContentsAreSeqs
  <2>3. Len(file'.got) = 0 BY <2>1
  <2>4. pass' = 1 => step' = "read" BY <2>1
  <2> QED BY <1>1, <2>1, <2>2, <2>3, <2>4 DEF ReadSoFar
<1>5. CASE ReadsOn
  <2> DEFINE c == data[file.ino]
             S == UNION {Range(d) : d \in Contents}
  <2>1. /\ step = "read" /\ step' = step /\ pass' = pass /\ Len(file.got) < Len(c)
        /\ file' = [file EXCEPT !.got = Append(file.got, c[Len(file.got) + 1])]
    BY <1>5 DEF ReadsOn
  <2>2. file.got \in Seq(S) /\ c \in Seq(S) /\ Len(c) \in Nat
    BY <1>2, <2>1, ContentsAreSeqs DEF InHand, ReadinessTypeOK
  <2>3. file'.got = Append(file.got, c[Len(file.got) + 1]) /\ file'.ino = file.ino /\ file'.stamp = file.stamp
    BY <2>1 DEF ReadinessTypeOK
  <2>4. c[Len(file.got) + 1] \in S BY <1>3, <2>1, <2>2, ElementOfSeq
  <2>5. /\ Len(file'.got) = Len(file.got) + 1 /\ file'.got[Len(file.got) + 1] = c[Len(file.got) + 1]
        /\ \A k \in 1 .. Len(file.got) : file'.got[k] = file.got[k]
    BY <2>2, <2>3, <2>4, AppendProperties
  <2>6. ASSUME pass = 1, stamp[file.ino] = file.stamp
        PROVE  Len(file'.got) <= Len(c) /\ \A k \in 1 .. Len(file'.got) : file'.got[k] = c[k]
    <3>1. \A k \in 1 .. Len(file.got) : file.got[k] = c[k] BY <2>1, <2>6 DEF ReadSoFar
    <3> HIDE DEF c
    <3> QED BY <1>3, <2>1, <2>2, <2>5, <3>1
  <2> QED BY <1>1, <2>1, <2>3, <2>6 DEF ReadSoFar
<1>6. CASE ReadsAll
  <2>1. step = "read" /\ step' = "verify" /\ UNCHANGED <<pass, file>> /\ ~ (Len(file.got) < Len(data[file.ino]))
    BY <1>6 DEF ReadsAll
  <2>2. Len(data[file.ino]) \in Nat BY <1>2, <2>1 DEF InHand
  <2>3. Len(file.got) <= Len(data[file.ino]) => Len(file.got) = Len(data[file.ino]) BY <1>3, <2>1, <2>2
  <2> QED BY <1>1, <2>1, <2>3 DEF ReadSoFar
<1>7. CASE Verifies BY <1>1, <1>7 DEF Verifies, ReadSoFar
<1>8. ASSUME NEW n \in Names, LooksUp(n) PROVE ReadSoFar' BY <1>8 DEF LooksUp, ReadSoFar
<1>9. ASSUME ~ InHand' PROVE ReadSoFar' BY <1>9 DEF ReadSoFar, InHand
<1>10. ASSUME Begin \/ StepsInto \/ Enters \/ List \/ Confirms \/ Finishes \/ StepsOut \/ Turns PROVE ~ InHand'
  BY <1>10 DEF Begin, StepsInto, Enters, List, Confirms, Finishes, StepsOut, Turns, AtEnd, InHand
<1> QED BY <1>4, <1>5, <1>6, <1>7, <1>8, <1>9, <1>10 DEF Proceeds

LEMMA UnmovedKept ==
    ASSUME ReadinessInv, Proceeds
    PROVE  Unmoved'
<1>1. UNCHANGED <<entry, stamp, data>>
  BY DEF Proceeds, Begin, LooksUp, OpensFile, StepsInto, Enters, List, ReadsOn, ReadsAll, Verifies, Confirms,
     Finishes, StepsOut, Turns, fileSystem
<1>2. Turns \/ UNCHANGED <<pass, between>>
  BY DEF Proceeds, Begin, LooksUp, OpensFile, StepsInto, Enters, List, ReadsOn, ReadsAll, Verifies, Confirms,
     Finishes, StepsOut
<1> QED BY <1>1, <1>2 DEF ReadinessInv, Unmoved, Turns

LEMMA NotingKept ==
    ASSUME ReadinessInv, Proceeds
    PROVE  Noting'
<1> USE DEF ReadinessInv
<1>1. step' # "begin"
  BY DEF Proceeds, Begin, LooksUp, OpensFile, StepsInto, Enters, List, ReadsOn, ReadsAll, Verifies, Confirms,
     Finishes, StepsOut, Turns, AtEnd
<1>2. pass' = 1 => pass = 1 /\ (finalNames' = finalNames)
  BY DEF Proceeds, Begin, LooksUp, OpensFile, StepsInto, Enters, List, ReadsOn, ReadsAll, Verifies, Confirms,
     Finishes, StepsOut, Turns, noted
<1>3. directories \subseteq directories'
  BY DEF Proceeds, Begin, LooksUp, OpensFile, StepsInto, Enters, List, ReadsOn, ReadsAll, Verifies, Confirms,
     Finishes, StepsOut, Turns, noted
<1>4. ASSUME pass' = 1, NEW j \in 2 .. Len(walk'), Entered(j)'
      PROVE  <<PathTo(j)', walk'[j].before>> \in directories'
  <2>1. Len(walk) \in Nat /\ \A k \in 2 .. Len(walk) : Entered(k) => <<PathTo(k), walk[k].before>> \in directories
    BY <1>2, <1>4, TypedWalk DEF Noting
  <2>2. ASSUME SameWay PROVE Len(walk') = Len(walk) /\ \A k \in 1 .. Len(walk) : PathTo(k)' = PathTo(k)
    BY <2>1, <2>2, PathsKept DEF SameWay
  <2>3. ASSUME SameWay, SameBefore, step # "enter", step' # "enter"
        PROVE  <<PathTo(j)', walk'[j].before>> \in directories'
    <3>1. Len(walk') = Len(walk) /\ PathTo(j)' = PathTo(j) BY <1>4, <2>1, <2>2, <2>3
    <3>2. walk'[j].before = walk[j].before BY <1>4, <2>1, <2>3, <3>1 DEF SameBefore
    <3> QED BY <1>3, <1>4, <2>1, <2>3, <3>1, <3>2 DEF Entered
  <2>4. CASE Enters
    <3>1. Len(walk') = Len(walk) /\ PathTo(j)' = PathTo(j) BY <1>4, <2>1, <2>2, <2>4, WayKept
    <3>2. walk'[j].before = IF j = Len(walk) THEN StampOf(here.dir) ELSE walk[j].before
      BY <1>4, <2>1, <2>4, <3>1, WayKept
    <3>3. directories' = directories \union {<<DirPath, StampOf(here.dir)>>}
      BY <1>2, <1>4, <2>4 DEF Enters
    <3>4. DirPath = PathTo(Len(walk)) BY PathsTyped
    <3> QED BY <1>4, <2>1, <3>1, <3>2, <3>3, <3>4 DEF Entered
  <2>5. CASE StepsInto
    <3>1. /\ Len(walk') = Len(walk) + 1 /\ \A k \in 1 .. Len(walk) : walk'[k] = walk[k]
          /\ step = "open" /\ step' = "enter"
      BY <2>5, WayLonger DEF StepsInto
    <3>2. j \in 1 .. Len(walk) BY <1>4, <2>1, <3>1 DEF Entered
    <3>3. PathTo(j)' = PathTo(j) BY <2>1, <3>1, <3>2, PathsKept
    <3> QED BY <1>3, <1>4, <2>1, <3>1, <3>2, <3>3 DEF Entered
  <2>6. CASE StepsOut
    <3>1. Len(walk) >= 2 /\ Len(walk') = Len(walk) - 1 /\ \A k \in 1 .. Len(walk) - 1 : walk'[k] = walk[k]
      BY <2>6, WayShorter
    <3>2. j \in 1 .. Len(walk) - 1 /\ Len(walk) - 1 \in Nat BY <1>4, <2>1, <3>1
    <3>3. PathTo(j)' = PathTo(j) BY <3>1, <3>2, PathsKept
    <3> QED BY <1>3, <1>4, <2>1, <3>1, <3>2, <3>3 DEF Entered
  <2>7. CASE Begin
    <3>1. Len(walk') = 1 BY <2>7 DEF Begin
    <3> QED BY <1>4, <3>1
  <2>8. ASSUME NEW n \in Names, LooksUp(n) PROVE <<PathTo(j)', walk'[j].before>> \in directories'
    <3>1. SameWay /\ SameBefore /\ step = "entry" /\ step' = "open" BY <2>8, WayKept DEF LooksUp
    <3> QED BY <2>3, <3>1
  <2>9. CASE List
    <3>1. SameWay /\ SameBefore /\ step = "list" /\ step' = "entry" BY <2>9, WayKept DEF List
    <3> QED BY <2>3, <3>1
  <2>10. CASE OpensFile \/ ReadsOn \/ ReadsAll \/ Verifies \/ Confirms \/ Finishes
    <3>1. walk' = walk /\ step # "enter" /\ step' # "enter"
      BY <2>10 DEF OpensFile, ReadsOn, ReadsAll, Verifies, Confirms, Finishes
    <3>2. SameWay /\ SameBefore BY <3>1, WayKept
    <3> QED BY <2>3, <3>1, <3>2
  <2>11. ~ Turns BY <1>4 DEF Turns
  <2> QED BY <2>4, <2>5, <2>6, <2>7, <2>8, <2>9, <2>10, <2>11 DEF Proceeds
<1> QED BY <1>1, <1>2, <1>4 DEF Noting

LEMMA ReadinessStarts ==
    ASSUME ReadinessInit
    PROVE  ReadinessInv
<1>1. PICK installation \in Installations : entry = installation.entry /\ data = installation.data
  BY DEF ReadinessInit
<1>2. entry \in [Dirs -> [Names -> Entry]] /\ data \in [FileInodes -> Contents]
  BY <1>1, FileSystemAssumption
<1>3. /\ stamp = [i \in Inodes |-> 0] /\ clock = 0 /\ step = "begin" /\ pass = 1 /\ walk = <<>>
      /\ file = NoFile /\ entries = 0 /\ directories = {} /\ snapshots = {} /\ identities = {}
      /\ finalNames = {} /\ answer = Nil
  BY DEF ReadinessInit
<1>4. <<>> \in Seq(UNION {Range(c) : c \in Contents}) /\ Len(walk) = 0 BY <1>3, EmptySeq
<1>5. /\ walk \in Seq([dir : Dirs, name : Names \union {Nil}, opened : Stamps, before : Stamps,
                   todo : SUBSET Names])
  BY <1>3, EmptySeq
<1>6. file \in [name : Names \union {Nil}, ino : Entry, stamp : 0..MaxChanges,
               got : Seq(UNION {Range(c) : c \in Contents})]
  BY <1>3, <1>4, FileSystemAssumption DEF NoFile, Entry
<1>7. ReadinessTypeOK
  BY <1>2, <1>3, <1>5, <1>6, FileSystemAssumption DEF ReadinessTypeOK, Steps
<1>8. WalkFits BY <1>3, <1>4, FileSystemAssumption DEF WalkFits
<1>9. FileFits /\ Hashed /\ ReadSoFar /\ Unmoved BY <1>3 DEF FileFits, InHand, Hashed, ReadSoFar, Unmoved
<1>10. Clocked BY <1>3 DEF Clocked
<1>11. Noting BY <1>3, <1>4 DEF Noting
<1> QED BY <1>7, <1>8, <1>9, <1>10, <1>11 DEF ReadinessInv

LEMMA AnswerTyped ==
    ASSUME ReadinessTypeOK, [ReadinessNext]_readinessVars
    PROVE  answer' \in Answers \union {Nil}
<1>1. ASSUME NEW how \in Answers, Conclude(how) PROVE answer' \in Answers BY <1>1 DEF Conclude
<1>2. ASSUME UNCHANGED answer PROVE answer' \in Answers \union {Nil} BY <1>2 DEF ReadinessTypeOK
<1>3. {"ready", "mismatch", "over_limit", "unavailable"} = Answers BY DEF Answers
<1>4. Installer => UNCHANGED answer BY DEF Installer, Rewrite, Bind, Touch
<1>5. GiveUp => answer' \in Answers BY <1>1, <1>3 DEF GiveUp
<1>6. ASSUME NEW n, Look(n) PROVE answer' \in Answers \/ UNCHANGED answer
  BY <1>1, <1>3, <1>6 DEF Look
<1>7. Open => answer' \in Answers \/ UNCHANGED answer BY <1>1, <1>3 DEF Open
<1>8. Enter => answer' \in Answers \/ UNCHANGED answer BY <1>1, <1>3 DEF Enter
<1>9. Read \/ Verify => answer' \in Answers \/ UNCHANGED answer BY <1>1, <1>3 DEF Read, Verify
<1>10. Confirm => answer' \in Answers \/ UNCHANGED answer BY <1>1, <1>3 DEF Confirm
<1>11. Finish \/ Leave => answer' \in Answers \/ UNCHANGED answer BY <1>1, <1>3 DEF Finish, Leave
<1>12. Turn \/ Close => answer' \in Answers \/ UNCHANGED answer BY <1>1, <1>3 DEF Turn, Close
<1>13. Begin \/ List \/ Answered \/ UNCHANGED readinessVars => UNCHANGED answer
  BY DEF Begin, List, Answered, readinessVars
<1> QED
  BY <1>2, <1>4, <1>5, <1>6, <1>7, <1>8, <1>9, <1>10, <1>11, <1>12, <1>13 DEF ReadinessNext, Verifier

LEMMA ReadinessStep ==
    ASSUME ReadinessInv, [ReadinessNext]_readinessVars
    PROVE  ReadinessInv'
<1>1. answer' \in Answers \union {Nil} BY AnswerTyped DEF ReadinessInv
<1>2. Installer \/ Stays \/ Proceeds BY EveryStep DEF ReadinessInv, FileFits
<1>3. CASE Installer BY <1>3, InstallerKeeps
<1>4. CASE Stays BY <1>1, <1>4, StaysKeeps
<1>5. CASE Proceeds
  <2>1. ReadinessTypeOK' BY <1>1, <1>5, TypesKept
  <2>2. WalkFits' BY <1>5, WalkKept DEF ReadinessInv
  <2>3. FileFits' /\ Clocked' BY <1>5, FileKept, ClockedKept
  <2>4. Hashed' /\ ReadSoFar' BY <1>5, HashedKept, ReadKept
  <2>5. Unmoved' /\ Noting' BY <1>5, UnmovedKept, NotingKept
  <2> QED BY <2>1, <2>2, <2>3, <2>4, <2>5 DEF ReadinessInv
<1> QED BY <1>2, <1>3, <1>4, <1>5

\* The invariant holds of every reachable state.
THEOREM ReadinessInvariant == ReadinessSpec => []ReadinessInv
<1>1. ReadinessInit => ReadinessInv BY ReadinessStarts
<1>2. ReadinessInv /\ [ReadinessNext]_readinessVars => ReadinessInv' BY ReadinessStep
<1> QED BY <1>1, <1>2, PTL DEF ReadinessSpec

-----------------------------------------------------------------------------
(* What a pass has covered                                                   *)

\* The installation a pass is about: in the second, what it was when that began.
RefTree == IF pass = 2 THEN between.entry ELSE entry
RefData == IF pass = 2 THEN between.data ELSE data
Settled == IF pass = 2 THEN finalNames ELSE {s[1] : s \in snapshots}

\* Nothing has changed at all, or, in the second pass, no directory that is open.
Intact == \A j \in 1 .. Len(walk) : Entered(j) => stamp[walk[j].dir] = walk[j].before[2]
Sure   == clock = 0 \/ (pass = 2 /\ Intact)

\* The names in the directory of frame j, the one being dealt with, and those
\* that are done.
Listing(j) == IF j = 1 THEN PackageRoots ELSE Bound(RefTree, walk[j].dir)
Busy(j)    == IF j < Len(walk) THEN {walk[j + 1].name} ELSE IF InHand THEN {file.name} ELSE {}
Handled(j) == IF j = Len(walk) /\ step \in {"enter", "list"} THEN {}
              ELSE Listing(j) \ (walk[j].todo \union Busy(j))
Passed(j, n) == <<Append(PathTo(j), n), RefTree[walk[j].dir][n]>>

\* The open directories lie in one another.
Chained ==
    \A j \in 2 .. Len(walk) : /\ <<PathTo(j), walk[j].dir>> \in Levels(RefTree)[j - 2]
                              /\ RefTree[walk[j - 1].dir][walk[j].name] = walk[j].dir

\* The first pass has noted what it settled.
Written(V, L) ==
    pass = 1 => /\ \A v \in V : <<v[1], <<v[2], 0>>>> \in directories
                /\ \A l \in L : <<l[1], <<l[2], 0>>>> \in snapshots

Behind(V, L) == \A j \in 1 .. Len(walk) : \A n \in Handled(j) : Passed(j, n) \in V \union L

CoveredBy(V, L) ==
    /\ FilesSettled(L, RefTree, RefData, Settled, identities) /\ DirsSettled(V, L, RefTree)
    /\ Written(V, L) /\ Behind(V, L)

Covered == Sure => Chained /\ \E V, L : CoveredBy(V, L)

\* A directory that is entered is seen as the pass is about it.
LEMMA SeenIsRef ==
    ASSUME ReadinessInv, Sure, NEW j \in 1 .. Len(walk), Entered(j)
    PROVE  entry[walk[j].dir] = RefTree[walk[j].dir]
<1>1. walk[j] \in Frames BY TypedWalk DEF ReadinessInv
<1>2. walk[j].dir \in Dirs /\ walk[j].dir \in Inodes BY <1>1 DEF Frames, Inodes
<1>3. CASE pass # 2 BY <1>3 DEF RefTree
<1>4. CASE pass = 2
  <2>1. stamp[walk[j].dir] <= between.clock
    <3>1. CASE clock = 0
      <4>1. between.clock \in Nat /\ stamp[walk[j].dir] \in Nat /\ stamp[walk[j].dir] <= 0
        BY <1>2, <1>4, <3>1, FileSystemAssumption DEF ReadinessInv, ReadinessTypeOK, Clocked
      <4> QED BY <4>1
    <3>2. CASE clock # 0
      <4>1. stamp[walk[j].dir] = walk[j].before[2] BY <3>2 DEF Sure, Intact
      <4> QED BY <1>4, <4>1 DEF ReadinessInv, Clocked
    <3> QED BY <3>1, <3>2
  <2> QED BY <1>2, <1>4, <2>1 DEF ReadinessInv, Unmoved, RefTree
<1> QED BY <1>3, <1>4

\* A step that does not begin the second pass makes nothing sure that was not.
LEMMA SureBefore ==
    ASSUME ReadinessInv, Installer \/ Stays \/ Proceeds, ~ Turns, Sure'
    PROVE  Sure
<1> USE DEF ReadinessInv
<1>1. UNCHANGED pass
  BY InstallerInstalls DEF Installs, Stays, Proceeds, Begin, LooksUp, OpensFile, StepsInto, Enters, List, ReadsOn,
     ReadsAll, Verifies, Confirms, Finishes, StepsOut
<1>2. CASE clock' = 0
  <2>1. CASE Installer
    <3>1. clock' = clock + 1 /\ clock \in Nat BY <2>1, InstallerInstalls, FileSystemAssumption DEF Installs, ReadinessTypeOK
    <3> QED BY <1>2, <3>1
  <2>2. CASE Stays \/ Proceeds
    <3>1. UNCHANGED clock
      BY <2>2 DEF Stays, Proceeds, Begin, LooksUp, OpensFile, StepsInto, Enters, List, ReadsOn, ReadsAll, Verifies,
         Confirms, Finishes, StepsOut, Turns, fileSystem
    <3> QED BY <1>2, <3>1 DEF Sure
  <2> QED BY <2>1, <2>2
<1>3. CASE clock' # 0
  <2>1. pass = 2 /\ Intact' BY <1>1, <1>3 DEF Sure
  <2>2. ASSUME NEW j \in 1 .. Len(walk), Entered(j) PROVE stamp[walk[j].dir] = walk[j].before[2]
    <3>1. Len(walk) \in Nat /\ walk[j] \in Frames BY TypedWalk
    <3>2. walk[j].dir \in Inodes /\ walk[j].before[2] \in Nat /\ FrameFits(walk[j])
      BY <3>1, FileSystemAssumption DEF Frames, Stamps, Inodes, WalkFits
    <3>3. ASSUME j \in 1 .. Len(walk'), Entered(j)', walk'[j].dir = walk[j].dir,
                 walk'[j].before = walk[j].before, UNCHANGED stamp
          PROVE  stamp[walk[j].dir] = walk[j].before[2]
      BY <2>1, <3>3 DEF Intact
    <3>4. ASSUME SameWay, SameBefore, UNCHANGED stamp, step' # "enter"
          PROVE  stamp[walk[j].dir] = walk[j].before[2]
      BY <2>2, <3>3, <3>4 DEF SameWay, SameBefore, Entered
    <3>5. CASE Installer
      <4>1. UNCHANGED <<walk, step>> /\ stamp'[walk[j].dir] = walk[j].before[2]
        BY <2>1, <2>2, <3>5, InstallerInstalls DEF Installs, Intact, Entered
      <4>2. /\ stamp[walk[j].dir] \in Nat /\ stamp[walk[j].dir] <= clock
            /\ stamp'[walk[j].dir] \in {clock + 1, stamp[walk[j].dir]}
            /\ walk[j].before[2] <= stamp[walk[j].dir] /\ clock \in Nat
        BY SMTT(30), <3>2, <3>5, InstallerInstalls, FileSystemAssumption DEF Installs, Clocked, ReadinessTypeOK, FrameFits
      <4> QED BY <3>2, <4>1, <4>2
    <3>6. CASE Stays
      <4>1. UNCHANGED <<walk, step, stamp>> BY <3>6 DEF Stays, fileSystem
      <4> QED BY <2>2, <3>3, <4>1 DEF Entered
    <3>7. CASE Begin
      <4>1. Len(walk) = 0 BY <3>7 DEF Begin, WalkFits, Noting
      <4> QED BY <4>1
    <3>8. ASSUME NEW n \in Names, LooksUp(n) PROVE stamp[walk[j].dir] = walk[j].before[2]
      <4>1. SameWay /\ SameBefore /\ UNCHANGED stamp /\ step' # "enter"
        BY <3>8, WayKept DEF LooksUp, fileSystem, Proceeds
      <4> QED BY <3>4, <4>1
    <3>9. CASE Enters
      <4>1. /\ SameWay /\ step = "enter" /\ step' = "list" /\ UNCHANGED stamp
            /\ j # Len(walk) => walk'[j].before = walk[j].before
        BY <3>9, WayKept DEF Enters, fileSystem, Proceeds
      <4>2. j # Len(walk) BY <2>2, <3>1, <4>1 DEF Entered
      <4> QED BY <2>2, <3>3, <4>1, <4>2 DEF SameWay, Entered
    <3>10. CASE List
      <4>1. SameWay /\ SameBefore /\ UNCHANGED stamp /\ step' # "enter"
        BY <3>10, WayKept DEF List, fileSystem, Proceeds
      <4> QED BY <3>4, <4>1
    <3>11. CASE StepsInto
      <4>1. /\ Len(walk') = Len(walk) + 1 /\ walk'[j] = walk[j] /\ UNCHANGED stamp
        BY <2>2, <3>11, WayLonger DEF StepsInto, fileSystem
      <4>2. j < Len(walk') /\ j \in 1 .. Len(walk') BY <2>2, <3>1, <4>1
      <4> QED BY <3>3, <4>1, <4>2 DEF Entered
    <3>12. CASE StepsOut
      <4>1. /\ Len(walk') = Len(walk) - 1 /\ \A k \in 1 .. Len(walk) - 1 : walk'[k] = walk[k]
            /\ UNCHANGED stamp /\ step' # "enter"
        BY <3>12, WayShorter DEF StepsOut, fileSystem
      <4>2. CASE j = Len(walk)
        <5>1. walk[j] = here /\ stamp[here.opened[1]] = here.opened[2] BY <3>12, <4>2 DEF StepsOut, here
        <5>2. stamp[walk[j].dir] = walk[j].opened[2] /\ walk[j].opened[2] \in Nat
          BY <3>1, <3>2, <5>1, FileSystemAssumption DEF FrameFits, Frames, Stamps
        <5> QED BY <3>2, <5>2 DEF FrameFits
      <4>3. CASE j # Len(walk)
        <5>1. j \in 1 .. Len(walk) - 1 /\ j \in 1 .. Len(walk') BY <3>1, <4>1, <4>3
        <5> QED BY <3>3, <4>1, <5>1 DEF Entered
      <4> QED BY <4>2, <4>3
    <3>13. CASE OpensFile \/ ReadsOn \/ ReadsAll \/ Verifies \/ Confirms \/ Finishes
      <4>1. walk' = walk /\ step' # "enter" /\ UNCHANGED stamp
        BY <3>13 DEF OpensFile, ReadsOn, ReadsAll, Verifies, Confirms, Finishes, fileSystem
      <4>2. SameWay /\ SameBefore BY <3>13, <4>1, WayKept DEF Proceeds
      <4> QED BY <3>4, <4>1, <4>2
    <3> QED BY <3>5, <3>6, <3>7, <3>8, <3>9, <3>10, <3>11, <3>12, <3>13 DEF Proceeds
  <2> QED BY <2>1, <2>2 DEF Sure, Intact
<1> QED BY <1>2, <1>3

\* A step that settles nothing leaves what is covered as it is.
LEMMA CoveredAlike ==
    ASSUME ReadinessInv, Covered, UNCHANGED <<pass, snapshots, finalNames, identities>>,
           directories \subseteq directories', SameWay,
           Sure' => /\ Sure /\ RefTree' = RefTree /\ RefData' = RefData
                    /\ \A j \in 1 .. Len(walk) : Handled(j)' \subseteq Handled(j)
    PROVE  Covered'
<1>1. SUFFICES ASSUME Sure' PROVE Chained' /\ \E V, L : CoveredBy(V, L)' BY DEF Covered
<1>2. /\ Sure /\ RefTree' = RefTree /\ RefData' = RefData /\ Settled' = Settled
      /\ \A j \in 1 .. Len(walk) : Handled(j)' \subseteq Handled(j)
  BY <1>1 DEF Settled
<1>3. Len(walk) \in Nat /\ Len(walk') = Len(walk) BY TypedWalk DEF ReadinessInv, SameWay
<1>4. \A j \in 1 .. Len(walk) : /\ PathTo(j)' = PathTo(j) /\ walk'[j].dir = walk[j].dir
                                /\ walk'[j].name = walk[j].name
  BY <1>3, PathsKept DEF SameWay, ReadinessInv
<1>5. Chained /\ \E V, L : CoveredBy(V, L) BY <1>2 DEF Covered
<1>6. PICK V, L : CoveredBy(V, L) BY <1>5
<1>7. Chained'
  <2>1. ASSUME NEW j \in 2 .. Len(walk')
        PROVE  /\ <<PathTo(j)', walk'[j].dir>> \in Levels(RefTree')[j - 2]
               /\ RefTree'[walk'[j - 1].dir][walk'[j].name] = walk'[j].dir
    <3>1. j \in 1 .. Len(walk) /\ j - 1 \in 1 .. Len(walk) /\ j \in 2 .. Len(walk) BY <1>3
    <3> QED BY <1>2, <1>4, <1>5, <3>1 DEF Chained
  <2> QED BY <2>1 DEF Chained
<1>8. Behind(V, L)'
  <2>1. ASSUME NEW j \in 1 .. Len(walk'), NEW n \in Handled(j)' PROVE Passed(j, n)' \in V \union L
    <3>1. j \in 1 .. Len(walk) /\ n \in Handled(j) BY <1>2, <1>3
    <3>2. Passed(j, n)' = Passed(j, n) BY <1>2, <1>4, <3>1 DEF Passed
    <3> QED BY <1>6, <3>1, <3>2 DEF CoveredBy, Behind
  <2> QED BY <2>1 DEF Behind
<1>9. Written(V, L)' BY <1>6 DEF CoveredBy, Written
<1>10. FilesSettled(L, RefTree, RefData, Settled, identities)' /\ DirsSettled(V, L, RefTree)'
  BY <1>2, <1>6 DEF CoveredBy, FilesSettled, DirsSettled
<1> QED BY <1>7, <1>8, <1>9, <1>10 DEF CoveredBy

\* At the start of a pass nothing is covered and nothing needs to be.
LEMMA CoveredAtFirst ==
    ASSUME Len(walk') <= 1, Len(walk') \in Nat, Settled' = {}, identities' = {},
           \A j \in 1 .. Len(walk') : Handled(j)' = {}
    PROVE  Covered'
<1>1. Chained' BY DEF Chained
<1>2. CoveredBy({}, {})' BY DEF CoveredBy, FilesSettled, DirsSettled, Written, Behind
<1> QED BY <1>1, <1>2 DEF Covered

\* The steps that settle nothing.
LEMMA QuietCovered ==
    ASSUME ReadinessInv, Covered, Installer \/ Stays \/ Proceeds,
           ~ Begin, ~ Turns, ~ StepsInto, ~ Confirms, ~ StepsOut
    PROVE  Covered'
<1> USE DEF ReadinessInv
<1>1. Sure' => Sure BY SureBefore
<1>2. Len(walk) \in Nat BY TypedWalk
<1>3. CASE Installer
  <2>1. UNCHANGED <<pass, snapshots, finalNames, identities, directories, walk, step, file, between>>
        /\ clock' = clock + 1 /\ clock \in Nat
    BY <1>3, InstallerInstalls, FileSystemAssumption DEF Installs, noted, ReadinessTypeOK
  <2>2. SameWay BY <2>1 DEF SameWay
  <2>3. ASSUME Sure' PROVE RefTree' = RefTree /\ RefData' = RefData
    <3>1. pass = 2 BY <2>1, <2>3 DEF Sure
    <3> QED BY <2>1, <3>1 DEF RefTree, RefData
  <2>4. ASSUME Sure' PROVE \A j \in 1 .. Len(walk) : Handled(j)' = Handled(j)
    BY <2>1, <2>3, <2>4 DEF Handled, Listing, Busy, InHand
  <2> QED BY <1>1, <2>1, <2>2, <2>3, <2>4, CoveredAlike
<1>4. ASSUME Stays \/ Proceeds
      PROVE  /\ UNCHANGED <<entry, data, pass, between, snapshots, finalNames, identities>>
             /\ directories \subseteq directories' /\ RefTree' = RefTree /\ RefData' = RefData
  <2>1. /\ UNCHANGED <<entry, data, pass, between, snapshots, finalNames, identities>>
        /\ directories \subseteq directories'
    BY <1>4 DEF Stays, Proceeds, LooksUp, OpensFile, Enters, List, ReadsOn,
       ReadsAll, Verifies, Finishes, fileSystem, noted
  <2> QED BY <2>1 DEF RefTree, RefData
<1>5. CASE Stays
  <2>1. UNCHANGED <<walk, step, file>> BY <1>5 DEF Stays
  <2>2. SameWay BY <2>1 DEF SameWay
  <2>3. \A j \in 1 .. Len(walk) : Handled(j)' = Handled(j) BY <1>4, <1>5, <2>1 DEF Handled, Listing, Busy, InHand
  <2> QED BY <1>1, <1>4, <1>5, <2>2, <2>3, CoveredAlike
<1>6. ASSUME NEW n \in Names, LooksUp(n) PROVE Covered'
  <2>1. SameWay /\ NowToDo(here.todo \ {n}) /\ step = "entry" /\ step' = "open" /\ n \in here.todo
        /\ file'.name = n
    BY <1>6, WayKept DEF LooksUp, Proceeds
  <2>2. ASSUME NEW j \in 1 .. Len(walk) PROVE Handled(j)' = Handled(j)
    <3>1. Listing(j)' = Listing(j) BY <1>4, <1>6, <2>1 DEF Listing, SameWay, Proceeds
    <3>2. CASE j < Len(walk)
      <4>1. walk'[j].todo = walk[j].todo BY <1>2, <2>1, <3>2 DEF NowToDo
      <4>2. Busy(j)' = Busy(j)
        <5>1. walk'[j + 1].name = walk[j + 1].name BY <1>2, <2>1, <2>2, <3>2 DEF SameWay
        <5> QED BY <2>1, <3>2, <5>1 DEF Busy, SameWay
      <4> QED BY <1>2, <2>1, <3>1, <3>2, <4>1, <4>2 DEF Handled, SameWay
    <3>3. CASE j = Len(walk)
      <4>1. walk'[j].todo = here.todo \ {n} /\ walk[j] = here BY <2>1, <3>3 DEF NowToDo, here
      <4>2. Busy(j) = {} /\ Busy(j)' = {n} BY <1>2, <2>1, <3>3 DEF Busy, InHand, SameWay
      <4>3. Handled(j) = Listing(j) \ here.todo BY <2>1, <4>1, <4>2 DEF Handled
      <4>4. Handled(j)' = Listing(j) \ ((here.todo \ {n}) \union {n})
        BY <2>1, <3>1, <4>1, <4>2 DEF Handled
      <4> QED BY <2>1, <4>3, <4>4
    <3> QED BY <1>2, <3>2, <3>3
  <2> QED BY <1>1, <1>4, <1>6, <2>1, <2>2, CoveredAlike DEF Proceeds
<1>7. CASE Enters
  <2>1. SameWay /\ NowToDo(here.todo) /\ step = "enter" /\ step' = "list"
    BY <1>7, WayKept DEF Enters, Proceeds
  <2>2. ASSUME NEW j \in 1 .. Len(walk) PROVE Handled(j)' = Handled(j)
    <3>1. Listing(j)' = Listing(j) BY <1>4, <1>7, <2>1 DEF Listing, SameWay, Proceeds
    <3>2. walk'[j].todo = walk[j].todo BY <2>1 DEF NowToDo, here
    <3>3. Busy(j)' = Busy(j)
      <4>1. j < Len(walk) => walk'[j + 1].name = walk[j + 1].name BY <1>2, <2>1, <2>2 DEF SameWay
      <4> QED BY <2>1, <4>1 DEF Busy, InHand, SameWay
    <3> QED BY <2>1, <3>1, <3>2, <3>3 DEF Handled, SameWay
  <2> QED BY <1>1, <1>4, <1>7, <2>1, <2>2, CoveredAlike DEF Proceeds
<1>8. CASE List
  <2>1. SameWay /\ NowToDo(Bound(entry, here.dir)) /\ step = "list" /\ step' = "entry"
    BY <1>8, WayKept DEF List, Proceeds
  <2>2. ASSUME Sure, NEW j \in 1 .. Len(walk) PROVE Handled(j)' \subseteq Handled(j)
    <3>1. Listing(j)' = Listing(j) BY <1>4, <1>8, <2>1 DEF Listing, SameWay, Proceeds
    <3>2. CASE j < Len(walk)
      <4>1. walk'[j].todo = walk[j].todo BY <1>2, <2>1, <3>2 DEF NowToDo
      <4>2. Busy(j)' = Busy(j)
        <5>1. walk'[j + 1].name = walk[j + 1].name BY <1>2, <2>1, <2>2, <3>2 DEF SameWay
        <5> QED BY <2>1, <3>2, <5>1 DEF Busy, SameWay
      <4> QED BY <1>2, <2>1, <3>1, <3>2, <4>1, <4>2 DEF Handled, SameWay
    <3>3. CASE j = Len(walk)
      <4>1. Len(walk) >= 2 /\ here = walk[j] BY <2>1, <3>3 DEF WalkFits, here
      <4>2. walk'[j].todo = Bound(entry, walk[j].dir) BY <2>1, <3>3, <4>1 DEF NowToDo
      <4>3. entry[walk[j].dir] = RefTree[walk[j].dir] BY <2>1, <2>2, SeenIsRef DEF Entered
      <4>4. Bound(entry, walk[j].dir) = Bound(RefTree, walk[j].dir) BY <4>3 DEF Bound
      <4>5. Listing(j)' = Bound(RefTree, walk[j].dir) BY <1>2, <3>1, <3>3, <4>1 DEF Listing
      <4> QED BY <2>1, <4>2, <4>4, <4>5 DEF Handled
    <3> QED BY <1>2, <3>2, <3>3
  <2> QED BY <1>1, <1>4, <1>8, <2>1, <2>2, CoveredAlike DEF Proceeds
<1>9. CASE OpensFile \/ ReadsOn \/ ReadsAll \/ Verifies \/ Finishes
  <2>1. /\ walk' = walk /\ (InHand' <=> InHand) /\ step \notin {"enter", "list"} /\ step' \notin {"enter", "list"}
        /\ file'.name = file.name
    BY <1>9 DEF OpensFile, ReadsOn, ReadsAll, Verifies, Finishes, InHand, ReadinessTypeOK
  <2>2. SameWay BY <2>1 DEF SameWay
  <2>3. \A j \in 1 .. Len(walk) : Handled(j)' = Handled(j)
    BY <1>4, <1>9, <2>1 DEF Handled, Listing, Busy, Proceeds
  <2> QED BY <1>1, <1>4, <1>9, <2>2, <2>3, CoveredAlike DEF Proceeds
<1> QED BY <1>3, <1>5, <1>6, <1>7, <1>8, <1>9 DEF Proceeds

LEMMA BeginCovered ==
    ASSUME ReadinessInv, Begin
    PROVE  Covered'
<1>1. /\ walk' = <<[dir |-> Top, name |-> Nil, opened |-> StampOf(Top), before |-> StampOf(Top),
                    todo |-> PackageRoots]>>
      /\ step' = "entry" /\ UNCHANGED <<pass, file>> /\ pass = 1
      /\ snapshots' = {} /\ identities' = {}
  BY DEF Begin, ReadinessInv, Noting, noted
<1>2. Len(walk') = 1 /\ walk'[1].todo = PackageRoots BY <1>1
<1>3. Settled' = {} BY <1>1 DEF Settled
<1>4. Handled(1)' = {} BY <1>1, <1>2 DEF Handled, Listing
<1>5. \A j \in 1 .. Len(walk') : Handled(j)' = {} BY <1>2, <1>4
<1> QED BY <1>1, <1>2, <1>3, <1>5, CoveredAtFirst

LEMMA TurnCovered ==
    ASSUME ReadinessInv, Turns
    PROVE  Covered'
<1>1. step = "entry" /\ step' = "entry" /\ Len(walk) = 1 /\ pass = 1 /\ pass' = 2
      /\ identities' = {} /\ finalNames' = {}
  BY DEF Turns, AtEnd, ReadinessInv, Noting
<1>2. Len(walk') = 1 /\ walk'[1].todo = PackageRoots
  BY <1>1, WayKept DEF SameWay, NowToDo, ReadinessInv, Proceeds
<1>3. Settled' = {} BY <1>1 DEF Settled
<1>4. Handled(1)' = {} BY <1>1, <1>2 DEF Handled, Listing
<1>5. \A j \in 1 .. Len(walk') : Handled(j)' = {} BY <1>2, <1>4
<1> QED BY <1>1, <1>2, <1>3, <1>5, CoveredAtFirst

\* What an open directory has lies on the next level.
LEMMA OnNextLevel ==
    ASSUME ReadinessInv, Chained, step # "begin", Len(walk) - 1 <= MaxDepth,
           NEW n \in Names, RefTree[here.dir][n] # Nil, Len(walk) = 1 => n \in PackageRoots
    PROVE  <<Path(n), RefTree[here.dir][n]>> \in Levels(RefTree)[Len(walk) - 1]
<1>1. Len(walk) \in Nat \ {0} /\ walk # <<>> BY TypedWalk, EmptySeq DEF ReadinessInv, ReadinessTypeOK
<1>2. \A l \in Nat \ {0} : l = 1 \/ l >= 2 OBVIOUS
<1>3. Path(n) = Append(PathTo(Len(walk)), n) BY PathsTyped DEF ReadinessInv
<1>4. CASE Len(walk) = 1
  <2>1. here.dir = Top /\ n \in PackageRoots BY <1>4 DEF here, ReadinessInv, WalkFits
  <2>2. PathTo(1) = <<>> BY DEF PathTo
  <2>5. Append(<<>>, n) = <<n>> OBVIOUS
  <2>3. Path(n) = <<n>> BY <1>3, <1>4, <2>2, <2>5
  <2>4. <<<<n>>, RefTree[Top][n]>> \in Roots(RefTree) BY <2>1 DEF Roots
  <2> QED BY <1>4, <2>1, <2>3, <2>4, LevelsAre
<1>5. CASE Len(walk) >= 2
  <2>1. Len(walk) \in 2 .. Len(walk) BY <1>1, <1>5
  <2>2. <<PathTo(Len(walk)), here.dir>> \in Levels(RefTree)[Len(walk) - 2] BY <2>1 DEF Chained, here
  <2>3. Len(walk) - 2 \in Nat /\ (Len(walk) - 2) + 1 = Len(walk) - 1 /\ (Len(walk) - 2) + 1 <= Deepest
    BY <1>1, <1>5, LevelsAre, FileSystemAssumption
  <2>4. here.dir \in Dirs BY <1>1, TypedWalk DEF Frames, ReadinessInv
  <2>5. n \in Bound(RefTree, here.dir) BY DEF Bound
  <2>6. PICK p : p = <<PathTo(Len(walk)), here.dir>> OBVIOUS
  <2>7. p \in Levels(RefTree)[Len(walk) - 2] /\ p[1] = PathTo(Len(walk)) /\ p[2] = here.dir BY <2>2, <2>6
  <2>8. <<Append(p[1], n), RefTree[p[2]][n]>> \in Levels(RefTree)[(Len(walk) - 2) + 1]
    BY <2>3, <2>4, <2>5, <2>7, LevelBelow
  <2> QED BY <1>3, <2>3, <2>7, <2>8
<1> QED BY <1>1, <1>2, <1>4, <1>5

LEMMA IntoCovered ==
    ASSUME ReadinessInv, Covered, StepsInto
    PROVE  Covered'
<1> USE DEF ReadinessInv
<1>1. SUFFICES ASSUME Sure' PROVE Chained' /\ \E V, L : CoveredBy(V, L)' BY DEF Covered
<1>2. Sure BY <1>1, SureBefore DEF Proceeds, StepsInto, Turns, AtEnd
<1>3. PICK m \in Nat : m = Len(walk) BY TypedWalk
<1>4. /\ Len(walk') = m + 1 /\ \A j \in 1 .. m : walk'[j] = walk[j]
      /\ walk'[m + 1].dir = file.ino /\ walk'[m + 1].name = file.name /\ walk'[m + 1].todo = {}
  BY <1>3, WayLonger
<1>5. /\ step = "open" /\ step' = "enter" /\ entry[here.dir][file.name] = file.ino /\ file.ino \in Dirs
      /\ UNCHANGED <<pass, snapshots, finalNames, identities, directories, entry, data, between>>
      /\ file.name \in Names /\ (m = 1 => file.name \in PackageRoots) /\ m - 1 <= MaxDepth
  BY <1>3, FileSystemAssumption DEF StepsInto, noted, fileSystem, FileFits, InHand, WalkFits
<1>6. RefTree' = RefTree /\ RefData' = RefData /\ Settled' = Settled BY <1>5 DEF RefTree, RefData, Settled
<1>7. m >= 1 /\ here = walk[m]
  <2>1. walk # <<>> BY <1>5 DEF ReadinessTypeOK
  <2>2. m \in Nat \ {0} BY <1>3, <2>1, TypedWalk, EmptySeq
  <2> QED BY <1>3, <2>2 DEF here
<1>8. \A j \in 1 .. m : PathTo(j)' = PathTo(j) BY <1>4, PathsKept
<1>9. PathTo(m + 1)' = Path(file.name)
  BY <1>3, <1>4, <1>7 DEF PathTo, Path
<1>10. RefTree[here.dir][file.name] = file.ino
  <2>1. m \in 1 .. Len(walk) /\ Entered(m) BY <1>3, <1>5, <1>7 DEF Entered
  <2> QED BY <1>2, <1>5, <1>7, <2>1, SeenIsRef
<1>11. Chained /\ \E V, L : CoveredBy(V, L) BY <1>2 DEF Covered
<1>12. PICK V, L : CoveredBy(V, L) BY <1>11
<1>13. <<Path(file.name), file.ino>> \in Levels(RefTree)[m - 1]
  <2>1. file.ino # Nil BY <1>5, FileSystemAssumption DEF Inodes
  <2> QED BY <1>3, <1>5, <1>10, <1>11, <2>1, OnNextLevel
<1>14. Chained'
  <2>1. ASSUME NEW j \in 2 .. m + 1
        PROVE  /\ <<PathTo(j)', walk'[j].dir>> \in Levels(RefTree')[j - 2]
               /\ RefTree'[walk'[j - 1].dir][walk'[j].name] = walk'[j].dir
    <3>1. CASE j = m + 1
      <4>1. j - 2 = m - 1 /\ j - 1 = m BY <3>1
      <4> QED BY <1>4, <1>6, <1>7, <1>9, <1>10, <1>13, <3>1, <4>1
    <3>2. CASE j # m + 1
      <4>1. j \in 2 .. Len(walk) /\ j \in 1 .. m /\ j - 1 \in 1 .. m BY <1>3, <3>2
      <4> QED BY <1>4, <1>6, <1>8, <1>11, <4>1 DEF Chained
    <3> QED BY <3>1, <3>2
  <2> QED BY <1>4, <2>1 DEF Chained
<1>15. Behind(V, L)'
  <2>1. ASSUME NEW j \in 1 .. m + 1, NEW n \in Handled(j)' PROVE Passed(j, n)' \in V \union L
    <3>1. j # m + 1 BY <1>4, <1>5, <2>1 DEF Handled
    <3>2. j \in 1 .. m /\ j < m + 1 BY <2>1, <3>1
    <3>3. Listing(j)' = Listing(j) BY <1>4, <1>6, <3>2 DEF Listing
    <3>4. Busy(j)' = Busy(j)
      <4>1. Busy(j)' = {walk'[j + 1].name} BY <1>4, <3>2 DEF Busy
      <4>2. CASE j < m
        <5>1. walk'[j + 1] = walk[j + 1] BY <1>4, <3>2, <4>2
        <5> QED BY <1>3, <4>1, <4>2, <5>1 DEF Busy
      <4>3. CASE j = m
        <5>1. Busy(j) = {file.name} BY <1>3, <1>5, <4>3 DEF Busy, InHand
        <5> QED BY <1>4, <4>1, <4>3, <5>1
      <4> QED BY <3>2, <4>2, <4>3
    <3>5. Handled(j)' = Listing(j) \ (walk[j].todo \union Busy(j)) BY <1>4, <3>1, <3>2, <3>3, <3>4 DEF Handled
    <3>6. Handled(j) = Listing(j) \ (walk[j].todo \union Busy(j)) BY <1>5 DEF Handled
    <3>7. Passed(j, n)' = Passed(j, n) BY <1>4, <1>6, <1>8, <3>2 DEF Passed
    <3> QED BY <1>3, <1>12, <2>1, <3>2, <3>5, <3>6, <3>7 DEF CoveredBy, Behind
  <2> QED BY <1>4, <2>1 DEF Behind
<1>16. Written(V, L)' BY <1>5, <1>12 DEF CoveredBy, Written
<1>17. FilesSettled(L, RefTree, RefData, Settled, identities)' /\ DirsSettled(V, L, RefTree)'
  BY <1>5, <1>6, <1>12 DEF CoveredBy, FilesSettled, DirsSettled
<1> QED BY <1>14, <1>15, <1>16, <1>17 DEF CoveredBy

LEMMA OutCovered ==
    ASSUME ReadinessInv, Covered, StepsOut
    PROVE  Covered'
<1> USE DEF ReadinessInv
<1>1. SUFFICES ASSUME Sure' PROVE Chained' /\ \E V, L : CoveredBy(V, L)' BY DEF Covered
<1>2. Sure BY <1>1, SureBefore DEF Proceeds, StepsOut, Turns, AtEnd
<1>3. PICK m \in Nat : m = Len(walk) BY TypedWalk
<1>4. m >= 2 /\ Len(walk') = m - 1 /\ \A j \in 1 .. m - 1 : walk'[j] = walk[j] BY <1>3, WayShorter
<1>5. /\ step = "leave" /\ step' = "entry"
      /\ UNCHANGED <<pass, snapshots, finalNames, identities, directories, entry, data, between, stamp, clock>>
  BY DEF StepsOut, noted, fileSystem
<1>6. RefTree' = RefTree /\ RefData' = RefData /\ Settled' = Settled BY <1>5 DEF RefTree, RefData, Settled
<1>7. \A j \in 1 .. m - 1 : PathTo(j)' = PathTo(j) BY <1>4, PathsKept
<1>8. Chained /\ \E V, L : CoveredBy(V, L) BY <1>2 DEF Covered
<1>9. PICK V, L : CoveredBy(V, L) BY <1>8
<1>10. PICK v : v = <<PathTo(m), walk[m].dir>> OBVIOUS
<1>11. v[1] = PathTo(m) /\ v[2] = walk[m].dir /\ v[2] \in Dirs
  <2>1. m \in 1 .. Len(walk) BY <1>3, <1>4
  <2>2. walk[m] \in Frames BY <2>1, TypedWalk
  <2> QED BY <1>10, <2>2 DEF Frames
<1> DEFINE U == V \union {v}
<1>12. \A n \in Bound(RefTree, v[2]) : <<Append(v[1], n), RefTree[v[2]][n]>> \in V \union L
  <2>1. walk[m].todo = {} BY <1>3, <1>5 DEF WalkFits, here
  <2>2. Busy(m) = {} BY <1>3, <1>5 DEF Busy, InHand
  <2>3. Handled(m) = Bound(RefTree, walk[m].dir) BY <1>3, <1>4, <1>5, <2>1, <2>2 DEF Handled, Listing
  <2>4. m \in 1 .. Len(walk) BY <1>3, <1>4
  <2>5. \A n \in Handled(m) : Passed(m, n) \in V \union L BY <1>9, <2>4 DEF CoveredBy, Behind
  <2> QED BY <1>11, <2>3, <2>5 DEF Passed
<1>13. DirsSettled(U, L, RefTree)'
  <2>1. \A w \in U : w[2] \in Dirs /\ \A n \in Bound(RefTree, w[2]) :
                                         <<Append(w[1], n), RefTree[w[2]][n]>> \in V \union L
    BY <1>9, <1>11, <1>12 DEF CoveredBy, DirsSettled
  <2> HIDE DEF U
  <2>2. V \union L \subseteq U \union L BY DEF U
  <2> QED BY <1>6, <2>1, <2>2 DEF DirsSettled
<1>14. FilesSettled(L, RefTree, RefData, Settled, identities)'
  BY <1>5, <1>6, <1>9 DEF CoveredBy, FilesSettled
<1>15. Written(U, L)'
  <2>1. ASSUME pass = 1 PROVE <<v[1], <<v[2], 0>>>> \in directories
    <3>1. m \in 2 .. Len(walk) /\ Entered(m) BY <1>3, <1>4, <1>5 DEF Entered
    <3>2. <<PathTo(m), walk[m].before>> \in directories BY <2>1, <3>1 DEF Noting
    <3>3. walk[m] \in Frames /\ FrameFits(walk[m]) BY <1>3, <1>4, TypedWalk DEF WalkFits
    <3>4. clock = 0 BY <1>2, <2>1 DEF Sure
    <3>5. /\ walk[m].before \in Stamps /\ walk[m].dir \in Inodes /\ walk[m].before[1] = walk[m].dir
          /\ walk[m].before[2] <= stamp[walk[m].dir]
      BY <3>3 DEF Frames, FrameFits, Inodes
    <3>6. stamp[walk[m].dir] <= 0 BY <3>4, <3>5 DEF Clocked
    <3>7. walk[m].before[2] \in Nat /\ stamp[walk[m].dir] \in Nat
      <4>1. walk[m].before[2] \in Nat BY <3>5, FileSystemAssumption DEF Stamps
      <4>2. stamp[walk[m].dir] \in Nat BY <3>5, FileSystemAssumption DEF ReadinessTypeOK
      <4> QED BY <4>1, <4>2
    <3>8. walk[m].before[2] = 0 BY <3>5, <3>6, <3>7
    <3>9. walk[m].before = <<walk[m].dir, 0>> BY <3>5, <3>8 DEF Stamps
    <3> QED BY <1>11, <3>2, <3>9
  <2> QED BY <1>5, <1>9, <2>1 DEF CoveredBy, Written
<1>16. Chained'
  <2>1. ASSUME NEW j \in 2 .. m - 1
        PROVE  /\ <<PathTo(j)', walk'[j].dir>> \in Levels(RefTree')[j - 2]
               /\ RefTree'[walk'[j - 1].dir][walk'[j].name] = walk'[j].dir
    <3>1. j \in 2 .. Len(walk) /\ j \in 1 .. m - 1 /\ j - 1 \in 1 .. m - 1 BY <1>3
    <3> QED BY <1>4, <1>6, <1>7, <1>8, <3>1 DEF Chained
  <2> QED BY <1>4, <2>1 DEF Chained
<1>17. Behind(U, L)'
  <2>1. ASSUME NEW j \in 1 .. m - 1, NEW n \in Handled(j)' PROVE Passed(j, n)' \in U \union L
    <3>1. Listing(j)' = Listing(j) BY <1>4, <1>6, <2>1 DEF Listing
    <3>2. Passed(j, n)' = Passed(j, n) BY <1>4, <1>6, <1>7, <2>1 DEF Passed
    <3>3. Busy(j) = {walk[j + 1].name} BY <1>3, <2>1 DEF Busy
    <3>4. Handled(j) = Listing(j) \ (walk[j].todo \union {walk[j + 1].name})
      BY <1>5, <3>3 DEF Handled
    <3>5. j \in 1 .. Len(walk) BY <1>3, <2>1
    <3>6. CASE j < m - 1
      <4>1. walk'[j + 1] = walk[j + 1] BY <1>4, <2>1, <3>6
      <4>2. Busy(j)' = {walk[j + 1].name} BY <1>4, <3>6, <4>1 DEF Busy
      <4>3. Handled(j)' = Listing(j) \ (walk[j].todo \union {walk[j + 1].name})
        BY <1>4, <1>5, <2>1, <3>1, <4>2 DEF Handled
      <4> QED BY <1>9, <2>1, <3>2, <3>4, <3>5, <4>3 DEF CoveredBy, Behind
    <3>7. CASE j = m - 1
      <4>1. Handled(j)' \subseteq Listing(j) \ walk[j].todo BY <1>4, <1>5, <2>1, <3>1 DEF Handled
      <4>2. CASE n = walk[j + 1].name
        <5>1. j + 1 = m /\ m \in 2 .. Len(walk) BY <1>3, <1>4, <3>7
        <5>2. RefTree[walk[m - 1].dir][walk[m].name] = walk[m].dir BY <1>8, <5>1 DEF Chained
        <5>3. m - 1 \in 1 .. Len(walk) - 1 /\ (m - 1) + 1 = m BY <1>3, <1>4
        <5>4. PathTo(m) = Append(PathTo(m - 1), walk[m].name) BY <5>3, PathsTyped
        <5>5. Passed(j, n) = v BY <1>10, <3>7, <4>2, <5>1, <5>2, <5>4 DEF Passed
        <5> QED BY <3>2, <5>5
      <4>3. CASE n # walk[j + 1].name
        BY <1>9, <2>1, <3>2, <3>4, <3>5, <4>1, <4>3 DEF CoveredBy, Behind
      <4> QED BY <4>2, <4>3
    <3> QED BY <1>4, <2>1, <3>6, <3>7
  <2> HIDE DEF U
  <2> QED BY <1>4, <2>1 DEF Behind
<1> HIDE DEF U
<1> QED BY <1>13, <1>14, <1>15, <1>16, <1>17 DEF CoveredBy

LEMMA ConfirmCovered ==
    ASSUME ReadinessInv, Covered, Confirms
    PROVE  Covered'
<1> USE DEF ReadinessInv
<1>1. SUFFICES ASSUME Sure' PROVE Chained' /\ \E V, L : CoveredBy(V, L)' BY DEF Covered
<1>2. Sure BY <1>1, SureBefore DEF Proceeds, Confirms, Turns, AtEnd
<1>3. PICK m \in Nat : m = Len(walk) BY TypedWalk
<1>4. /\ step = "confirm" /\ step' = "entry" /\ InHand /\ ~ InHand'
      /\ UNCHANGED <<pass, directories, entry, data, between, stamp, clock, walk>>
      /\ file.ino \in FileInodes /\ Path(file.name) \in DOMAIN Members /\ file.ino \notin identities
      /\ file.name \in Names /\ m > 1 /\ entry[here.dir][file.name] = file.ino /\ stamp[file.ino] = file.stamp
  BY <1>3 DEF Confirms, noted, fileSystem, FileFits, InHand
<1>5. RefTree' = RefTree /\ RefData' = RefData BY <1>4 DEF RefTree, RefData
<1>6. Chained /\ \E V, L : CoveredBy(V, L) BY <1>2 DEF Covered
<1>7. PICK V, L : CoveredBy(V, L) BY <1>6
<1>8. PICK l : l = <<Path(file.name), file.ino>> OBVIOUS
<1>9. l[1] = Path(file.name) /\ l[2] = file.ino BY <1>8
<1> DEFINE M == L \union {l}
<1>10. here = walk[m] /\ m \in 1 .. Len(walk) BY <1>3, <1>4 DEF here
<1>11. RefTree[here.dir][file.name] = file.ino
  <2>1. Entered(m) BY <1>4 DEF Entered
  <2> QED BY <1>2, <1>4, <1>10, <2>1, SeenIsRef
<1>12. l \in Reachable(RefTree)
  <2>1. m - 1 <= MaxDepth /\ m - 1 \in Nat /\ m - 1 <= Deepest
    <3>1. Deepest \in Nat /\ MaxDepth <= Deepest BY LevelsAre
    <3>2. m <= MaxDepth + 1 BY <1>3, <1>4 DEF WalkFits
    <3> QED BY <1>4, <3>1, <3>2, FileSystemAssumption
  <2>2. file.ino # Nil BY <1>4, FileSystemAssumption DEF Inodes
  <2>3. <<Path(file.name), RefTree[here.dir][file.name]>> \in Levels(RefTree)[m - 1]
    BY <1>3, <1>4, <1>6, <1>11, <2>1, <2>2, OnNextLevel
  <2> QED BY <1>8, <1>11, <2>1, <2>3, LevelReached
<1>13. Settled' = Settled \union {l[1]} /\ identities' = identities \union {l[2]}
  <2>1. CASE pass = 2 BY <1>4, <1>9, <2>1 DEF Confirms, Settled
  <2>2. CASE pass # 2
    <3>1. pass = 1 BY <2>2 DEF ReadinessTypeOK
    <3>2. snapshots' = snapshots \union {<<Path(file.name), Looked>>} BY <3>1 DEF Confirms
    <3>4. PICK t : t = <<Path(file.name), Looked>> OBVIOUS
    <3>5. snapshots' = snapshots \union {t} /\ t[1] = Path(file.name) BY <3>2, <3>4
    <3>3. {s[1] : s \in snapshots'} = {s[1] : s \in snapshots} \union {Path(file.name)} BY <3>5
    <3> QED BY <1>4, <1>9, <2>2, <3>3 DEF Settled, Confirms
  <2> QED BY <2>1, <2>2
<1>14. RefData[l[2]] = Members[l[1]]
  <2>1. CASE pass = 2
    <3>1. <<Path(file.name), Looked>> \in snapshots BY <1>4, <2>1 DEF FileFits
    <3>2. PICK s \in snapshots : s = <<Path(file.name), Looked>> BY <3>1
    <3>3. s[1] = l[1] /\ s[2][1] = file.ino /\ s[2][2] = file.stamp BY <1>9, <3>2 DEF Looked
    <3>4. data[file.ino] = Members[l[1]] BY <1>4, <3>2, <3>3 DEF Hashed
    <3>5. file.stamp <= between.clock BY <2>1, <3>2, <3>3 DEF Clocked
    <3> QED BY <1>4, <1>9, <2>1, <3>4, <3>5 DEF Unmoved, RefData
  <2>2. CASE pass # 2
    <3>1. pass = 1 BY <2>2 DEF ReadinessTypeOK
    <3>2. file.got = Members[l[1]] BY <1>9, <3>1 DEF Confirms
    <3>3. <<Path(file.name), Looked>> \in snapshots' BY <3>1 DEF Confirms
    <3>4. PICK s \in snapshots' : s = <<Path(file.name), Looked>> BY <3>3
    <3>5. s[1] = l[1] /\ s[2][1] = file.ino /\ s[2][2] = file.stamp BY <1>9, <3>4 DEF Looked
    <3>6. Hashed' BY HashedKept DEF Proceeds
    <3>7. data[file.ino] = Members[l[1]] BY <1>4, <3>4, <3>5, <3>6 DEF Hashed
    <3> QED BY <1>9, <2>2, <3>7 DEF RefData
  <2> QED BY <2>1, <2>2
<1>15. FilesSettled(M, RefTree, RefData, Settled, identities)'
  <2>1. Len(l[1]) > 1
    <3>1. Len(PathTo(m)) = m - 1 /\ PathTo(m) \in Seq(Names) /\ l[1] = Append(PathTo(m), file.name)
      BY <1>3, <1>9, <1>10, PathsTyped
    <3>2. Len(l[1]) = m BY <1>4, <3>1, AppendProperties
    <3> QED BY <1>4, <3>2
  <2>2. /\ L \subseteq Reachable(RefTree) /\ {k[1] : k \in L} = Settled /\ {k[2] : k \in L} = identities
        /\ \A k \in L : /\ k[2] \in FileInodes /\ Len(k[1]) > 1
                        /\ k[1] \in DOMAIN Members /\ RefData[k[2]] = Members[k[1]]
        /\ \A k, h \in L : k[2] = h[2] => k = h
    BY <1>7 DEF CoveredBy, FilesSettled
  <2>3. \A k \in L : k[2] # l[2] BY <1>4, <1>9, <2>2
  <2>4. M \subseteq Reachable(RefTree) BY <1>12, <2>2
  <2>5. {k[1] : k \in M} = Settled' BY <1>13, <2>2
  <2>6. {k[2] : k \in M} = identities' BY <1>13, <2>2
  <2>7. \A k \in M : /\ k[2] \in FileInodes /\ Len(k[1]) > 1
                     /\ k[1] \in DOMAIN Members /\ RefData[k[2]] = Members[k[1]]
    BY <1>4, <1>9, <1>14, <2>1, <2>2
  <2>8. \A k, h \in M : k[2] = h[2] => k = h BY <2>2, <2>3
  <2> HIDE DEF M
  <2> QED BY <1>5, <2>4, <2>5, <2>6, <2>7, <2>8 DEF FilesSettled
<1>16. DirsSettled(V, M, RefTree)' BY <1>5, <1>7 DEF CoveredBy, DirsSettled
<1>17. Written(V, M)'
  <2>1. ASSUME pass = 1 PROVE <<l[1], <<l[2], 0>>>> \in snapshots' /\ snapshots \subseteq snapshots'
    <3>1. clock = 0 BY <1>2, <2>1 DEF Sure
    <3>2. file.stamp \in Nat /\ file.stamp <= 0
      BY <1>4, <3>1, FileSystemAssumption DEF Clocked, ReadinessTypeOK, Inodes
    <3>3. Looked = <<file.ino, 0>> BY <3>2 DEF Looked
    <3> QED BY <1>9, <2>1, <3>3 DEF Confirms
  <2> QED BY <1>4, <1>7, <2>1 DEF CoveredBy, Written
<1>18. Chained' BY <1>4, <1>5, <1>6 DEF Chained, PathTo
<1>19. Behind(V, M)'
  <2>1. ASSUME NEW j \in 1 .. m, NEW n \in Handled(j)' PROVE Passed(j, n)' \in V \union M
    <3>1. Listing(j)' = Listing(j) BY <1>4, <1>5 DEF Listing
    <3>2. Passed(j, n)' = Passed(j, n) BY <1>4, <1>5 DEF Passed, PathTo
    <3>3. CASE j < m
      <4>1. Handled(j)' = Handled(j) BY <1>3, <1>4, <3>1, <3>3 DEF Handled, Busy
      <4> QED BY <1>3, <1>7, <2>1, <3>2, <4>1 DEF CoveredBy, Behind
    <3>4. CASE j = m
      <4>1. Handled(j)' = Listing(j) \ walk[j].todo BY <1>3, <1>4, <3>1, <3>4 DEF Handled, Busy
      <4>2. Handled(j) = Listing(j) \ (walk[j].todo \union {file.name}) BY <1>3, <1>4, <3>4 DEF Handled, Busy
      <4>3. CASE n = file.name
        <5>1. Path(file.name) = Append(PathTo(m), file.name) BY <1>3, PathsTyped
        <5>2. Passed(j, n) = l BY <1>8, <1>10, <1>11, <3>4, <4>3, <5>1 DEF Passed
        <5> QED BY <3>2, <5>2
      <4>4. CASE n # file.name BY <1>3, <1>7, <2>1, <3>2, <4>1, <4>2, <4>4 DEF CoveredBy, Behind
      <4> QED BY <4>3, <4>4
    <3> QED BY <2>1, <3>3, <3>4
  <2> HIDE DEF M
  <2> QED BY <1>3, <1>4, <2>1 DEF Behind
<1> HIDE DEF M
<1> QED BY <1>15, <1>16, <1>17, <1>18, <1>19 DEF CoveredBy

LEMMA CoveredStep ==
    ASSUME ReadinessInv, Covered, [ReadinessNext]_readinessVars
    PROVE  Covered'
<1>1. Installer \/ Stays \/ Proceeds BY EveryStep DEF ReadinessInv, FileFits
<1>2. CASE Begin BY <1>2, BeginCovered
<1>3. CASE Turns BY <1>3, TurnCovered
<1>4. CASE StepsInto BY <1>4, IntoCovered
<1>5. CASE Confirms BY <1>5, ConfirmCovered
<1>6. CASE StepsOut BY <1>6, OutCovered
<1> QED BY <1>1, <1>2, <1>3, <1>4, <1>5, <1>6, QuietCovered

LEMMA CoveredInvariant == ReadinessSpec => []Covered
<1>1. ReadinessInit => Covered
  <2> SUFFICES ASSUME ReadinessInit PROVE Covered OBVIOUS
  <2>1. Len(walk) = 0 /\ snapshots = {} /\ identities = {} /\ pass = 1 BY DEF ReadinessInit
  <2>2. Settled = {} BY <2>1 DEF Settled
  <2>3. Chained BY <2>1 DEF Chained
  <2>4. CoveredBy({}, {}) BY <2>1, <2>2 DEF CoveredBy, FilesSettled, DirsSettled, Written, Behind
  <2> QED BY <2>3, <2>4 DEF Covered
<1>2. ReadinessInv /\ Covered /\ [ReadinessNext]_readinessVars => Covered' BY CoveredStep
<1> QED BY <1>1, <1>2, ReadinessInvariant, PTL DEF ReadinessSpec

\* At the end of a pass that is sure, everything is covered.
LEMMA EndCovered ==
    ASSUME ReadinessInv, Covered, Sure, AtEnd
    PROVE  /\ \A n \in PackageRoots : RefTree[Top][n] \in Dirs
           /\ {p[1] : p \in NonDirs(RefTree)} = Settled
           /\ \A p \in NonDirs(RefTree) : p[2] \in FileInodes /\ RefData[p[2]] = Members[p[1]]
           /\ \A p, q \in NonDirs(RefTree) : p[2] = q[2] => p = q
           /\ pass = 1 => \A p \in Reachable(RefTree) :
                IF p[2] \in Dirs THEN <<p[1], <<p[2], 0>>>> \in directories
                ELSE <<p[1], <<p[2], 0>>>> \in snapshots
<1>1. PICK V, L : CoveredBy(V, L) BY DEF Covered
<1>2. /\ L \subseteq Reachable(RefTree) /\ {l[1] : l \in L} = Settled
      /\ \A l \in L : l[2] \in FileInodes /\ Len(l[1]) > 1 /\ RefData[l[2]] = Members[l[1]]
      /\ \A l, k \in L : l[2] = k[2] => l = k
  BY <1>1 DEF CoveredBy, FilesSettled
<1>3. \A v \in V : v[2] \in Dirs BY <1>1 DEF CoveredBy, DirsSettled
<1>4. \A l \in L : l[2] \notin Dirs BY <1>2, FileSystemAssumption
<1>5. Len(walk) = 1 /\ step = "entry" /\ walk[1].todo = {} /\ walk[1].dir = Top
  BY DEF AtEnd, here, ReadinessInv, WalkFits
<1>6. \A n \in PackageRoots : <<<<n>>, RefTree[Top][n]>> \in V \union L
  <2>1. Handled(1) = PackageRoots BY <1>5 DEF Handled, Listing, Busy, InHand
  <2>2. \A n \in PackageRoots : Passed(1, n) \in V \union L BY <1>1, <1>5, <2>1 DEF CoveredBy, Behind
  <2>3. PathTo(1) = <<>> BY DEF PathTo
  <2>4. \A n \in PackageRoots : Append(<<>>, n) = <<n>> OBVIOUS
  <2>5. \A n \in PackageRoots : Passed(1, n) = <<<<n>>, RefTree[Top][n]>> BY <1>5, <2>3, <2>4 DEF Passed
  <2> QED BY <2>2, <2>5
<1>7. Reachable(RefTree) \subseteq V \union L
  <2>1. Roots(RefTree) \subseteq V \union L BY <1>6 DEF Roots
  <2>2. DirsSettled(V, L, RefTree) BY <1>1 DEF CoveredBy
  <2> QED BY <1>4, <2>1, <2>2, AllSettled
<1>8. NonDirs(RefTree) = L BY <1>2, <1>3, <1>4, <1>7 DEF NonDirs
<1>9. ASSUME NEW n \in PackageRoots PROVE RefTree[Top][n] \in Dirs
  <2>1. PICK p : p = <<<<n>>, RefTree[Top][n]>> OBVIOUS
  <2>2. p \in V \union L /\ p[1] = <<n>> /\ p[2] = RefTree[Top][n] BY <1>6, <2>1
  <2>3. Len(<<n>>) = 1 OBVIOUS
  <2>4. ASSUME p \in L PROVE FALSE
    <3>1. Len(p[1]) > 1 BY <1>2, <2>4
    <3>2. Len(p[1]) = 1 BY <2>2, <2>3
    <3> QED BY <3>1, <3>2
  <2> QED BY <1>3, <2>2, <2>4
<1>10. ASSUME pass = 1, NEW p \in Reachable(RefTree)
       PROVE  IF p[2] \in Dirs THEN <<p[1], <<p[2], 0>>>> \in directories
              ELSE <<p[1], <<p[2], 0>>>> \in snapshots
  BY <1>1, <1>3, <1>4, <1>7, <1>10 DEF CoveredBy, Written
<1> QED BY <1>2, <1>8, <1>9, <1>10

LEMMA ReadyStep ==
    ASSUME ReadinessInv, Covered, ReadyMeansApproved, [ReadinessNext]_readinessVars
    PROVE  ReadyMeansApproved'
<1>1. SUFFICES ASSUME answer' = "ready" PROVE ReadyMeansApproved' BY DEF ReadyMeansApproved
<1>2. CASE UNCHANGED readinessVars BY <1>2 DEF readinessVars, ReadyMeansApproved
<1>3. Nil \notin Answers /\ Answers = {"ready", "mismatch", "over_limit", "unavailable"}
  BY FileSystemAssumption DEF Answers
<1>4. CASE Close
  <2>1. AtEnd /\ pass = 2 /\ UNCHANGED <<pass, between>> BY <1>4 DEF Close, Conclude
  <2>2. finalNames = DOMAIN Members /\ StampOf(Top) = here.opened BY <1>1, <1>4 DEF Close, Conclude
  <2>3. Len(walk) = 1 /\ step = "entry" /\ here = walk[1] BY <2>1 DEF AtEnd, here
  <2>4. Sure
    <3>1. walk[1].dir = Top /\ walk[1].before = walk[1].opened BY <2>3 DEF ReadinessInv, WalkFits
    <3>2. stamp[Top] = walk[1].before[2] BY <2>2, <2>3, <3>1 DEF StampOf
    <3>3. \A j \in 1 .. Len(walk) : j = 1 BY <2>3
    <3> QED BY <2>1, <3>1, <3>2, <3>3 DEF Sure, Intact
  <2>5. RefTree = between.entry /\ RefData = between.data /\ Settled = finalNames
    BY <2>1 DEF RefTree, RefData, Settled
  <2>6. Approved(between.entry, between.data) BY <2>1, <2>2, <2>4, <2>5, EndCovered DEF Approved
  <2> QED BY <2>1, <2>6 DEF ReadyMeansApproved
<1>5. CASE answer # Nil /\ ReadinessNext
  <2>1. UNCHANGED readinessVars
    BY <1>5 DEF ReadinessNext, Installer, Rewrite, Bind, Touch, Verifier, GiveUp, Answered
  <2> QED BY <1>2, <2>1
<1>6. CASE answer = Nil /\ ReadinessNext /\ ~ Close
  <2>1. answer' # "ready"
    <3>1. ASSUME NEW how, Conclude(how), how \in {"mismatch", "over_limit", "unavailable"}
          PROVE  answer' # "ready"
      BY <3>1 DEF Conclude
    <3>2. "mismatch" \in {"mismatch", "over_limit", "unavailable"} /\ "over_limit" \in {"mismatch", "over_limit", "unavailable"}
          /\ "unavailable" \in {"mismatch", "over_limit", "unavailable"}
      OBVIOUS
    <3>3. UNCHANGED answer => answer' # "ready" BY <1>3, <1>6
    <3>4. Installer => UNCHANGED answer BY DEF Installer, Rewrite, Bind, Touch
    <3>5. GiveUp => answer' # "ready" BY <3>1, <3>2 DEF GiveUp
    <3>6. ASSUME NEW n, Look(n) PROVE answer' # "ready" BY <3>1, <3>2, <3>3, <3>6 DEF Look
    <3>7. Open => answer' # "ready" BY <3>1, <3>2, <3>3 DEF Open
    <3>8. Enter => answer' # "ready" BY <3>1, <3>2, <3>3 DEF Enter
    <3>9. Read \/ Verify => answer' # "ready" BY <3>1, <3>2, <3>3 DEF Read, Verify
    <3>10. Confirm => answer' # "ready" BY <3>1, <3>2, <3>3 DEF Confirm
    <3>11. Finish \/ Leave => answer' # "ready" BY <3>1, <3>2, <3>3 DEF Finish, Leave
    <3>12. Turn => answer' # "ready" BY <3>1, <3>2, <3>3 DEF Turn
    <3>13. Begin \/ List \/ Answered => UNCHANGED answer BY DEF Begin, List, Answered, readinessVars
    <3> QED
      BY <1>6, <3>3, <3>4, <3>5, <3>6, <3>7, <3>8, <3>9, <3>10, <3>11, <3>12, <3>13 DEF ReadinessNext, Verifier
  <2> QED BY <1>1, <2>1
<1> QED BY <1>2, <1>4, <1>5, <1>6

\* verify_artifact_readiness says ready only of an installation that was the
\* approved one, as a whole, when its second pass began.
THEOREM ReadyIsApproved == ReadinessSpec => []ReadyMeansApproved
<1>1. ReadinessInit => ReadyMeansApproved
  BY FileSystemAssumption DEF ReadinessInit, ReadyMeansApproved, Answers
<1>2. ReadinessInv /\ Covered /\ ReadyMeansApproved /\ [ReadinessNext]_readinessVars => ReadyMeansApproved'
  BY ReadyStep
<1> QED BY <1>1, <1>2, ReadinessInvariant, CoveredInvariant, PTL DEF ReadinessSpec

-----------------------------------------------------------------------------
(* An installation nobody touches                                            *)

\* As long as nothing has changed, both passes are about what is there.
LEMMA CalmTree ==
    ASSUME ReadinessInv, clock = 0
    PROVE  Sure /\ RefTree = entry /\ RefData = data
<1> USE DEF ReadinessInv
<1>1. Sure BY DEF Sure
<1>2. CASE pass # 2 BY <1>1, <1>2 DEF RefTree, RefData
<1>3. CASE pass = 2
  <2>1. /\ between.entry \in [Dirs -> [Names -> Entry]] /\ between.data \in [FileInodes -> Contents]
        /\ between.clock \in Nat
    BY <1>3, FileSystemAssumption DEF ReadinessTypeOK
  <2>2. \A i \in Inodes : stamp[i] <= between.clock
    <3>1. \A i \in Inodes : stamp[i] \in Nat /\ stamp[i] <= 0
      BY FileSystemAssumption DEF Clocked, ReadinessTypeOK
    <3> QED BY <2>1, <3>1
  <2>3. \A d \in Dirs : entry[d] = between.entry[d] BY <1>3, <2>2 DEF Unmoved, Inodes
  <2>4. \A i \in FileInodes : data[i] = between.data[i] BY <1>3, <2>2 DEF Unmoved, Inodes
  <2>5. entry = between.entry BY <2>1, <2>3 DEF ReadinessTypeOK
  <2>6. data = between.data BY <2>1, <2>4 DEF ReadinessTypeOK
  <2> QED BY <1>1, <1>3, <2>5, <2>6 DEF RefTree, RefData
<1> QED BY <1>2, <1>3

\* Then the second pass finds all it looks for in what the first has noted.
Again ==
    pass = 2 /\ clock = 0 =>
      \A p \in Reachable(entry) : IF p[2] \in Dirs THEN <<p[1], <<p[2], 0>>>> \in directories
                                  ELSE <<p[1], <<p[2], 0>>>> \in snapshots

LEMMA AgainStep ==
    ASSUME ReadinessInv, Covered, Again, [ReadinessNext]_readinessVars
    PROVE  Again'
<1> USE DEF ReadinessInv
<1>1. SUFFICES ASSUME pass' = 2, clock' = 0 PROVE Again' BY DEF Again
<1>2. Installer \/ Stays \/ Proceeds BY EveryStep DEF FileFits
<1>3. ~ Installer
  <2> SUFFICES ASSUME Installer PROVE FALSE OBVIOUS
  <2>1. clock' = clock + 1 /\ clock \in Nat BY InstallerInstalls, FileSystemAssumption DEF Installs, ReadinessTypeOK
  <2> QED BY <1>1, <2>1
<1>4. UNCHANGED <<entry, clock>>
  BY <1>2, <1>3 DEF Stays, Proceeds, Begin, LooksUp, OpensFile, StepsInto, Enters, List, ReadsOn, ReadsAll, Verifies,
     Confirms, Finishes, StepsOut, Turns, fileSystem
<1>5. CASE Turns
  <2>1. AtEnd /\ pass = 1 /\ UNCHANGED <<snapshots, directories>> BY <1>5 DEF Turns
  <2>2. Sure /\ RefTree = entry BY <1>1, <1>4, CalmTree
  <2>3. \A p \in Reachable(entry) : IF p[2] \in Dirs THEN <<p[1], <<p[2], 0>>>> \in directories
                                    ELSE <<p[1], <<p[2], 0>>>> \in snapshots
    BY <2>1, <2>2, EndCovered
  <2> QED BY <1>4, <2>1, <2>3 DEF Again
<1>6. CASE ~ Turns
  <2>1. pass = 2 /\ snapshots \subseteq snapshots' /\ directories \subseteq directories'
    BY <1>1, <1>2, <1>3, <1>6 DEF Stays, Proceeds, Begin, LooksUp, OpensFile, StepsInto, Enters, List, ReadsOn, ReadsAll,
       Verifies, Confirms, Finishes, StepsOut, noted
  <2> QED BY <1>1, <1>4, <2>1 DEF Again
<1> QED BY <1>5, <1>6

\* A name that is being dealt with is not one still to do, those to do are there,
\* and the entry in hand is where it was.
Planned ==
    clock = 0 =>
      /\ \A j \in 1 .. Len(walk) : Busy(j) \intersect walk[j].todo = {}
      /\ \A j \in 2 .. Len(walk) : walk[j].todo \subseteq Bound(entry, walk[j].dir)
      /\ InHand => entry[here.dir][file.name] = file.ino

LEMMA PlannedStep ==
    ASSUME ReadinessInv, Planned, [ReadinessNext]_readinessVars
    PROVE  Planned'
<1> USE DEF ReadinessInv
<1>1. SUFFICES ASSUME clock' = 0 PROVE Planned' BY DEF Planned
<1>2. Installer \/ Stays \/ Proceeds BY EveryStep DEF FileFits
<1>3. ~ Installer
  <2> SUFFICES ASSUME Installer PROVE FALSE OBVIOUS
  <2>1. clock' = clock + 1 /\ clock \in Nat BY InstallerInstalls, FileSystemAssumption DEF Installs, ReadinessTypeOK
  <2> QED BY <1>1, <2>1
<1>4. UNCHANGED <<entry, clock>>
  BY <1>2, <1>3 DEF Stays, Proceeds, Begin, LooksUp, OpensFile, StepsInto, Enters, List, ReadsOn, ReadsAll, Verifies,
     Confirms, Finishes, StepsOut, Turns, fileSystem
<1>5. PICK m \in Nat : m = Len(walk) BY TypedWalk
<1>6. /\ \A j \in 1 .. m : Busy(j) \intersect walk[j].todo = {}
      /\ \A j \in 2 .. m : walk[j].todo \subseteq Bound(entry, walk[j].dir)
      /\ InHand => entry[here.dir][file.name] = file.ino
      /\ here = walk[m]
  BY <1>1, <1>4, <1>5 DEF Planned, here
<1>7. ASSUME UNCHANGED walk, InHand' => InHand /\ UNCHANGED <<file>> PROVE Planned'
  <2>1. \A j \in 1 .. m : Busy(j)' \subseteq Busy(j) BY <1>5, <1>7 DEF Busy
  <2> QED BY <1>4, <1>5, <1>6, <1>7, <2>1 DEF Planned, here
<1>8. CASE Stays \/ OpensFile \/ ReadsAll \/ Verifies \/ Confirms \/ Finishes
  <2>1. UNCHANGED walk /\ (InHand' => InHand /\ UNCHANGED file)
    BY <1>8 DEF Stays, OpensFile, ReadsAll, Verifies, Confirms, Finishes, InHand
  <2> QED BY <1>7, <2>1
<1>9. CASE ReadsOn
  <2>1. /\ UNCHANGED walk /\ InHand /\ InHand' /\ file'.name = file.name /\ file'.ino = file.ino
    BY <1>9 DEF ReadsOn, InHand, ReadinessTypeOK
  <2>2. \A j \in 1 .. m : Busy(j)' = Busy(j) BY <1>5, <2>1 DEF Busy
  <2> QED BY <1>4, <1>5, <1>6, <2>1, <2>2 DEF Planned, here
<1>10. CASE Begin
  <2>1. Len(walk') = 1 /\ step' = "entry" BY <1>10 DEF Begin
  <2>2. Busy(1)' = {} BY <2>1 DEF Busy, InHand
  <2> QED BY <2>1, <2>2 DEF Planned, InHand
<1>11. ASSUME NEW n \in Names, LooksUp(n) PROVE Planned'
  <2>1. SameWay /\ NowToDo(here.todo \ {n}) /\ step = "entry" /\ step' = "open"
        /\ file'.name = n /\ file'.ino = entry[here.dir][n]
    BY <1>11, WayKept DEF LooksUp, Proceeds
  <2>2. Len(walk') = m /\ \A j \in 1 .. m : walk'[j].dir = walk[j].dir /\ walk'[j].name = walk[j].name
    BY <1>5, <2>1 DEF SameWay
  <2>3. \A j \in 1 .. m : walk'[j].todo = (IF j = m THEN here.todo \ {n} ELSE walk[j].todo)
    BY <1>5, <2>1 DEF NowToDo
  <2>4. \A j \in 1 .. m : j # m => Busy(j)' = Busy(j)
    <3>1. ASSUME NEW j \in 1 .. m, j # m PROVE Busy(j)' = Busy(j)
      <4>1. j < m /\ j + 1 \in 1 .. m BY <3>1
      <4> QED BY <1>5, <2>2, <4>1 DEF Busy
    <3> QED BY <3>1
  <2>5. m \in 1 .. m => Busy(m)' = {n} BY <1>5, <2>1, <2>2 DEF Busy, InHand
  <2>6. \A j \in 1 .. m : Busy(j)' \intersect walk'[j].todo = {} BY <1>6, <2>3, <2>4, <2>5
  <2>7. \A j \in 2 .. m : walk'[j].todo \subseteq Bound(entry, walk'[j].dir) BY <1>6, <2>2, <2>3
  <2>8. walk # <<>> BY <2>1 DEF ReadinessTypeOK
  <2>9. m \in 1 .. m BY <1>5, <2>8, TypedWalk, EmptySeq
  <2>10. here'.dir = here.dir BY <1>6, <2>2, <2>9 DEF here
  <2> QED BY <1>4, <2>1, <2>2, <2>6, <2>7, <2>10 DEF Planned
<1>12. CASE Enters \/ List \/ Turns
  <2>1. /\ SameWay /\ ~ InHand /\ ~ InHand'
        /\ Enters => NowToDo(here.todo)
        /\ List => NowToDo(Bound(entry, here.dir))
        /\ Turns => NowToDo(PackageRoots) /\ m = 1
    BY <1>5, <1>12, WayKept DEF Enters, List, Turns, AtEnd, InHand, Proceeds
  <2>2. Len(walk') = m /\ \A j \in 1 .. m : walk'[j].dir = walk[j].dir /\ walk'[j].name = walk[j].name
    BY <1>5, <2>1 DEF SameWay
  <2>3. \A j \in 1 .. m : j # m => walk'[j].todo = walk[j].todo /\ Busy(j)' = Busy(j)
    <3>1. ASSUME NEW j \in 1 .. m, j # m PROVE walk'[j].todo = walk[j].todo /\ Busy(j)' = Busy(j)
      <4>1. j < m /\ j + 1 \in 1 .. m BY <3>1
      <4> QED BY <1>5, <1>12, <2>1, <2>2, <4>1 DEF Busy, NowToDo
    <3> QED BY <3>1
  <2>4. m \in 1 .. m => Busy(m)' = {} BY <1>5, <2>1, <2>2 DEF Busy
  <2>5. m \in 2 .. m => walk'[m].todo \subseteq Bound(entry, walk[m].dir)
    BY <1>5, <1>6, <1>12, <2>1 DEF NowToDo
  <2>6. \A j \in 1 .. m : Busy(j)' \intersect walk'[j].todo = {} BY <1>6, <2>3, <2>4
  <2>7. \A j \in 2 .. m : walk'[j].todo \subseteq Bound(entry, walk'[j].dir) BY <1>6, <2>2, <2>3, <2>5
  <2> QED BY <1>4, <2>1, <2>2, <2>6, <2>7 DEF Planned
<1>13. CASE StepsInto
  <2>1. /\ Len(walk') = m + 1 /\ \A j \in 1 .. m : walk'[j] = walk[j]
        /\ walk'[m + 1].name = file.name /\ walk'[m + 1].todo = {} /\ step = "open" /\ step' = "enter"
    BY <1>5, <1>13, WayLonger DEF StepsInto
  <2>2. \A j \in 1 .. m : Busy(j)' = Busy(j)
    <3>1. ASSUME NEW j \in 1 .. m PROVE Busy(j)' = Busy(j)
      <4>1. Busy(j)' = {walk'[j + 1].name} BY <2>1 DEF Busy
      <4>2. CASE j < m
        <5>1. walk'[j + 1] = walk[j + 1] BY <2>1, <4>2
        <5> QED BY <1>5, <4>1, <4>2, <5>1 DEF Busy
      <4>3. CASE j = m
        <5>1. Busy(j) = {file.name} BY <1>5, <2>1, <4>3 DEF Busy, InHand
        <5> QED BY <2>1, <4>1, <4>3, <5>1
      <4> QED BY <4>2, <4>3
    <3> QED BY <3>1
  <2>3. \A j \in 1 .. m + 1 : Busy(j)' \intersect walk'[j].todo = {}
    <3>1. \A j \in 1 .. m + 1 : j \in 1 .. m \/ j = m + 1 OBVIOUS
    <3> QED BY <1>6, <2>1, <2>2, <3>1
  <2>4. \A j \in 2 .. m + 1 : walk'[j].todo \subseteq Bound(entry, walk'[j].dir)
    <3>1. \A j \in 2 .. m + 1 : j \in 2 .. m \/ j = m + 1 OBVIOUS
    <3>2. \A j \in 2 .. m : j \in 1 .. m OBVIOUS
    <3> QED BY <1>6, <2>1, <3>1, <3>2
  <2> QED BY <1>4, <2>1, <2>3, <2>4 DEF Planned, InHand
<1>14. CASE StepsOut
  <2>1. m >= 2 /\ Len(walk') = m - 1 /\ \A j \in 1 .. m - 1 : walk'[j] = walk[j] /\ step' = "entry"
    BY <1>5, <1>14, WayShorter DEF StepsOut
  <2>2. step' = "entry" BY <1>14 DEF StepsOut
  <2>3. \A j \in 1 .. m - 1 : Busy(j)' \subseteq Busy(j)
    <3>1. ASSUME NEW j \in 1 .. m - 1 PROVE Busy(j)' \subseteq Busy(j)
      <4>1. CASE j < m - 1
        <5>1. walk'[j + 1] = walk[j + 1] BY <2>1, <4>1
        <5> QED BY <1>5, <2>1, <4>1, <5>1 DEF Busy
      <4>2. CASE j = m - 1 BY <2>1, <2>2, <4>2 DEF Busy, InHand
      <4> QED BY <2>1, <4>1, <4>2
    <3> QED BY <3>1
  <2>4. \A j \in 1 .. m - 1 : j \in 1 .. m /\ (j \in 2 .. m - 1 => j \in 2 .. m) BY <2>1
  <2>5. \A j \in 1 .. m - 1 : Busy(j)' \intersect walk'[j].todo = {} BY <1>6, <2>1, <2>3, <2>4
  <2>6. \A j \in 2 .. m - 1 : walk'[j].todo \subseteq Bound(entry, walk'[j].dir)
    <3>1. \A j \in 2 .. m - 1 : j \in 1 .. m - 1 OBVIOUS
    <3> QED BY <1>6, <2>1, <2>4, <3>1
  <2> QED BY <1>4, <2>1, <2>2, <2>5, <2>6 DEF Planned, InHand
<1> QED BY <1>2, <1>3, <1>8, <1>9, <1>10, <1>11, <1>12, <1>13, <1>14 DEF Proceeds

\* What has an index in a finite set is finite.
LEMMA IndexedFinite ==
    ASSUME NEW S, IsFiniteSet(S), NEW f, NEW T, \A t \in T : \E s \in S : f[s] = t
    PROVE  IsFiniteSet(T)
<1>1. CASE T = {} BY <1>1, FS_EmptySet
<1>2. CASE T # {}
  <2>1. PICK any \in T : TRUE BY <1>2
  <2> DEFINE g == [s \in S |-> IF f[s] \in T THEN f[s] ELSE any]
  <2>2. g \in [S -> T] BY <2>1
  <2>3. \A t \in T : \E s \in S : g[s] = t OBVIOUS
  <2>4. g \in Surjection(S, T) BY <2>2, <2>3 DEF Surjection
  <2> QED BY <2>4, FS_Surjection
<1> QED BY <1>1, <1>2

LEMMA BelowFinite ==
    ASSUME NEW tree, NEW level, IsFiniteSet(level)
    PROVE  IsFiniteSet(Below(tree, level))
<1> DEFINE S == level \X Names
           f == [s \in S |-> <<Append(s[1][1], s[2]), tree[s[1][2]][s[2]]>>]
<1>1. IsFiniteSet(S) BY FileSystemAssumption, FS_Product
<1>2. ASSUME NEW t \in Below(tree, level) PROVE \E s \in S : f[s] = t
  <2>1. PICK p \in level : \E n \in Bound(tree, p[2]) : t = <<Append(p[1], n), tree[p[2]][n]>>
    BY DEF Below
  <2>4. PICK n \in Bound(tree, p[2]) : t = <<Append(p[1], n), tree[p[2]][n]>> BY <2>1
  <2>2. PICK s : s = <<p, n>> OBVIOUS
  <2>3. s \in S /\ s[1] = p /\ s[2] = n BY <2>2 DEF Bound
  <2> QED BY <2>4, <2>3
<1> HIDE DEF S, f
<1> QED BY <1>1, <1>2, IndexedFinite

\* There are only so many entries below the package roots.
LEMMA FewReachable == ASSUME NEW tree PROVE IsFiniteSet(Reachable(tree))
<1> DEFINE Endless == {k \in 0 .. Deepest : ~ IsFiniteSet(Levels(tree)[k])}
<1>1. Deepest \in Nat BY LevelsAre
<1>2. Endless = {}
  <2>1. SUFFICES ASSUME Endless # {} PROVE FALSE OBVIOUS
  <2>2. Endless \subseteq Nat BY <1>1
  <2>3. PICK k \in Endless : \A j \in Endless : k <= j
    <3> HIDE DEF Endless
    <3> QED BY <2>1, <2>2, LeastNumber
  <2>4. CASE k = 0
    <3>1. IsFiniteSet(PackageRoots) BY FileSystemAssumption, FS_Subset
    <3> DEFINE f == [n \in PackageRoots |-> <<<<n>>, tree[Top][n]>>]
    <3>2. \A t \in Roots(tree) : \E n \in PackageRoots : f[n] = t BY DEF Roots
    <3> HIDE DEF f
    <3>3. IsFiniteSet(Roots(tree)) BY <3>1, <3>2, IndexedFinite
    <3> QED BY <2>4, <3>3, LevelsAre
  <2>5. CASE k # 0
    <3>1. k \in 1 .. Deepest /\ k - 1 \in 0 .. Deepest /\ k - 1 < k BY <1>1, <2>5
    <3>2. IsFiniteSet(Levels(tree)[k - 1]) BY <2>2, <2>3, <3>1
    <3>3. Levels(tree)[k] = Below(tree, Levels(tree)[k - 1]) BY <3>1, LevelsAre
    <3> QED BY <3>2, <3>3, BelowFinite
  <2> QED BY <2>4, <2>5
<1>3. Reachable(tree) = UNION {Levels(tree)[k] : k \in 0 .. Deepest} BY DEF Reachable
<1> DEFINE All == {Levels(tree)[k] : k \in 0 .. Deepest}
           f == [k \in 0 .. Deepest |-> Levels(tree)[k]]
<1>4. IsFiniteSet(0 .. Deepest) BY <1>1, FS_Interval
<1>5. \A t \in All : \E k \in 0 .. Deepest : f[k] = t OBVIOUS
<1>6. \A t \in All : IsFiniteSet(t) BY <1>2
<1> HIDE DEF All, f
<1>7. IsFiniteSet(All) BY <1>4, <1>5, IndexedFinite
<1>8. IsFiniteSet(UNION All) BY <1>6, <1>7, FS_UNION
<1> QED BY <1>3, <1>8 DEF All

\* q leads through the directory of frame j.
Through(j, q) == Len(q) >= j /\ \A k \in 1 .. (j - 1) : q[k] = walk[k + 1].name

\* The names of frame j that may yet be looked up.
Ahead(j) == IF j = Len(walk) /\ step \in {"enter", "list"} THEN Names ELSE walk[j].todo

\* E is what the pass has looked up: <<path, inode>>.  It is there, it was
\* counted, and nothing of it is at or below a name that is ahead, nor below the
\* entry in hand.
LookedAt(E) ==
    /\ E \subseteq Reachable(entry) /\ \A e \in E : e[1] \in Seq(Names)
    /\ entries = Cardinality({e \in E : Len(e[1]) > 1})
    /\ \A i \in identities : \E e \in E : e[2] = i
    /\ \A e \in E : \A j \in 1 .. Len(walk) : Through(j, e[1]) => e[1][j] \notin Ahead(j)
    /\ InHand => /\ <<Path(file.name), file.ino>> \in E
                 /\ \A e \in E : Through(Len(walk), e[1]) /\ e[1][Len(walk)] = file.name
                                   => Len(e[1]) = Len(walk)

Counted == clock = 0 => \E E : LookedAt(E)

\* Steps that look nothing up and enter nothing leave less ahead.
LEMMA StillCounted ==
    ASSUME ReadinessInv, NEW E, LookedAt(E), UNCHANGED <<entry, entries>>,
           \A i \in identities' : i \in identities \/ (InHand /\ i = file.ino),
           Len(walk') <= Len(walk), Len(walk') \in Nat,
           \A j \in 1 .. Len(walk') : walk'[j].name = walk[j].name /\ Ahead(j)' \subseteq Ahead(j),
           InHand' => InHand /\ walk' = walk /\ file'.name = file.name /\ file'.ino = file.ino
    PROVE  LookedAt(E)'
<1>1. Len(walk) \in Nat BY TypedWalk DEF ReadinessInv
<1>2. /\ E \subseteq Reachable(entry') /\ \A e \in E : e[1] \in Seq(Names)
      /\ entries' = Cardinality({e \in E : Len(e[1]) > 1})
  BY DEF LookedAt
<1>3. \A i \in identities' : \E e \in E : e[2] = i
  <2>1. ASSUME InHand PROVE \E e \in E : e[2] = file.ino
    <3>1. PICK e : e = <<Path(file.name), file.ino>> OBVIOUS
    <3> QED BY <2>1, <3>1 DEF LookedAt
  <2> QED BY <2>1 DEF LookedAt
<1>4. ASSUME NEW e \in E, NEW j \in 1 .. Len(walk'), Through(j, e[1])'
      PROVE  e[1][j] \notin Ahead(j)'
  <2>1. j \in 1 .. Len(walk) BY <1>1
  <2>2. \A k \in 1 .. (j - 1) : k + 1 \in 1 .. Len(walk') OBVIOUS
  <2>3. Len(e[1]) >= j /\ \A k \in 1 .. (j - 1) : e[1][k] = walk'[k + 1].name BY <1>4 DEF Through
  <2>4. Through(j, e[1]) BY <2>2, <2>3 DEF Through
  <2>5. e[1][j] \notin Ahead(j) BY <2>1, <2>4 DEF LookedAt
  <2> QED BY <2>5
<1>5. ASSUME InHand'
      PROVE  /\ <<Path(file.name)', file'.ino>> \in E
             /\ \A e \in E : Through(Len(walk), e[1])' /\ e[1][Len(walk')] = file'.name
                               => Len(e[1]) = Len(walk')
  <2>1. InHand /\ walk' = walk /\ file'.name = file.name /\ file'.ino = file.ino BY <1>5
  <2>2. Path(file.name)' = Path(file.name) BY <2>1 DEF Path
  <2>3. \A e \in E : Through(Len(walk), e[1])' = Through(Len(walk), e[1]) BY <2>1 DEF Through
  <2> QED BY <2>1, <2>2, <2>3 DEF LookedAt
<1> QED BY <1>2, <1>3, <1>4, <1>5 DEF LookedAt

\* A pass begins with nothing looked up.
LEMMA CountedAtFirst ==
    ASSUME entries' = 0, identities' = {}, ~ InHand'
    PROVE  Counted'
<1>1. {e \in {} : Len(e[1]) > 1} = {} /\ Cardinality({}) = 0 BY FS_EmptySet
<1>2. LookedAt({})' BY <1>1 DEF LookedAt
<1> QED BY <1>2 DEF Counted

\* What is looked up next was not looked up before.
LEMMA NotYetLookedAt ==
    ASSUME ReadinessInv, NEW E, LookedAt(E), step = "entry", NEW n \in here.todo
    PROVE  /\ Path(n) \in Seq(Names) /\ Len(Path(n)) = Len(walk) /\ Path(n)[Len(walk)] = n
           /\ \A k \in 1 .. (Len(walk) - 1) : Path(n)[k] = walk[k + 1].name
           /\ \A e \in E : Through(Len(walk), e[1]) => e[1][Len(walk)] # n
           /\ \A e \in E : e[1] # Path(n)
<1> USE DEF ReadinessInv
<1>0. PICK m \in Nat : m = Len(walk) BY TypedWalk
<1>1. m \in 1 .. m /\ here \in Frames /\ n \in Names
  BY <1>0, TypedWalk, EmptySeq DEF ReadinessTypeOK, Frames
<1>2. PathTo(m) \in Seq(Names) /\ Len(PathTo(m)) = m - 1 /\ Path(n) = Append(PathTo(m), n)
  BY <1>0, <1>1, PathsTyped
<1>3. /\ Path(n) \in Seq(Names) /\ Len(Path(n)) = m /\ Path(n)[m] = n
      /\ \A k \in 1 .. (m - 1) : Path(n)[k] = PathTo(m)[k]
  BY <1>1, <1>2, AppendProperties
<1>4. \A k \in 1 .. (m - 1) : PathTo(m)[k] = walk[k + 1].name BY DEF PathTo
<1>5. Ahead(m) = here.todo BY <1>0 DEF Ahead, here
<1>6. \A e \in E : Through(m, e[1]) => e[1][m] # n BY <1>0, <1>1, <1>5 DEF LookedAt
<1>7. Through(m, Path(n)) BY <1>3, <1>4 DEF Through
<1> QED BY <1>0, <1>3, <1>4, <1>6, <1>7

LEMMA LookCounted ==
    ASSUME ReadinessInv, Covered, Planned, Counted, clock = 0, NEW n \in Names, LooksUp(n)
    PROVE  Counted'
<1> USE DEF ReadinessInv
<1>1. PICK E : LookedAt(E) BY DEF Counted
<1>2. PICK m \in Nat : m = Len(walk) BY TypedWalk
<1>3. step = "entry" /\ step' = "open" /\ n \in here.todo /\ ~ Unacceptable(n, entry[here.dir][n])
      /\ file'.name = n /\ file'.ino = entry[here.dir][n] /\ UNCHANGED <<entry, identities>>
  BY DEF LooksUp, fileSystem
<1>4. m \in 1 .. m BY <1>2, <1>3, TypedWalk, EmptySeq DEF ReadinessTypeOK
<1>5. SameWay /\ NowToDo(here.todo \ {n}) BY WayKept DEF Proceeds
<1>6. /\ Path(n) \in Seq(Names) /\ Len(Path(n)) = m /\ Path(n)[m] = n
      /\ \A k \in 1 .. (m - 1) : Path(n)[k] = walk[k + 1].name
      /\ \A e \in E : Through(m, e[1]) => e[1][m] # n
      /\ \A e \in E : e[1] # Path(n)
  BY <1>1, <1>2, <1>3, NotYetLookedAt
<1>7. PICK new : new = <<Path(n), entry[here.dir][n]>> OBVIOUS
<1>8. new[1] = Path(n) /\ new[2] = entry[here.dir][n] BY <1>7
<1>9. new \in Reachable(entry)
  <2>1. Chained /\ RefTree = entry BY CalmTree DEF Covered
  <2>2. entry[here.dir][n] # Nil BY <1>3 DEF Unacceptable
  <2>3. m - 1 <= MaxDepth BY <1>2, <1>3, FileSystemAssumption DEF WalkFits
  <2>4. m = 1 => n \in PackageRoots BY <1>2, <1>3 DEF WalkFits, here
  <2>5. new \in Levels(entry)[m - 1] BY <1>2, <1>3, <1>7, <2>1, <2>2, <2>3, <2>4, OnNextLevel
  <2>6. m - 1 \in Nat /\ m - 1 <= Deepest BY <1>4, <2>3, LevelsAre, FileSystemAssumption
  <2> QED BY <2>5, <2>6, LevelReached
<1>21. PICK All : All = E \union {new} OBVIOUS
<1>10. entries' = Cardinality({e \in All : Len(e[1]) > 1})
  <2> DEFINE Deep == {e \in E : Len(e[1]) > 1}
  <2>1. entries = Cardinality(Deep) BY <1>1 DEF LookedAt
  <2>2. IsFiniteSet(Deep) BY <1>1, FewReachable, FS_Subset DEF LookedAt
  <2>3. new \notin Deep BY <1>6, <1>8
  <2>4. entries' = (IF m = 1 THEN entries ELSE entries + 1) BY <1>2 DEF LooksUp
  <2>5. CASE m = 1
    <3>3. Len(new[1]) = 1 BY <1>6, <1>8, <2>5
    <3>2. ~ (Len(new[1]) > 1) BY <3>3
    <3>1. {e \in All : Len(e[1]) > 1} = Deep BY <1>21, <3>2
    <3> QED BY <2>1, <2>4, <2>5, <3>1
  <2>6. CASE m # 1
    <3>1. Len(new[1]) > 1 BY <1>4, <1>6, <1>8, <2>6
    <3>2. {e \in All : Len(e[1]) > 1} = Deep \union {new} BY <1>21, <3>1
    <3> HIDE DEF Deep
    <3>3. Cardinality(Deep \union {new}) = Cardinality(Deep) + 1 BY <2>2, <2>3, FS_AddElement
    <3> QED BY <2>1, <2>4, <2>6, <3>2, <3>3
  <2> QED BY <2>5, <2>6
<1>11. Len(walk') = m /\ \A j \in 1 .. m : walk'[j].name = walk[j].name
  BY <1>2, <1>5 DEF SameWay
<1>12. \A j \in 1 .. m : \A q : Through(j, q)' => Through(j, q)
  <2>1. \A j \in 1 .. m : \A k \in 1 .. (j - 1) : k + 1 \in 1 .. m OBVIOUS
  <2> QED BY <1>11, <2>1 DEF Through
<1>13. \A j \in 1 .. m : Ahead(j)' = IF j = m THEN here.todo \ {n} ELSE walk[j].todo
  BY <1>2, <1>3, <1>5, <1>11 DEF Ahead, NowToDo
<1>14. ASSUME NEW e \in All, NEW j \in 1 .. m, Through(j, e[1])' PROVE e[1][j] \notin Ahead(j)'
  <2>1. Through(j, e[1]) BY <1>12, <1>14
  <2>2. CASE e \in E
    <3>1. e[1][j] \notin Ahead(j) BY <1>1, <1>2, <2>1, <2>2 DEF LookedAt
    <3>2. Ahead(j)' \subseteq Ahead(j) BY <1>2, <1>3, <1>13 DEF Ahead, here
    <3> QED BY <3>1, <3>2
  <2>3. CASE e = new
    <3>1. CASE j = m BY <1>6, <1>8, <1>13, <2>3, <3>1
    <3>2. CASE j # m
      <4>1. j < m /\ j \in 1 .. (m - 1) BY <3>2
      <4>2. e[1][j] = walk[j + 1].name BY <1>6, <1>8, <2>3, <4>1
      <4>3. Busy(j) = {walk[j + 1].name} BY <1>2, <4>1 DEF Busy
      <4>4. Busy(j) \intersect walk[j].todo = {} BY <1>2 DEF Planned
      <4> QED BY <1>13, <3>2, <4>2, <4>3, <4>4
    <3> QED BY <3>1, <3>2
  <2> QED BY <1>21, <2>2, <2>3
<1>15. Path(file.name)' = Path(n) /\ <<Path(n), file'.ino>> = new
  <2>1. Path(file.name)' = Path(n)
    <3>1. \A k \in 1 .. m - 1 : k + 1 \in 1 .. m OBVIOUS
    <3>2. [k \in 1 .. m - 1 |-> walk'[k + 1].name] = [k \in 1 .. m - 1 |-> walk[k + 1].name]
      BY <1>11, <3>1
    <3> QED BY <1>2, <1>3, <1>11, <3>2 DEF Path
  <2> QED BY <1>3, <1>7, <2>1
<1>16. \A e \in All : Through(m, e[1])' /\ e[1][m] = n => Len(e[1]) = m
  BY <1>4, <1>6, <1>8, <1>12, <1>21
<1>17. All \subseteq Reachable(entry) /\ \A e \in All : e[1] \in Seq(Names)
  BY <1>1, <1>6, <1>8, <1>9, <1>21 DEF LookedAt
<1>18. \A i \in identities : \E e \in All : e[2] = i BY <1>1, <1>21 DEF LookedAt
<1>19. <<Path(file.name), file.ino>>' \in All BY <1>15, <1>21
<1>20. LookedAt(All)' BY <1>3, <1>10, <1>11, <1>14, <1>16, <1>17, <1>18, <1>19 DEF LookedAt
<1> QED BY <1>20 DEF Counted

\* Below a directory that is entered nothing was looked up.
LEMMA IntoCounted ==
    ASSUME ReadinessInv, Counted, clock = 0, StepsInto
    PROVE  Counted'
<1> USE DEF ReadinessInv
<1>1. PICK E : LookedAt(E) BY DEF Counted
<1>2. PICK m \in Nat : m = Len(walk) BY TypedWalk
<1>3. /\ Len(walk') = m + 1 /\ \A j \in 1 .. m : walk'[j] = walk[j]
      /\ walk'[m + 1].name = file.name /\ step = "open" /\ step' = "enter" /\ InHand /\ ~ InHand'
      /\ UNCHANGED <<entry, entries, identities>>
  BY <1>2, WayLonger DEF StepsInto, InHand, fileSystem, noted
<1>4. m \in 1 .. m BY <1>2, <1>3, TypedWalk, EmptySeq DEF ReadinessTypeOK
<1>5. ASSUME NEW e \in E, NEW j \in 1 .. m + 1, Through(j, e[1])' PROVE e[1][j] \notin Ahead(j)'
  <2>1. Len(e[1]) >= j /\ \A k \in 1 .. (j - 1) : e[1][k] = walk'[k + 1].name BY <1>5 DEF Through
  <2>2. CASE j \in 1 .. m
    <3>1. \A k \in 1 .. (j - 1) : k + 1 \in 1 .. m BY <2>2
    <3>2. Through(j, e[1]) BY <1>3, <2>1, <3>1 DEF Through
    <3>3. e[1][j] \notin Ahead(j) BY <1>1, <1>2, <2>2, <3>2 DEF LookedAt
    <3>4. Ahead(j)' = walk[j].todo /\ Ahead(j) = walk[j].todo BY <1>2, <1>3, <2>2 DEF Ahead
    <3> QED BY <3>3, <3>4
  <2>3. CASE j = m + 1
    <3>1. \A k \in 1 .. (m - 1) : k \in 1 .. (j - 1) /\ k + 1 \in 1 .. m BY <2>3
    <3>2. Len(e[1]) \in Nat BY <1>1 DEF LookedAt
    <3>3. Len(e[1]) >= m BY <2>1, <2>3, <3>2
    <3>4. Through(m, e[1]) BY <1>3, <2>1, <3>1, <3>3 DEF Through
    <3>5. e[1][m] = file.name BY <1>3, <1>4, <2>1, <2>3
    <3>6. Len(e[1]) = m BY <1>1, <1>2, <1>3, <3>4, <3>5 DEF LookedAt
    <3> QED BY <2>1, <2>3, <3>6
  <2> QED BY <2>2, <2>3
<1>6. LookedAt(E)' BY <1>1, <1>3, <1>5 DEF LookedAt
<1> QED BY <1>6 DEF Counted

LEMMA CountedStep ==
    ASSUME ReadinessInv, Covered, Planned, Counted, [ReadinessNext]_readinessVars
    PROVE  Counted'
<1> USE DEF ReadinessInv
<1>1. SUFFICES ASSUME clock' = 0 PROVE Counted' BY DEF Counted
<1>2. Installer \/ Stays \/ Proceeds BY EveryStep DEF FileFits
<1>3. ~ Installer
  <2> SUFFICES ASSUME Installer PROVE FALSE OBVIOUS
  <2>1. clock' = clock + 1 /\ clock \in Nat BY InstallerInstalls, FileSystemAssumption DEF Installs, ReadinessTypeOK
  <2> QED BY <1>1, <2>1
<1>4. UNCHANGED <<entry, clock>>
  BY <1>2, <1>3 DEF Stays, Proceeds, Begin, LooksUp, OpensFile, StepsInto, Enters, List, ReadsOn, ReadsAll, Verifies,
     Confirms, Finishes, StepsOut, Turns, fileSystem
<1>5. PICK E : LookedAt(E) BY <1>1, <1>4 DEF Counted
<1>6. PICK m \in Nat : m = Len(walk) BY TypedWalk
<1>7. ASSUME UNCHANGED <<walk, entries>>, step' \notin {"enter", "list"} \/ UNCHANGED step,
             \A i \in identities' : i \in identities \/ (InHand /\ i = file.ino),
             InHand' => InHand /\ file'.name = file.name /\ file'.ino = file.ino,
             step \notin {"enter", "list"} \/ UNCHANGED step
      PROVE  Counted'
  <2>1. \A j \in 1 .. m : Ahead(j)' = Ahead(j) BY <1>6, <1>7 DEF Ahead
  <2>2. LookedAt(E)' BY <1>4, <1>5, <1>6, <1>7, <2>1, StillCounted
  <2> QED BY <2>2 DEF Counted
<1>8. CASE Stays \/ OpensFile \/ ReadsAll \/ Verifies \/ Finishes
  <2>1. UNCHANGED <<walk, entries, identities, file>> /\ (InHand' => InHand)
        /\ \/ step' \notin {"enter", "list"} /\ step \notin {"enter", "list"}
           \/ UNCHANGED step
    BY <1>8 DEF Stays, OpensFile, ReadsAll, Verifies, Finishes, InHand, noted
  <2> QED BY <1>7, <2>1
<1>9. CASE ReadsOn \/ Confirms
  <2>1. /\ UNCHANGED <<walk, entries>> /\ step \notin {"enter", "list"} /\ step' \notin {"enter", "list"}
        /\ \A i \in identities' : i \in identities \/ (InHand /\ i = file.ino)
        /\ InHand' => InHand /\ file'.name = file.name /\ file'.ino = file.ino
    BY <1>9 DEF ReadsOn, Confirms, InHand, noted, ReadinessTypeOK
  <2> QED BY <1>7, <2>1
<1>10. CASE Enters \/ List
  <2>1. /\ SameWay /\ ~ InHand' /\ UNCHANGED <<entries, identities>> /\ step \in {"enter", "list"}
        /\ NowToDo(here.todo) \/ NowToDo(Bound(entry, here.dir))
    BY <1>10, WayKept DEF Enters, List, InHand, Proceeds, noted
  <2>2. Len(walk') = m /\ \A j \in 1 .. m : walk'[j].name = walk[j].name BY <1>6, <2>1 DEF SameWay
  <2>3. ASSUME NEW j \in 1 .. m PROVE Ahead(j)' \subseteq Ahead(j)
    <3>1. CASE j = m
      <4>1. Ahead(j) = Names BY <1>6, <2>1, <3>1 DEF Ahead
      <4>2. here.todo \subseteq Names BY <1>6, <3>1, TypedWalk DEF here, Frames
      <4>3. walk'[j].todo \subseteq Names BY <1>6, <2>1, <3>1, <4>2 DEF NowToDo, Bound
      <4> QED BY <4>1, <4>3 DEF Ahead
    <3>2. CASE j # m
      <4>1. walk'[j].todo = walk[j].todo BY <1>6, <2>1, <3>2 DEF NowToDo
      <4> QED BY <1>6, <2>2, <3>2, <4>1 DEF Ahead
    <3> QED BY <3>1, <3>2
  <2>4. LookedAt(E)' BY <1>4, <1>5, <1>6, <2>1, <2>2, <2>3, StillCounted
  <2> QED BY <2>4 DEF Counted
<1>11. CASE StepsOut
  <2>1. m >= 2 /\ Len(walk') = m - 1 /\ \A j \in 1 .. m - 1 : walk'[j] = walk[j]
    BY <1>6, <1>11, WayShorter
  <2>2. step' = "entry" /\ ~ InHand' /\ UNCHANGED <<entries, identities>> BY <1>11 DEF StepsOut, InHand, noted
  <2>3. \A j \in 1 .. m - 1 : Ahead(j)' = walk[j].todo /\ Ahead(j) = walk[j].todo
    BY <1>6, <2>1, <2>2 DEF Ahead
  <2>4. LookedAt(E)' BY <1>4, <1>5, <1>6, <2>1, <2>2, <2>3, StillCounted
  <2> QED BY <2>4 DEF Counted
<1>12. CASE Begin \/ Turns
  <2>1. entries' = 0 /\ identities' = {} /\ step' = "entry" BY <1>12 DEF Begin, Turns, AtEnd, Noting, noted
  <2>2. ~ InHand' BY <2>1 DEF InHand
  <2> QED BY <2>1, <2>2, CountedAtFirst
<1>13. CASE StepsInto BY <1>1, <1>4, <1>13, IntoCounted
<1>14. ASSUME NEW n \in Names, LooksUp(n) PROVE Counted' BY <1>1, <1>4, <1>14, LookCounted
<1> QED BY <1>2, <1>3, <1>8, <1>9, <1>10, <1>11, <1>12, <1>13, <1>14 DEF Proceeds

-----------------------------------------------------------------------------
(* Nothing is refused of an approved installation that nobody touches        *)

Calm ==
    /\ ReadinessInv /\ Covered /\ Again /\ Planned /\ Counted
    /\ clock = 0 /\ Approved(entry, data) /\ WithinLimits(entry)

\* All stamps are those of the start.
LEMMA CalmStamps ==
    ASSUME Calm
    PROVE  /\ \A i \in Inodes : stamp[i] = 0
           /\ \A j \in 1 .. Len(walk) : /\ walk[j].dir \in Dirs /\ StampOf(walk[j].dir) = <<walk[j].dir, 0>>
                                        /\ walk[j].opened = <<walk[j].dir, 0>>
                                        /\ walk[j].before = <<walk[j].dir, 0>>
           /\ InHand => /\ file.ino \in Dirs \union FileInodes /\ file.name \in Names
                        /\ Looked = <<file.ino, 0>> /\ StampOf(file.ino) = Looked
<1> USE DEF Calm, ReadinessInv
<1>1. \A i \in Inodes : stamp[i] = 0
  <2>1. \A i \in Inodes : stamp[i] \in Nat /\ stamp[i] <= 0 BY FileSystemAssumption DEF ReadinessTypeOK, Clocked
  <2> QED BY <2>1
<1>2. ASSUME NEW j \in 1 .. Len(walk)
      PROVE  /\ walk[j].dir \in Dirs /\ StampOf(walk[j].dir) = <<walk[j].dir, 0>>
             /\ walk[j].opened = <<walk[j].dir, 0>> /\ walk[j].before = <<walk[j].dir, 0>>
  <2>1. walk[j] \in Frames /\ FrameFits(walk[j]) BY TypedWalk DEF WalkFits
  <2>2. walk[j].dir \in Dirs /\ stamp[walk[j].dir] = 0 BY <1>1, <2>1 DEF Frames, Inodes
  <2>3. walk[j].opened[2] \in Nat /\ walk[j].before[2] \in Nat BY <2>1, FileSystemAssumption DEF Frames, Stamps
  <2>4. walk[j].opened[2] = 0 /\ walk[j].before[2] = 0 BY <2>1, <2>2, <2>3 DEF FrameFits
  <2>5. walk[j].opened = <<walk[j].opened[1], walk[j].opened[2]>>
        /\ walk[j].before = <<walk[j].before[1], walk[j].before[2]>>
    BY <2>1 DEF Frames, Stamps
  <2> QED BY <2>1, <2>2, <2>4, <2>5 DEF FrameFits, StampOf
<1>3. ASSUME InHand
      PROVE  /\ file.ino \in Dirs \union FileInodes /\ file.name \in Names
             /\ Looked = <<file.ino, 0>> /\ StampOf(file.ino) = Looked
  <2>1. file.ino \in Dirs \union FileInodes /\ file.name \in Names /\ file.stamp <= stamp[file.ino]
    BY <1>3 DEF FileFits
  <2>2. stamp[file.ino] = 0 BY <1>1, <2>1 DEF Inodes
  <2>3. file.stamp \in Nat BY FileSystemAssumption DEF ReadinessTypeOK
  <2>4. file.stamp = 0 BY <2>1, <2>2, <2>3
  <2> QED BY <2>1, <2>2, <2>4 DEF Looked, StampOf
<1> QED BY <1>1, <1>2, <1>3

\* The file in hand is one of the approved.
LEMMA CalmFile ==
    ASSUME Calm, InHand
    PROVE  /\ <<Path(file.name), file.ino>> \in Reachable(entry)
           /\ entry[here.dir][file.name] = file.ino /\ file.ino # Nil /\ file.ino \notin Others
           /\ file.ino \in FileInodes => data[file.ino] = Members[Path(file.name)]
<1>1. PICK E : LookedAt(E) BY DEF Calm, Counted
<1>2. <<Path(file.name), file.ino>> \in Reachable(entry) BY <1>1 DEF LookedAt
<1>3. entry[here.dir][file.name] = file.ino BY DEF Calm, Planned
<1>4. file.ino \in Dirs \union FileInodes BY CalmStamps
<1>5. file.ino # Nil /\ file.ino \notin Others BY <1>4, FileSystemAssumption DEF Inodes
<1>6. ASSUME file.ino \in FileInodes PROVE data[file.ino] = Members[Path(file.name)]
  <2>1. PICK p : p = <<Path(file.name), file.ino>> OBVIOUS
  <2>2. p[1] = Path(file.name) /\ p[2] = file.ino BY <2>1
  <2>3. p \in NonDirs(entry) BY <1>2, <1>6, <2>1, <2>2, FileSystemAssumption DEF NonDirs
  <2>4. data[p[2]] = Members[p[1]] BY <2>3 DEF Calm, Approved
  <2> QED BY <2>2, <2>4
<1> QED BY <1>2, <1>3, <1>5, <1>6

LEMMA CalmLook ==
    ASSUME Calm, step = "entry", NEW n \in here.todo
    PROVE  /\ ~ TooMany(IF Len(walk) = 1 THEN entries ELSE entries + 1)
           /\ ~ Unacceptable(n, entry[here.dir][n])
<1> USE DEF Calm, ReadinessInv
<1>1. PICK E : LookedAt(E) BY DEF Counted
<1>2. PICK m \in Nat : m = Len(walk) BY TypedWalk
<1>3. m \in 1 .. m /\ here = walk[m] /\ here.dir \in Dirs /\ n \in Names
  BY <1>2, TypedWalk, EmptySeq DEF ReadinessTypeOK, here, Frames
<1>4. PICK new : new = <<Path(n), entry[here.dir][n]>> OBVIOUS
<1>5. new[1] = Path(n) /\ new[2] = entry[here.dir][n] BY <1>4
<1>6. m = 1 => n \in PackageRoots /\ here.dir = Top BY <1>2, <1>3 DEF WalkFits
<1>7. entry[here.dir][n] # Nil
  <2>1. CASE m = 1
    <3>1. entry[Top][n] \in Dirs BY <1>6, <2>1 DEF Approved
    <3> QED BY <1>6, <2>1, <3>1, FileSystemAssumption DEF Inodes
  <2>2. CASE m # 1
    <3>1. m \in 2 .. m BY <1>3, <2>2
    <3>2. walk[m].todo \subseteq Bound(entry, walk[m].dir) BY <1>2, <3>1 DEF Planned
    <3> QED BY <1>3, <3>2 DEF Bound
  <2> QED BY <2>1, <2>2
<1>8. new \in Reachable(entry)
  <2>1. Chained /\ RefTree = entry BY CalmTree DEF Covered
  <2>2. m - 1 <= MaxDepth BY <1>2, FileSystemAssumption DEF WalkFits
  <2>3. new \in Levels(entry)[m - 1] BY <1>2, <1>3, <1>4, <1>6, <1>7, <2>1, <2>2, OnNextLevel
  <2>5. Deepest \in Nat /\ MaxDepth <= Deepest BY LevelsAre
  <2>6. m - 1 \in Nat /\ MaxDepth \in Nat BY <1>3, FileSystemAssumption
  <2>4. m - 1 \in Nat /\ m - 1 <= Deepest BY <2>2, <2>5, <2>6
  <2> QED BY <2>3, <2>4, LevelReached
<1>9. \A e \in E : e[1] # Path(n) BY <1>1, NotYetLookedAt
<1>10. Len(Path(n)) = m BY <1>1, <1>2, NotYetLookedAt
<1>11. ~ TooMany(IF m = 1 THEN entries ELSE entries + 1)
  <2>1. entries \in 0 .. MaxEntries /\ MaxEntries \in Nat BY FileSystemAssumption DEF ReadinessTypeOK
  <2>2. CASE m = 1 BY <2>1, <2>2 DEF TooMany
  <2>3. CASE m # 1
    <3>1. PICK Deep : Deep = {e \in E : Len(e[1]) > 1} OBVIOUS
    <3>2. PICK All : All = {p \in Reachable(entry) : Len(p[1]) > 1} OBVIOUS
    <3>3. IsFiniteSet(All) BY <3>2, FewReachable, FS_Subset
    <3>4. Len(new[1]) > 1 BY <1>3, <1>5, <1>10, <2>3
    <3>5. Deep \union {new} \subseteq All BY <1>1, <1>8, <3>1, <3>2, <3>4 DEF LookedAt
    <3>6. new \notin Deep BY <1>5, <1>9, <3>1
    <3>7. Deep \subseteq All BY <3>5
    <3>8. IsFiniteSet(Deep) BY <3>3, <3>7, FS_Subset
    <3>9. Cardinality(Deep \union {new}) = Cardinality(Deep) + 1 BY <3>6, <3>8, FS_AddElement
    <3>10. Cardinality(Deep \union {new}) <= Cardinality(All) BY <3>3, <3>5, FS_Subset
    <3>11. Cardinality(All) <= MaxEntries BY <3>2 DEF WithinLimits
    <3>12. Cardinality(Deep) = entries BY <1>1, <3>1 DEF LookedAt
    <3>13. Cardinality(All) \in Nat BY <3>3, FS_CardinalityType
    <3> QED BY <2>1, <2>3, <3>9, <3>10, <3>11, <3>12, <3>13 DEF TooMany
  <2> QED BY <2>2, <2>3
<1>12. ASSUME entry[here.dir][n] \notin Dirs
       PROVE  /\ entry[here.dir][n] \in FileInodes /\ Path(n) \in DOMAIN Members
              /\ entry[here.dir][n] \notin identities
  <2>1. new \in NonDirs(entry) BY <1>5, <1>8, <1>12 DEF NonDirs
  <2>2. new[2] \in FileInodes BY <2>1 DEF Approved
  <2>3. new[1] \in DOMAIN Members BY <2>1 DEF Approved
  <2>4. ASSUME new[2] \in identities PROVE FALSE
    <3>1. PICK e \in E : e[2] = new[2] BY <1>1, <2>4 DEF LookedAt
    <3>2. e \in NonDirs(entry) BY <1>1, <1>5, <1>12, <3>1 DEF NonDirs, LookedAt
    <3>3. e = new BY <2>1, <3>1, <3>2 DEF Approved
    <3> QED BY <1>5, <1>9, <3>1, <3>3
  <2> QED BY <1>5, <2>2, <2>3, <2>4
<1>13. m = 1 => entry[here.dir][n] \in Dirs BY <1>6 DEF Approved
<1>14. Dirs \intersect Others = {} /\ Dirs \intersect FileInodes = {} /\ FileInodes \intersect Others = {}
  BY FileSystemAssumption
<1>15. ~ Unacceptable(n, entry[here.dir][n])
  <2> DEFINE i == entry[here.dir][n]
  <2>1. CASE i \in Dirs BY <1>2, <1>7, <1>14, <2>1 DEF Unacceptable
  <2>2. CASE i \notin Dirs BY <1>2, <1>7, <1>12, <1>13, <1>14, <2>2 DEF Unacceptable
  <2> QED BY <2>1, <2>2
<1> QED BY <1>2, <1>11, <1>15

LEMMA CalmOpen ==
    ASSUME Calm, answer = Nil, Open
    PROVE  answer' = Nil \/ answer' = "unavailable"
<1> USE DEF Calm, ReadinessInv
<1>1. step = "open" /\ InHand BY DEF Open, InHand
<1>2. PICK i : i = entry[here.dir][file.name] OBVIOUS
<1>3. i = file.ino /\ i # Nil /\ StampOf(i) = Looked /\ Looked = <<file.ino, 0>>
  BY <1>1, <1>2, CalmFile, CalmStamps
<1>4. ASSUME i \in FileInodes PROVE ~ Disagrees
  <2>1. CASE pass = 2
    <3>1. PICK p \in Reachable(entry) : p = <<Path(file.name), file.ino>> BY <1>1, CalmFile
    <3>2. p[1] = Path(file.name) /\ p[2] = file.ino /\ p[2] \notin Dirs
      BY <1>3, <1>4, <3>1, FileSystemAssumption
    <3>3. <<p[1], <<p[2], 0>>>> \in snapshots BY <2>1, <3>2 DEF Again
    <3> QED BY <1>3, <2>1, <3>2, <3>3 DEF Disagrees
  <2>2. CASE pass # 2
    <3>1. data[file.ino] = Members[Path(file.name)] BY <1>1, <1>3, <1>4, CalmFile
    <3> QED BY <2>2, <3>1 DEF Disagrees
  <2> QED BY <2>1, <2>2
<1> QED BY <1>2, <1>3, <1>4 DEF Open, Conclude

LEMMA CalmEnter ==
    ASSUME Calm, answer = Nil, Enter
    PROVE  answer' = Nil
<1> USE DEF Calm, ReadinessInv
<1>1. PICK m \in Nat : m = Len(walk) BY TypedWalk
<1>2. step = "enter" BY DEF Enter
<1>3. m >= 2 /\ m <= MaxDepth + 2 BY <1>1, <1>2 DEF WalkFits
<1>4. m \in 1 .. m /\ m \in 2 .. m /\ here = walk[m] BY <1>1, <1>3 DEF here
<1>5. PICK p : p = <<PathTo(m), here.dir>> OBVIOUS
<1>6. p[1] = PathTo(m) /\ p[2] = here.dir /\ here.dir \in Dirs /\ StampOf(here.dir) = <<here.dir, 0>>
  BY <1>1, <1>4, <1>5, CalmStamps
<1>7. Len(PathTo(m)) = m - 1 /\ DirPath = PathTo(m) BY <1>1, <1>4, PathsTyped
<1>8. p \in Reachable(entry)
  <2>1. Chained /\ RefTree = entry BY CalmTree DEF Covered
  <2>2. p \in Levels(entry)[m - 2] BY <1>1, <1>4, <1>5, <2>1 DEF Chained
  <2>3. Deepest \in Nat /\ MaxDepth <= Deepest BY LevelsAre
  <2>4. m - 2 \in Nat /\ MaxDepth \in Nat BY <1>3, FileSystemAssumption
  <2>5. m - 2 <= Deepest BY <1>3, <2>3, <2>4
  <2> QED BY <2>2, <2>4, <2>5, LevelReached
<1>9. ~ (Len(walk) - 1 > MaxDepth)
  <2>1. Len(p[1]) <= MaxDepth BY <1>6, <1>8 DEF WithinLimits
  <2>2. MaxDepth \in Nat BY FileSystemAssumption
  <2> QED BY <1>1, <1>6, <1>7, <2>1, <2>2
<1>10. pass = 2 => <<DirPath, StampOf(here.dir)>> \in directories
  <2>1. ASSUME pass = 2 PROVE <<p[1], <<p[2], 0>>>> \in directories BY <1>6, <1>8, <2>1 DEF Again
  <2> QED BY <1>6, <1>7, <2>1
<1> QED BY <1>9, <1>10 DEF Enter

\* What was read of a file is what is approved of it.
LEMMA CalmRead ==
    ASSUME Calm, answer = Nil, Read \/ Verify \/ Confirm
    PROVE  answer' = Nil
<1> USE DEF Calm, ReadinessInv
<1>1. InHand /\ step \in {"read", "verify", "confirm"} BY DEF Read, Verify, Confirm, InHand
<1>2. file.ino \in FileInodes BY <1>1 DEF FileFits
<1>3. /\ data[file.ino] = Members[Path(file.name)] /\ StampOf(file.ino) = Looked
      /\ entry[here.dir][file.name] = file.ino /\ file.ino # Nil
  BY <1>1, <1>2, CalmFile, CalmStamps
<1>4. CASE Read
  <2>1. Len(data[file.ino]) \in Nat BY <1>2, ContentsAreSeqs
  <2>2. ~ (Len(file.got) < Len(data[file.ino]) /\ Len(file.got) = Len(Members[Path(file.name)]))
    BY <1>3, <2>1
  <2> QED BY <1>4, <2>2 DEF Read
<1>5. CASE Verify BY <1>3, <1>5 DEF Verify
<1>6. CASE Confirm
  <2>1. ASSUME pass = 1 PROVE file.got = Members[Path(file.name)]
    <3>1. stamp[file.ino] = file.stamp BY <1>3 DEF StampOf, Looked
    <3>2. step = "confirm" BY <1>6 DEF Confirm
    <3>3. /\ \A k \in 1 .. Len(file.got) : file.got[k] = data[file.ino][k]
          /\ Len(file.got) = Len(data[file.ino])
      BY <2>1, <3>1, <3>2 DEF ReadSoFar
    <3> DEFINE Chunks == UNION {Range(c) : c \in Contents}
    <3>4. data[file.ino] \in Seq(Chunks) BY <1>2, ContentsAreSeqs
    <3>5. file.got \in Seq(Chunks) BY DEF ReadinessTypeOK
    <3> HIDE DEF Chunks
    <3>6. file.got = data[file.ino] BY <3>3, <3>4, <3>5, SeqEqual
    <3> QED BY <1>3, <3>6
  <2>2. StampOf(entry[here.dir][file.name]) = Looked /\ entry[here.dir][file.name] # Nil BY <1>3
  <2> QED BY <1>6, <2>1, <2>2 DEF Confirm
<1> QED BY <1>4, <1>5, <1>6

LEMMA CalmLeave ==
    ASSUME Calm, answer = Nil, Finish \/ Leave
    PROVE  answer' = Nil
<1> USE DEF Calm, ReadinessInv
<1>1. PICK m \in Nat : m = Len(walk) BY TypedWalk
<1>2. m >= 2
  <2>1. CASE Finish BY <1>1, <2>1 DEF Finish
  <2>2. CASE Leave BY <1>1, <2>2 DEF Leave, WalkFits
  <2> QED BY <2>1, <2>2
<1>3. m \in 1 .. m /\ m \in 2 .. m /\ here = walk[m] BY <1>1, <1>2 DEF here
<1>4. /\ here.dir \in Dirs /\ StampOf(here.dir) = <<here.dir, 0>>
      /\ here.opened = <<here.dir, 0>> /\ here.before = <<here.dir, 0>>
  BY <1>1, <1>3, CalmStamps
<1>5. CASE Finish BY <1>4, <1>5 DEF Finish
<1>6. CASE Leave
  <2>1. Chained /\ RefTree = entry BY CalmTree DEF Covered
  <2>2. entry[walk[m - 1].dir][here.name] = here.dir BY <1>1, <1>3, <2>1 DEF Chained
  <2>3. here.dir # Nil BY <1>4, FileSystemAssumption DEF Inodes
  <2>4. PICK i : i = entry[walk[Len(walk) - 1].dir][here.name] OBVIOUS
  <2>5. i = here.dir /\ i # Nil /\ StampOf(i) = here.opened BY <1>1, <1>4, <2>2, <2>3, <2>4
  <2> QED BY <1>6, <2>4, <2>5 DEF Leave
<1> QED BY <1>5, <1>6

LEMMA CalmEnd ==
    ASSUME Calm, answer = Nil, Turn \/ Close
    PROVE  answer' \in {Nil, "ready"}
<1> USE DEF Calm, ReadinessInv
<1>1. AtEnd BY DEF Turn, Close
<1>2. Sure /\ RefTree = entry BY CalmTree
<1>3. Settled = DOMAIN Members
  <2>1. {p[1] : p \in NonDirs(entry)} = Settled BY <1>1, <1>2, EndCovered
  <2> QED BY <2>1 DEF Approved
<1>4. CASE Turn BY <1>3, <1>4 DEF Turn, Settled
<1>5. CASE Close
  <2>1. Len(walk) = 1 /\ here = walk[1] BY <1>1 DEF AtEnd, here
  <2>2. walk[1].dir = Top /\ StampOf(Top) = walk[1].opened
    <3>1. step # "begin" BY <1>1 DEF AtEnd
    <3>2. walk[1].dir = Top BY <3>1 DEF WalkFits
    <3>3. 1 \in 1 .. Len(walk) BY <2>1
    <3>4. StampOf(walk[1].dir) = <<walk[1].dir, 0>> /\ walk[1].opened = <<walk[1].dir, 0>> BY <3>3, CalmStamps
    <3> QED BY <3>2, <3>4
  <2> QED BY <1>3, <1>5, <2>1, <2>2 DEF Close, Conclude, Settled
<1> QED BY <1>4, <1>5

LEMMA RefusesStep ==
    ASSUME ReadinessInv, Covered, Again, Planned, Counted, RefusesForCause, [ReadinessNext]_readinessVars
    PROVE  RefusesForCause'
<1>1. CASE UNCHANGED readinessVars BY <1>1 DEF readinessVars, fileSystem, RefusesForCause, Approved, WithinLimits, NonDirs
<1>2. CASE answer # Nil /\ ReadinessNext
  <2>1. UNCHANGED readinessVars
    BY <1>2 DEF ReadinessNext, Installer, Rewrite, Bind, Touch, Verifier, GiveUp, Answered
  <2> QED BY <1>1, <2>1
<1>3. CASE answer = Nil /\ ReadinessNext
  <2>1. SUFFICES ASSUME clock' = 0, Approved(entry, data)', WithinLimits(entry)'
                 PROVE  answer' \notin {"mismatch", "over_limit"}
    <3>1. clock' \in Nat BY ReadinessStep, FileSystemAssumption DEF ReadinessInv, ReadinessTypeOK
    <3> QED BY <3>1 DEF RefusesForCause
  <2>2. Nil \notin Answers /\ Answers = {"ready", "mismatch", "over_limit", "unavailable"}
    BY FileSystemAssumption DEF Answers
  <2>3. CASE Installer BY <1>3, <2>2, <2>3 DEF Installer, Rewrite, Bind, Touch
  <2>4. CASE GiveUp BY <2>4 DEF GiveUp, Conclude
  <2>5. CASE Answered BY <1>3, <2>5 DEF Answered
  <2>6. CASE Verifier /\ ~ Installer
    <3>1. Installer \/ Stays \/ Proceeds BY <1>3, EveryStep DEF ReadinessInv, FileFits
    <3>2. UNCHANGED <<entry, data, clock>>
      BY <2>6, <3>1 DEF Stays, Proceeds, Begin, LooksUp, OpensFile, StepsInto, Enters, List, ReadsOn, ReadsAll,
         Verifies, Confirms, Finishes, StepsOut, Turns, fileSystem
    <3>3. Calm BY <2>1, <3>2 DEF Calm, Approved, WithinLimits, NonDirs
    <3>4. ASSUME step = "entry", NEW n \in here.todo, Look(n) PROVE answer' = Nil
      <4>1. /\ ~ TooMany(IF Len(walk) = 1 THEN entries ELSE entries + 1)
            /\ ~ Unacceptable(n, entry[here.dir][n])
        BY <3>3, <3>4, CalmLook
      <4> QED BY <1>3, <3>4, <4>1 DEF Look
    <3>5. Open => answer' \in {Nil, "unavailable"} BY <1>3, <3>3, CalmOpen
    <3>6. Enter => answer' = Nil BY <1>3, <3>3, CalmEnter
    <3>7. Read \/ Verify \/ Confirm => answer' = Nil BY <1>3, <3>3, CalmRead
    <3>8. Finish \/ Leave => answer' = Nil BY <1>3, <3>3, CalmLeave
    <3>9. Turn \/ Close => answer' \in {Nil, "ready"} BY <1>3, <3>3, CalmEnd
    <3>10. Begin \/ List => answer' = Nil BY <1>3 DEF Begin, List
    <3> QED BY <2>2, <2>6, <3>4, <3>5, <3>6, <3>7, <3>8, <3>9, <3>10 DEF Verifier
  <2> QED BY <1>3, <2>3, <2>4, <2>5, <2>6 DEF ReadinessNext
<1> QED BY <1>1, <1>2, <1>3

\* verify_artifact_readiness refuses an installation nobody touched only if it
\* is not the approved one or too large.
THEOREM RefusesOnlyForCause == ReadinessSpec => []RefusesForCause
<1>1. ReadinessInit => Again /\ Planned /\ Counted /\ RefusesForCause
  <2> SUFFICES ASSUME ReadinessInit PROVE Again /\ Planned /\ Counted /\ RefusesForCause OBVIOUS
  <2>1. Again /\ RefusesForCause BY FileSystemAssumption DEF ReadinessInit, Again, RefusesForCause, Answers
  <2>2. Planned BY DEF ReadinessInit, Planned, InHand
  <2>3. {e \in {} : Len(e[1]) > 1} = {} /\ Cardinality({}) = 0 BY FS_EmptySet
  <2>4. LookedAt({}) BY <2>3 DEF ReadinessInit, LookedAt, InHand
  <2> QED BY <2>1, <2>2, <2>4 DEF Counted
<1>2. ReadinessInv /\ Covered /\ Again /\ [ReadinessNext]_readinessVars => Again' BY AgainStep
<1>3. ReadinessInv /\ Planned /\ [ReadinessNext]_readinessVars => Planned' BY PlannedStep
<1>4. ReadinessInv /\ Covered /\ Planned /\ Counted /\ [ReadinessNext]_readinessVars => Counted' BY CountedStep
<1>5. ReadinessInv /\ Covered /\ Again /\ Planned /\ Counted /\ RefusesForCause
      /\ [ReadinessNext]_readinessVars => RefusesForCause'
  BY RefusesStep
<1> QED BY <1>1, <1>2, <1>3, <1>4, <1>5, ReadinessInvariant, CoveredInvariant, PTL DEF ReadinessSpec

\* The verifier's variables keep their shape.
THEOREM ReadinessTyped == ReadinessSpec => []ReadinessTypeOK
<1>1. ReadinessInv => ReadinessTypeOK BY DEF ReadinessInv
<1> QED BY <1>1, ReadinessInvariant, PTL
=============================================================================
