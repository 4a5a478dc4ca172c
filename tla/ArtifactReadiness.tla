-------------------------- MODULE ArtifactReadiness --------------------------
(***************************************************************************)
(* _artifact_readiness.py: _verify_files walks an installation twice while *)
(* an installer may be at work in it.  The first pass hashes every file    *)
(* and keeps its stamp and the stamps of the directories; the second only  *)
(* compares stamps.  One step here is one system call, or several in a row *)
(* on one descriptor or one name with nothing in between that counts.      *)
(*                                                                         *)
(* The file system is external: inodes, the entries of directories and the *)
(* bytes of files.  Every change gives what it touches a stamp never seen  *)
(* before (st_ctime_ns is taken to tell two changes apart).  The root      *)
(* itself stays where it is, as the module's docstring demands of a host.  *)
(***************************************************************************)
EXTENDS Naturals, Sequences, FiniteSets, Functions

CONSTANTS
  Nil,            \* no inode, no name, no answer yet
  Names,          \* names of directory entries
  Top,            \* the inode of the installation root
  Dirs, FileInodes, Others,  \* inodes: directories, regular files, anything else
  Contents,       \* what files may hold: sequences of chunks
  PackageRoots,   \* names in Top that the policy has walked
  Members,        \* path |-> the content the policy approves there
  Installations,  \* where an installation may start: [entry, data]
  Slots,          \* <<directory, name, inode>> an installer may bring about
  MaxEntries, MaxDepth,  \* _MAX_ENTRIES, _MAX_DEPTH
  MaxChanges      \* bound: changes an installer makes

Inodes == Dirs \union FileInodes \union Others

Entry == Inodes \union {Nil}
Answers == {"ready", "mismatch", "over_limit", "unavailable"}

ASSUME FileSystemAssumption ==
  /\ Nil \notin Inodes \union Names \union Answers
  /\ IsFiniteSet(Dirs) /\ IsFiniteSet(Names)
  /\ Top \in Dirs
  /\ Dirs \intersect FileInodes = {} /\ Dirs \intersect Others = {}
  /\ FileInodes \intersect Others = {}
  /\ PackageRoots \subseteq Names
  /\ DOMAIN Members \subseteq Seq(Names)
  /\ \A content \in Contents : content \in Seq(Range(content))
  /\ \A installation \in Installations :
       /\ installation.entry \in [Dirs -> [Names -> Entry]]
       /\ installation.data \in [FileInodes -> Contents]
  /\ \A path \in DOMAIN Members : Members[path] \in Seq(UNION {Range(c) : c \in Contents})
  /\ Slots \subseteq Dirs \X Names \X (Inodes \union {Nil})
  /\ MaxEntries \in Nat /\ MaxDepth \in Nat /\ MaxChanges \in Nat

VARIABLES
  entry,       \* directory |-> name |-> inode or Nil
  data,        \* file |-> its content
  stamp,       \* inode |-> the change that last touched it
  clock,       \* changes so far
  step,        \* the verifier's next system call
  pass,        \* 2 once rechecking is set
  walk,        \* the open directories: Top, a package root, then down
  file,        \* the entry being dealt with, and what was read of it
  entries,     \* directory entries seen in this pass
  directories, \* {<<path, stamp>>} of the first pass
  snapshots,   \* {<<path, stamp>>} of the files hashed
  identities,  \* inodes met in this pass
  finalNames,  \* files the second pass confirmed
  answer,      \* Nil, or how the verification ended
  between      \* ghost: the installation when the second pass began

fileSystem == <<entry, data, stamp, clock>>
noted == <<entries, directories, snapshots, identities, finalNames>>
readinessVars == <<fileSystem, step, pass, walk, file, noted, answer, between>>

Steps == {"begin", "enter", "list", "entry", "open", "read", "verify", "confirm", "leave"}
NoFile == [name |-> Nil, ino |-> Nil, stamp |-> 0, got |-> <<>>]

here == walk[Len(walk)]
\* The path of the entry n of the directory being walked.
Path(n) == Append([k \in 1..(Len(walk) - 1) |-> walk[k + 1].name], n)
DirPath == [k \in 1..(Len(walk) - 1) |-> walk[k + 1].name]

\* _stamp: the inode is part of it.
StampOf(i) == <<i, stamp[i]>>
Bound(tree, d) == {n \in Names : tree[d][n] # Nil}

(***************************************************************************)
(* What the policy approves: the files below the package roots are the     *)
(* members, each with its content and none of them twice under two names.  *)
(***************************************************************************)
\* No directory lies deeper, nor does any file of an installation within limits.
Deepest == MaxDepth + Cardinality(Dirs)

\* <<path, inode>> of what has k directories above it, below the root.
Levels(tree) ==
  LET Level[k \in 0..Deepest] ==
        IF k = 0 THEN {<<<<n>>, tree[Top][n]>> : n \in PackageRoots}
        ELSE UNION {{<<Append(p[1], n), tree[p[2]][n]>> : n \in Bound(tree, p[2])} :
                    p \in {q \in Level[k - 1] : q[2] \in Dirs}}
  IN Level

Reachable(tree) == UNION {Levels(tree)[k] : k \in 0..Deepest}
NonDirs(tree)    == {p \in Reachable(tree) : p[2] \notin Dirs}

Approved(tree, contents) ==
  /\ \A n \in PackageRoots : tree[Top][n] \in Dirs
  /\ {p[1] : p \in NonDirs(tree)} = DOMAIN Members
  /\ \A p \in NonDirs(tree) : p[2] \in FileInodes /\ contents[p[2]] = Members[p[1]]
  /\ \A p, q \in NonDirs(tree) : p[2] = q[2] => p = q

WithinLimits(tree) ==
  /\ Cardinality({p \in Reachable(tree) : Len(p[1]) > 1}) <= MaxEntries
  /\ \A p \in Reachable(tree) : p[2] \in Dirs => Len(p[1]) <= MaxDepth

ReadinessInit ==
  /\ \E installation \in Installations :
       /\ entry = installation.entry /\ data = installation.data
  /\ stamp = [i \in Inodes |-> 0] /\ clock = 0
  /\ step = "begin" /\ pass = 1 /\ walk = <<>> /\ file = NoFile
  /\ entries = 0 /\ directories = {} /\ snapshots = {}
  /\ identities = {} /\ finalNames = {}
  /\ answer = Nil /\ between = Nil

(***************************************************************************)
(* The installer.                                                          *)
(***************************************************************************)
Touch(touched) ==
  /\ answer = Nil /\ clock < MaxChanges
  /\ clock' = clock + 1
  /\ stamp' = [i \in Inodes |-> IF i \in touched THEN clock + 1 ELSE stamp[i]]
  /\ UNCHANGED <<step, pass, walk, file, noted, answer, between>>

\* A file is written in place.
Rewrite(i, content) ==
  /\ content # data[i]
  /\ data' = [data EXCEPT ![i] = content]
  /\ UNCHANGED entry
  /\ Touch({i})

\* An entry is made, removed or made to name another inode.  A directory has
\* one name at a time and is never put below itself.
Bind(d, n, i) ==
  /\ i # entry[d][n]
  /\ i \in Dirs =>
       /\ i # Top /\ \A e \in Dirs, m \in Names : entry[e][m] # i
       /\ d = Top \/ \E p \in Reachable(entry) : p[2] = d
  /\ entry' = [entry EXCEPT ![d][n] = i]
  /\ UNCHANGED data
  /\ Touch({d} \union ({i, entry[d][n]} \ {Nil}))

Installer ==
  \/ \E i \in FileInodes, content \in Contents : Rewrite(i, content)
  \/ \E slot \in Slots : Bind(slot[1], slot[2], slot[3])

(***************************************************************************)
(* The verifier.                                                           *)
(***************************************************************************)
Conclude(how) ==
  /\ answer' = how
  /\ UNCHANGED <<fileSystem, step, pass, walk, file, noted, between>>

\* A system call failed or the deadline passed.
GiveUp == answer = Nil /\ Conclude("unavailable")

\* The root is opened and its stamp kept.
Begin ==
  /\ step = "begin"
  /\ walk' = <<[dir |-> Top, name |-> Nil, opened |-> StampOf(Top), before |-> StampOf(Top),
                todo |-> PackageRoots]>>
  /\ step' = "entry"
  /\ UNCHANGED <<fileSystem, pass, file, noted, answer, between>>

\* The next entry is looked up, its kind and its identity judged.
Unacceptable(n, i) ==
  \/ i = Nil
  \/ Len(walk) = 1 /\ i \notin Dirs
  \/ i \in Others
  \/ i \in FileInodes /\ (Path(n) \notin DOMAIN Members \/ i \in identities)

TooMany(count) == count > MaxEntries

Look(n) ==
  LET i == entry[here.dir][n]
      count == IF Len(walk) = 1 THEN entries ELSE entries + 1
  IN /\ step = "entry" /\ n \in here.todo
     /\ IF TooMany(count) THEN Conclude("over_limit")
        ELSE IF Unacceptable(n, i) THEN Conclude("mismatch")
        ELSE /\ walk' = [walk EXCEPT ![Len(walk)].todo = @ \ {n}]
             /\ file' = [name |-> n, ino |-> i, stamp |-> stamp[i], got |-> <<>>]
             /\ entries' = count
             /\ step' = "open"
             /\ UNCHANGED <<fileSystem, pass, directories, snapshots, identities, finalNames,
                            answer, between>>

\* _open: what the name leads to now must be what was looked up; a file must
\* have the approved size, or in the second pass the stamp of the first.
Looked == <<file.ino, file.stamp>>

\* (fault: the second pass compares sizes only)
SizeDisagrees == Len(data[file.ino]) # Len(Members[Path(file.name)])

Disagrees ==
  IF pass = 2 THEN <<Path(file.name), Looked>> \notin snapshots
  ELSE Len(data[file.ino]) # Len(Members[Path(file.name)])

Open ==
  LET i == entry[here.dir][file.name]
  IN /\ step = "open"
     /\ IF i # Nil /\ (i \in Others \/ (file.ino \in Dirs /\ i \notin Dirs))
          THEN Conclude("unavailable")
        ELSE IF i = Nil \/ StampOf(i) # Looked THEN Conclude("mismatch")
        ELSE IF i \in FileInodes /\ Disagrees THEN Conclude("mismatch")
        ELSE /\ walk' = IF i \in FileInodes THEN walk
                        ELSE Append(walk, [dir |-> i, name |-> file.name, opened |-> Looked,
                                           before |-> Looked, todo |-> {}])
             /\ file' = IF i \in FileInodes THEN file ELSE NoFile
             /\ step' = IF i \in Dirs THEN "enter" ELSE IF pass = 1 THEN "read" ELSE "confirm"
             /\ UNCHANGED <<fileSystem, pass, noted, answer, between>>

\* walk begins in a directory: its stamp is kept, or compared.
Enter ==
  LET kept == <<DirPath, StampOf(here.dir)>>
  IN /\ step = "enter"
     /\ IF Len(walk) - 1 > MaxDepth THEN Conclude("over_limit")
        ELSE IF pass = 2 /\ kept \notin directories THEN Conclude("mismatch")
        ELSE /\ walk' = [walk EXCEPT ![Len(walk)].before = StampOf(here.dir)]
             /\ directories' = IF pass = 1 THEN directories \union {kept} ELSE directories
             /\ step' = "list"
             /\ UNCHANGED <<fileSystem, pass, file, entries, snapshots, identities, finalNames,
                            answer, between>>

List ==
  /\ step = "list"
  /\ walk' = [walk EXCEPT ![Len(walk)].todo = Bound(entry, here.dir)]
  /\ step' = "entry"
  /\ UNCHANGED <<fileSystem, pass, file, noted, answer, between>>

\* _hash_fd: a chunk is read from the open file, whatever its name is now.
Read ==
  LET content == data[file.ino]
      more == Len(file.got) < Len(content)
  IN /\ step = "read"
     /\ IF more /\ Len(file.got) = Len(Members[Path(file.name)]) THEN Conclude("mismatch")
        ELSE /\ file' = IF more THEN [file EXCEPT !.got = Append(@, content[Len(@) + 1])] ELSE file
             /\ step' = IF more THEN "read" ELSE "verify"
             /\ UNCHANGED <<fileSystem, pass, walk, noted, answer, between>>

\* The open file must not have changed while it was read.
Verify ==
  /\ step = "verify"
  /\ IF StampOf(file.ino) # Looked THEN Conclude("mismatch")
     ELSE /\ step' = "confirm"
          /\ UNCHANGED <<fileSystem, pass, walk, file, noted, answer, between>>

\* The name must still lead to the file, and its content be the approved one.
Confirm ==
  LET path == Path(file.name)
      i == entry[here.dir][file.name]
  IN /\ step = "confirm"
     /\ IF \/ i = Nil \/ StampOf(i) # Looked
           \/ pass = 1 /\ file.got # Members[path]
          THEN Conclude("mismatch")
        ELSE /\ identities' = identities \union {file.ino}
             /\ snapshots' = IF pass = 1 THEN snapshots \union {<<path, Looked>>} ELSE snapshots
             /\ finalNames' = IF pass = 2 THEN finalNames \union {path} ELSE finalNames
             /\ file' = NoFile
             /\ step' = "entry"
             /\ UNCHANGED <<fileSystem, pass, walk, entries, directories, answer, between>>

\* walk ends in a directory: it must not have changed since it began.
Finish ==
  /\ step = "entry" /\ here.todo = {} /\ Len(walk) > 1
  /\ IF StampOf(here.dir) # here.before \/ (Len(walk) > 2 /\ here.before # here.opened)
       THEN Conclude("mismatch")
     ELSE /\ step' = "leave"
          /\ UNCHANGED <<fileSystem, pass, walk, file, noted, answer, between>>

\* Its name must still lead to it.
Leave ==
  LET i == entry[walk[Len(walk) - 1].dir][here.name]
  IN /\ step = "leave"
     /\ IF i = Nil \/ StampOf(i) # here.opened THEN Conclude("mismatch")
        ELSE /\ walk' = SubSeq(walk, 1, Len(walk) - 1)
             /\ step' = "entry"
             /\ UNCHANGED <<fileSystem, pass, file, noted, answer, between>>

AtEnd == step = "entry" /\ Len(walk) = 1 /\ here.todo = {}

\* (fault: the second pass is not given a count and identities of its own)
CarryOver == UNCHANGED <<identities, entries>>

Reset == identities' = {} /\ entries' = 0

\* The first pass is over.
Turn ==
  /\ AtEnd /\ pass = 1
  /\ IF {s[1] : s \in snapshots} # DOMAIN Members THEN Conclude("mismatch")
     ELSE /\ pass' = 2
          /\ walk' = [walk EXCEPT ![1].todo = PackageRoots]
          /\ Reset
          /\ between' = [entry |-> entry, data |-> data, clock |-> clock]
          /\ UNCHANGED <<fileSystem, step, file, directories, snapshots, finalNames, answer>>

\* The second pass is over.
Close ==
  /\ AtEnd /\ pass = 2
  /\ IF finalNames # DOMAIN Members \/ StampOf(Top) # here.opened THEN Conclude("mismatch")
     ELSE Conclude("ready")

Verifier ==
  /\ answer = Nil
  /\ \/ Begin \/ (step = "entry" /\ \E n \in here.todo : Look(n)) \/ Open \/ Enter \/ List
     \/ Read \/ Verify \/ Confirm \/ Finish \/ Leave \/ Turn \/ Close

Answered == answer # Nil /\ UNCHANGED readinessVars

ReadinessNext == Installer \/ Verifier \/ GiveUp \/ Answered

ReadinessSpec == ReadinessInit /\ [][ReadinessNext]_readinessVars

-----------------------------------------------------------------------------

Stamps == Inodes \X (0..MaxChanges)

\* The variables keep their shape: the verifier's place, what it holds open and
\* what it has noted.
ReadinessTypeOK ==
  /\ entry \in [Dirs -> [Names -> Entry]] /\ data \in [FileInodes -> Contents]
  /\ stamp \in [Inodes -> 0..MaxChanges] /\ clock \in 0..MaxChanges
  /\ step \in Steps /\ pass \in 1..2
  /\ walk \in Seq([dir : Dirs, name : Names \union {Nil}, opened : Stamps, before : Stamps,
                   todo : SUBSET Names])
  /\ step # "begin" => walk # <<>>
  /\ file \in [name : Names \union {Nil}, ino : Entry, stamp : 0..MaxChanges,
               got : Seq(UNION {Range(c) : c \in Contents})]
  /\ entries \in 0..MaxEntries
  /\ \A s \in directories \union snapshots : s[1] \in Seq(Names) /\ s[2] \in Stamps
  /\ identities \subseteq FileInodes /\ finalNames \subseteq DOMAIN Members
  /\ answer \in Answers \union {Nil}
  /\ pass = 2 => between \in [entry : [Dirs -> [Names -> Entry]], data : [FileInodes -> Contents],
                             clock : 0..MaxChanges]

\* verify_artifact_readiness says ready only if there was one moment, between
\* the passes, at which the whole installation was the approved one: every
\* member with its content, nothing else, however an installer interfered
\* before and after, and although no two files were looked at together.
ReadyMeansApproved ==
  answer = "ready" => pass = 2 /\ Approved(between.entry, between.data)

\* An installation nobody touches is refused only if it is not the approved one
\* or too large: the verifier's own second pass never makes it refuse.
RefusesForCause ==
  answer \in {"mismatch", "over_limit"} =>
    clock > 0 \/ ~Approved(entry, data) \/ ~WithinLimits(entry)

=============================================================================
