------------------------ MODULE MCArtifactReadiness ------------------------
(***************************************************************************)
(* An installation of one package: a file f in it and a file g in its      *)
(* directory sub, approved with the same content, so that one can stand in *)
(* for the other.  The installer has a spare file, a spare directory and a *)
(* link, and places to put them.                                           *)
(***************************************************************************)
EXTENDS ArtifactReadiness

CONSTANTS pkg, sub, f, g,          \* names
          root, pkgDir, subDir, spareDir,  \* inodes of directories
          fFile, gFile, spare,     \* inodes of files
          link,                    \* inode of a symbolic link
          a, b                     \* chunks

SmallContents == {<<a, b>>, <<a, a>>, <<b, b>>, <<a>>}

ApprovedMembers == [path \in {<<pkg, f>>, <<pkg, sub, g>>} |-> <<a, b>>]

\* entry of the root, of the package and of its directory sub.
Tree(atPkg, atF, atSub, atG, inSubF, atPkgG) ==
  [d \in Dirs |-> [n \in Names |->
     CASE d = root /\ n = pkg -> atPkg
       [] d = pkgDir /\ n = f -> atF
       [] d = pkgDir /\ n = sub -> atSub
       [] d = subDir /\ n = g -> atG
       [] d = subDir /\ n = f -> inSubF
       [] d = pkgDir /\ n = g -> atPkgG
       [] OTHER -> Nil]]

\* The approved installation, and one with each kind of flaw: a wrong content,
\* a file that is not approved, a directory too many.
SmallInstallations ==
  {[entry |-> Tree(pkgDir, fFile, subDir, gFile, t[1], t[2]),
    data |-> [i \in FileInodes |-> CASE i = fFile -> t[3] [] i = gFile -> <<a, b>> [] OTHER -> <<a>>]] :
   t \in {<<Nil, Nil, <<a, b>>>>, <<Nil, Nil, <<a, a>>>>,
          <<spare, Nil, <<a, b>>>>, <<Nil, spareDir, <<a, b>>>>}}

SmallSlots ==
  {<<root, pkg, i>> : i \in {Nil, pkgDir, spareDir}} \union
  {<<pkgDir, f, i>> : i \in {Nil, fFile, gFile, spare, link}} \union
  {<<pkgDir, sub, i>> : i \in {Nil, subDir, spareDir}} \union
  {<<subDir, g, i>> : i \in {Nil, fFile, gFile, spare, link}} \union
  {<<subDir, f, i>> : i \in {Nil, spare}}
=============================================================================
