\* A package with two files in two directories; up to two changes, anywhere.
SPECIFICATION ReadinessSpec
CONSTANTS
  Nil = Nil
  pkg = pkg
  sub = sub
  f = f
  g = g
  root = root
  pkgDir = pkgDir
  subDir = subDir
  spareDir = spareDir
  fFile = fFile
  gFile = gFile
  spare = spare
  link = link
  a = a
  b = b
  Names = {pkg, sub, f, g}
  Top = root
  Dirs = {root, pkgDir, subDir, spareDir}
  FileInodes = {fFile, gFile, spare}
  Others = {link}
  Contents <- SmallContents
  PackageRoots = {pkg}
  Members <- ApprovedMembers
  Installations <- SmallInstallations
  Slots <- SmallSlots
  MaxEntries = 3
  MaxDepth = 2
  MaxChanges = 2
INVARIANTS
  ReadyMeansApproved
  RefusesForCause
