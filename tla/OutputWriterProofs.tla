-------------------------- MODULE OutputWriterProofs --------------------------
(***************************************************************************)
(* Proofs about OutputWriter for all projects: what is on disk is at every *)
(* moment one of the three kinds of content in its place (Written), and    *)
(* every kind is there as far as the run has got (Present); the rest is    *)
(* about the layout of the directories and about the placement.            *)
(***************************************************************************)
EXTENDS OutputWriter, FiniteSetTheorems, SequenceTheorems, NaturalsInduction, WellFoundedInduction, TLAPS

FilePath(f) == fs[f].path

ModPath(d) == [dir |-> d, stem |-> "mod"]

ModContent(d) == Content(0, {}, {}, ModsOf(d))

(* How far the run is: files in order, then the shared module, then the    *)
(* directories, none before those further down.                            *)
Progress ==
    /\ project \in Projects
    /\ phase \in {"files", "mods", "done", "failed"}
    /\ next \in 1 .. Len(fs) + 1
    /\ dirs \subseteq DirsOf(fs)
    /\ phase = "files" => dirs = DirsOf(fs)
    /\ (phase \in {"mods", "done"} \/ dirs # DirsOf(fs)) => next = Len(fs) + 1
    /\ phase = "done" => dirs = {}
    /\ \A d \in DirsOf(fs) \ dirs : \A e \in dirs : Len(e) > Len(d) => ~ IsPrefix(d, e)

IsFile(x) == \E f \in DOMAIN fs : f < next /\ x = FilePath(f) /\ disk[x] = FileContent(f)

IsShared(x) == HasShared /\ x = SharedPath /\ disk[x] = SharedContent

IsMod(x) ==
    \E d \in DirsOf(fs) \ dirs :
        x = ModPath(d) /\ ModsOf(d) # {} /\ disk[x] = ModContent(d)

(* Nothing is on disk but what was written. *)
Written == \A x \in DOMAIN disk : IsFile(x) \/ IsShared(x) \/ IsMod(x)

(* Nothing that was written is missing, or was overwritten. *)
Present ==
    /\ \A f \in DOMAIN fs :
          f < next => FilePath(f) \in DOMAIN disk /\ disk[FilePath(f)] = FileContent(f)
    /\ (phase \in {"mods", "done"} \/ dirs # DirsOf(fs)) /\ HasShared =>
          SharedPath \in DOMAIN disk /\ disk[SharedPath] = SharedContent
    /\ \A d \in DirsOf(fs) \ dirs :
          ModsOf(d) # {} => ModPath(d) \in DOMAIN disk /\ disk[ModPath(d)] = ModContent(d)

DiskInv == Progress /\ (PathsApart => Written /\ Present)

-----------------------------------------------------------------------------
(* A set of indexes has a first one.                                       *)
LEMMA FirstIndex ==
    ASSUME NEW I \in SUBSET Nat, I # {}
    PROVE  \E i \in I : \A j \in I : i <= j
<1> DEFINE R == OpToRel(<, Nat)
<1>1. \A x, y \in Nat : x < y => <<x, y>> \in R
  BY DEF OpToRel
<1>2. IsWellFoundedOn(R, Nat)
  BY NatLessThanWellFounded, Zenon
<1> HIDE DEF R
<1>3. PICK i \in I : \A j \in I : ~ (<<j, i>> \in R)
  BY <1>2, WFMin
<1>4. \A j \in I : ~ (j < i)
  BY <1>1, <1>3
<1> QED
  BY <1>4

(* The name of the shared module is one of its names, and no file has it.  *)
LEMMA SharedStemFree ==
    ASSUME project \in Projects
    PROVE  /\ SharedStem(fs) \in Segments /\ SharedStem(fs) # "mod"
           /\ SharedPath.dir = <<>> /\ SharedPath.stem = SharedStem(fs)
           /\ \A f \in DOMAIN fs : fs[f].path # SharedPath
<1> DEFINE free(i) == [dir |-> <<>>, stem |-> SharedStems[i]] \notin {fs[f].path : f \in DOMAIN fs}
           I == {i \in DOMAIN SharedStems : free(i)}
           first(i) == free(i) /\ \A j \in 1 .. i - 1 : ~ free(j)
<1>1. /\ SharedStems \in Seq(Segments)
      /\ \A i \in DOMAIN SharedStems : SharedStems[i] # "mod"
      /\ I # {}
  BY ProjectAssumption DEF fs
<1>2. /\ DOMAIN SharedStems \subseteq Nat
      /\ \A i \in DOMAIN SharedStems : 1 .. i - 1 \subseteq DOMAIN SharedStems
      /\ \A i \in DOMAIN SharedStems : SharedStems[i] \in Segments
  BY <1>1
<1>3. PICK i \in I : \A j \in I : i <= j
  <2> HIDE DEF free
  <2> QED
    BY <1>1, <1>2, FirstIndex
<1>4. i \in DOMAIN SharedStems /\ first(i)
  <2> HIDE DEF free
  <2> QED
    BY <1>2, <1>3
<1> DEFINE k == CHOOSE n \in DOMAIN SharedStems : first(n)
<1>5. k \in DOMAIN SharedStems /\ first(k)
  <2> HIDE DEF first
  <2> QED
    BY <1>4
<1>6. SharedStem(fs) = SharedStems[k]
  BY DEF SharedStem
<1> HIDE DEF k
<1>7. \A f \in DOMAIN fs : fs[f].path # [dir |-> <<>>, stem |-> SharedStems[k]]
  BY <1>5
<1> QED
  BY <1>1, <1>2, <1>5, <1>6, <1>7 DEF SharedPath

(* What is known of a project's files.                                     *)
LEMMA FilesTyped ==
    ASSUME project \in Projects
    PROVE  /\ fs \in Seq(SourceFiles) /\ Len(fs) \in Nat /\ DOMAIN fs = 1 .. Len(fs)
           /\ \A f \in DOMAIN fs :
                 /\ fs[f].path \in Paths /\ fs[f].path.dir \in Seq(Segments)
                 /\ fs[f].path.stem \in Segments
                 /\ fs[f].path = [dir |-> fs[f].path.dir, stem |-> fs[f].path.stem]
           /\ syn \in Seq(SyntheticItems)
<1>1. fs \in Seq(SourceFiles) /\ syn \in Seq(SyntheticItems)
  BY ProjectAssumption DEF fs, syn
<1>2. DOMAIN fs = 1 .. Len(fs) /\ Len(fs) \in Nat /\ \A f \in DOMAIN fs : fs[f] \in SourceFiles
  BY <1>1
<1>3. \A f \in DOMAIN fs : fs[f].path \in Paths
  BY <1>2 DEF SourceFiles
<1> QED
  BY <1>1, <1>2, <1>3 DEF Paths

(* The three kinds of paths are apart.                                     *)
LEMMA PathsDiffer ==
    ASSUME project \in Projects, PathsApart
    PROVE  /\ \A f, g \in DOMAIN fs : f # g => FilePath(f) # FilePath(g)
           /\ \A f \in DOMAIN fs : FilePath(f) # SharedPath
           /\ \A f \in DOMAIN fs : \A d : FilePath(f) # ModPath(d)
           /\ \A d : SharedPath # ModPath(d)
           /\ \A d, e : ModPath(d) = ModPath(e) => d = e
<1>1. \A f \in DOMAIN fs : fs[f].path.stem # "mod"
  BY DEF PathsApart
<1>2. \A d : ModPath(d).stem = "mod" /\ ModPath(d).dir = d
  BY DEF ModPath
<1>3. \A f, g \in DOMAIN fs : f # g => fs[f].path # fs[g].path
  BY DEF PathsApart
<1> QED
  BY <1>1, <1>2, <1>3, SharedStemFree DEF FilePath

-----------------------------------------------------------------------------
(* What the project alone determines, no step changes.                     *)
LEMMA ProjectFixed ==
    ASSUME project' = project
    PROVE  /\ fs' = fs /\ syn' = syn /\ HasShared' = HasShared /\ SharedPath' = SharedPath
           /\ SharedContent' = SharedContent /\ PathsApart' = PathsApart
           /\ \A f : FileContent(f)' = FileContent(f) /\ FilePath(f)' = FilePath(f)
           /\ \A d : ModsOf(d)' = ModsOf(d) /\ ModContent(d)' = ModContent(d)
<1>1. fs' = fs /\ syn' = syn
  BY DEF fs, syn
<1>2. HasShared' = HasShared /\ SharedPath' = SharedPath /\ PathsApart' = PathsApart
  BY <1>1 DEF HasShared, SharedPath, PathsApart
<1>3. SharedContent' = SharedContent
  BY <1>1 DEF SharedContent
<1>4. \A f : FileContent(f)' = FileContent(f) /\ FilePath(f)' = FilePath(f)
  BY <1>1 DEF FileContent, FromShared, FilePath
<1>5. \A d : InGraph(d)' = InGraph(d)
  BY <1>1 DEF InGraph
<1>6. \A d : ChildrenOf(d)' = ChildrenOf(d)
  BY <1>1, <1>5 DEF ChildrenOf
<1>7. \A d : ModsOf(d)' = ModsOf(d)
  BY <1>1, <1>2, <1>6 DEF ModsOf
<1>8. \A d : ModContent(d)' = ModContent(d)
  BY <1>7 DEF ModContent
<1> QED
  BY <1>1, <1>2, <1>3, <1>4, <1>7, <1>8

(* Nothing is written in the beginning.                                    *)
LEMMA DiskInit ==
    ASSUME Init
    PROVE  DiskInv
<1>1. project \in Projects /\ phase = "files" /\ next = 1 /\ dirs = DirsOf(fs) /\ DOMAIN disk = {}
  BY DEF Init, fs
<1>2. Len(fs) \in Nat
  BY <1>1, FilesTyped
<1> HIDE DEF Init
<1>3. Progress
  BY <1>1, <1>2 DEF Progress
<1>4. Written /\ Present
  BY <1>1, <1>2, FilesTyped DEF Written, Present
<1> QED
  BY <1>3, <1>4 DEF DiskInv

(* The steps of the run, one after the other, keep its progress.           *)
LEMMA ProgressStep ==
    ASSUME Progress, [Next]_vars
    PROVE  Progress' /\ project' = project
<1>1. /\ project \in Projects /\ Len(fs) \in Nat /\ next \in Nat /\ next <= Len(fs) + 1
  BY FilesTyped DEF Progress
<1>2. project' = project
  BY DEF Next, WriteFile, WriteShared, WriteMod, Finish, WriteFails, vars
<1>3. fs' = fs
  BY <1>2, ProjectFixed
<1>4. CASE WriteFile
  BY <1>1, <1>2, <1>3, <1>4 DEF WriteFile, Progress
<1>5. CASE WriteShared
  BY <1>1, <1>2, <1>3, <1>5 DEF WriteShared, Progress
<1>6. ASSUME NEW d \in dirs, WriteMod(d) PROVE Progress'
  <2>1. /\ phase = "mods" /\ phase' = phase /\ next' = next /\ dirs' = dirs \ {d}
        /\ \A e \in dirs : Len(e) > Len(d) => ~ IsPrefix(d, e)
    BY <1>6 DEF WriteMod, NextDir
  <2>2. next = Len(fs) + 1 /\ next' \in 1 .. Len(fs) + 1 /\ dirs' \subseteq DirsOf(fs)
    BY <1>1, <2>1 DEF Progress
  <2>3. \A c \in DirsOf(fs) \ dirs' : \A e \in dirs' : Len(e) > Len(c) => ~ IsPrefix(c, e)
    BY <2>1 DEF Progress
  <2> QED
    BY <1>1, <1>2, <1>3, <2>1, <2>2, <2>3 DEF Progress
<1>7. CASE Finish
  BY <1>1, <1>2, <1>3, <1>7 DEF Finish, Progress
<1>8. CASE WriteFails
  BY <1>1, <1>2, <1>3, <1>8 DEF WriteFails, Progress
<1>9. CASE UNCHANGED vars
  BY <1>1, <1>2, <1>3, <1>9 DEF vars, Progress
<1> QED
  BY <1>2, <1>4, <1>5, <1>6, <1>7, <1>8, <1>9 DEF Next

(* A file goes where nothing is, or replaces what it is.                   *)
LEMMA PutFresh ==
    ASSUME NEW m, NEW k, NEW v, NEW n, n = Put(m, k, v), k \in DOMAIN m => m[k] = v
    PROVE  /\ \A x : x \in DOMAIN n <=> x \in DOMAIN m \/ x = k
           /\ n[k] = v
           /\ \A x \in DOMAIN m : n[x] = m[x]
BY DEF Put

(* Every write is to a path where nothing is yet, or nothing else.         *)
LEMMA WritesFresh ==
    ASSUME DiskInv, [Next]_vars, PathsApart
    PROVE  \A x \in DOMAIN disk : x \in DOMAIN disk' /\ disk'[x] = disk[x]
<1>1. Progress /\ Written /\ project \in Projects
  BY DEF DiskInv, Progress
<1>2. /\ DOMAIN fs = 1 .. Len(fs) /\ Len(fs) \in Nat /\ next \in Nat \ {0}
      /\ \A x : IsMod(x) => \E d \in DirsOf(fs) \ dirs : x = ModPath(d)
      /\ \A x : IsFile(x) => \E f \in DOMAIN fs : f < next /\ x = FilePath(f)
  BY <1>1, FilesTyped DEF Progress, IsMod, IsFile
<1>3. CASE WriteFile
  <2>1. /\ phase = "files" /\ next \in DOMAIN fs
        /\ disk' = Put(disk, FilePath(next), FileContent(next))
    BY <1>2, <1>3 DEF WriteFile, FilePath
  <2>2. FilePath(next) \notin DOMAIN disk
    <3>1. ~ IsFile(FilePath(next))
      BY <1>1, <1>2, <2>1, PathsDiffer
    <3>2. ~ IsShared(FilePath(next)) /\ ~ IsMod(FilePath(next))
      BY <1>1, <1>2, <2>1, PathsDiffer DEF IsShared
    <3> QED
      BY <1>1, <3>1, <3>2 DEF Written
  <2> QED
    BY <2>1, <2>2, PutFresh
<1>4. CASE WriteShared
  <2>1. CASE ~ HasShared
    BY <1>4, <2>1 DEF WriteShared
  <2>2. CASE HasShared
    <3>1. disk' = Put(disk, SharedPath, SharedContent)
      BY <1>4, <2>2 DEF WriteShared
    <3>2. ASSUME SharedPath \in DOMAIN disk PROVE disk[SharedPath] = SharedContent
      <4>1. ~ IsFile(SharedPath) /\ ~ IsMod(SharedPath)
        BY <1>1, <1>2, PathsDiffer
      <4> QED
        BY <1>1, <3>2, <4>1 DEF Written, IsShared
    <3> QED
      BY <3>1, <3>2, PutFresh
  <2> QED
    BY <2>1, <2>2
<1>5. ASSUME NEW d \in dirs, WriteMod(d)
      PROVE  \A x \in DOMAIN disk : x \in DOMAIN disk' /\ disk'[x] = disk[x]
  <2>1. CASE ModsOf(d) = {}
    BY <1>5, <2>1 DEF WriteMod
  <2>2. CASE ModsOf(d) # {}
    <3>1. disk' = Put(disk, ModPath(d), ModContent(d))
      BY <1>5, <2>2 DEF WriteMod, ModPath, ModContent
    <3>2. ModPath(d) \notin DOMAIN disk
      <4>1. ~ IsFile(ModPath(d)) /\ ~ IsShared(ModPath(d)) /\ ~ IsMod(ModPath(d))
        BY <1>1, <1>2, PathsDiffer DEF IsShared
      <4> QED
        BY <1>1, <4>1 DEF Written
    <3> QED
      BY <3>1, <3>2, PutFresh
  <2> QED
    BY <2>1, <2>2
<1>6. CASE Finish \/ WriteFails \/ UNCHANGED vars
  BY <1>6 DEF Finish, WriteFails, vars
<1> QED
  BY <1>3, <1>4, <1>5, <1>6 DEF Next

(* Every write puts the content of its kind in its place, and what has to  *)
(* be there before the next kind is written is there.                      *)
LEMMA DiskStep ==
    ASSUME DiskInv, [Next]_vars
    PROVE  DiskInv'
<1>1. Progress /\ Progress' /\ project' = project /\ project \in Projects
  BY ProgressStep DEF DiskInv, Progress
<1>2. /\ DOMAIN fs = 1 .. Len(fs) /\ Len(fs) \in Nat /\ next \in Nat \ {0}
      /\ next \in 1 .. Len(fs) + 1
  BY <1>1, FilesTyped DEF Progress
<1>3. /\ fs' = fs /\ HasShared' = HasShared /\ SharedPath' = SharedPath
      /\ SharedContent' = SharedContent /\ PathsApart' = PathsApart
      /\ \A f : FileContent(f)' = FileContent(f) /\ FilePath(f)' = FilePath(f)
      /\ \A d : ModsOf(d)' = ModsOf(d) /\ ModContent(d)' = ModContent(d)
  BY <1>1, ProjectFixed
<1> SUFFICES ASSUME PathsApart PROVE Written' /\ Present'
  BY <1>1, <1>3 DEF DiskInv
<1>4. Written /\ Present
  BY DEF DiskInv
<1>5. \A x \in DOMAIN disk : x \in DOMAIN disk' /\ disk'[x] = disk[x]
  BY WritesFresh
<1>6. next' >= next /\ next' \in Nat /\ dirs' \subseteq dirs
  <2>1. next' = next \/ next' = next + 1
    BY DEF Next, WriteFile, WriteShared, WriteMod, Finish, WriteFails, vars
  <2>2. dirs' \subseteq dirs
    BY DEF Next, WriteFile, WriteShared, WriteMod, Finish, WriteFails, vars
  <2> QED
    BY <1>2, <2>1, <2>2
<1>7. ASSUME NEW x \in DOMAIN disk
      PROVE  (IsFile(x) \/ IsShared(x) \/ IsMod(x))'
  <2>1. disk'[x] = disk[x]
    BY <1>5
  <2>2. CASE IsFile(x)
    BY <1>2, <1>3, <1>6, <2>1, <2>2 DEF IsFile
  <2>3. CASE IsShared(x)
    BY <1>3, <2>1, <2>3 DEF IsShared
  <2>4. CASE IsMod(x)
    <3>1. PICK d \in DirsOf(fs) \ dirs :
            x = ModPath(d) /\ ModsOf(d) # {} /\ disk[x] = ModContent(d)
      BY <2>4 DEF IsMod
    <3>2. /\ d \in DirsOf(fs)' \ dirs' /\ ModsOf(d)' # {} /\ disk'[x] = ModContent(d)'
      BY <1>3, <1>6, <2>1, <3>1
    <3> QED
      BY <3>1, <3>2 DEF IsMod, ModPath
  <2> QED
    BY <1>4, <2>2, <2>3, <2>4 DEF Written
<1>8. /\ \A f \in DOMAIN fs :
            f < next => FilePath(f) \in DOMAIN disk' /\ disk'[FilePath(f)] = FileContent(f)
      /\ (phase \in {"mods", "done"} \/ dirs # DirsOf(fs)) /\ HasShared =>
            SharedPath \in DOMAIN disk' /\ disk'[SharedPath] = SharedContent
      /\ \A d \in DirsOf(fs) \ dirs :
            ModsOf(d) # {} => ModPath(d) \in DOMAIN disk' /\ disk'[ModPath(d)] = ModContent(d)
  BY <1>4, <1>5 DEF Present
<1>9. CASE WriteFile
  <2>1. /\ next \in DOMAIN fs /\ disk' = Put(disk, FilePath(next), FileContent(next))
        /\ next' = next + 1 /\ dirs' = dirs /\ phase' = phase
    BY <1>2, <1>9 DEF WriteFile, FilePath
  <2>2. /\ \A x : x \in DOMAIN disk' <=> x \in DOMAIN disk \/ x = FilePath(next)
        /\ disk'[FilePath(next)] = FileContent(next)
    BY <2>1 DEF Put
  <2>3. \A x : x = FilePath(next) => IsFile(x)'
    BY <1>2, <1>3, <2>1, <2>2 DEF IsFile
  <2>4. Written'
    BY <1>7, <2>2, <2>3 DEF Written
  <2>5. \A f \in DOMAIN fs : f < next' => f < next \/ f = next
    BY <1>2, <2>1
  <2>6. Present'
    BY <1>3, <1>8, <2>1, <2>2, <2>5 DEF Present, ModPath
  <2> QED
    BY <2>4, <2>6
<1>10. CASE WriteShared
  <2>1. /\ next' = next /\ dirs' = dirs
        /\ disk' = IF HasShared THEN Put(disk, SharedPath, SharedContent) ELSE disk
    BY <1>10 DEF WriteShared
  <2>2. CASE ~ HasShared
    <3>1. Written'
      BY <1>7, <2>1, <2>2 DEF Written
    <3>2. Present'
      BY <1>3, <1>8, <2>1, <2>2 DEF Present, ModPath
    <3> QED
      BY <3>1, <3>2
  <2>3. CASE HasShared
    <3>1. /\ \A x : x \in DOMAIN disk' <=> x \in DOMAIN disk \/ x = SharedPath
          /\ disk'[SharedPath] = SharedContent
      BY <2>1, <2>3 DEF Put
    <3>2. IsShared(SharedPath)'
      BY <1>3, <2>3, <3>1 DEF IsShared
    <3>3. Written'
      BY <1>3, <1>7, <3>1, <3>2 DEF Written
    <3>4. Present'
      BY <1>3, <1>8, <2>1, <3>1 DEF Present, ModPath
    <3> QED
      BY <3>3, <3>4
  <2> QED
    BY <2>2, <2>3
<1>11. ASSUME NEW d \in dirs, WriteMod(d) PROVE Written' /\ Present'
  <2>1. /\ next' = next /\ dirs' = dirs \ {d} /\ phase = "mods"
        /\ disk' = IF ModsOf(d) = {} THEN disk ELSE Put(disk, ModPath(d), ModContent(d))
    BY <1>11 DEF WriteMod, ModPath, ModContent
  <2>2. d \in DirsOf(fs)
    BY <1>1 DEF Progress
  <2>3. \A e \in DirsOf(fs) \ dirs' : e \in DirsOf(fs) \ dirs \/ e = d
    BY <2>1
  <2>4. CASE ModsOf(d) = {}
    <3>1. Written'
      BY <1>7, <2>1, <2>4 DEF Written
    <3>2. Present'
      BY <1>3, <1>8, <2>1, <2>3, <2>4 DEF Present, ModPath
    <3> QED
      BY <3>1, <3>2
  <2>5. CASE ModsOf(d) # {}
    <3>1. /\ \A x : x \in DOMAIN disk' <=> x \in DOMAIN disk \/ x = ModPath(d)
          /\ disk'[ModPath(d)] = ModContent(d)
      BY <2>1, <2>5 DEF Put
    <3>2. IsMod(ModPath(d))'
      <4>1. d \in DirsOf(fs)' \ dirs' /\ ModsOf(d)' # {}
            /\ disk'[ModPath(d)] = ModContent(d)'
        BY <1>3, <2>1, <2>2, <2>5, <3>1
      <4> QED
        BY <4>1 DEF IsMod, ModPath
    <3>3. Written'
      BY <1>7, <3>1, <3>2 DEF Written
    <3>4. Present'
      BY <1>3, <1>8, <2>1, <2>3, <3>1 DEF Present, ModPath
    <3> QED
      BY <3>3, <3>4
  <2> QED
    BY <2>4, <2>5
<1>12. CASE Finish \/ WriteFails \/ UNCHANGED vars
  <2>1. /\ next' = next /\ dirs' = dirs /\ disk' = disk
        /\ phase' \in {"mods", "done"} => phase \in {"mods", "done"}
    BY <1>12 DEF Finish, WriteFails, vars
  <2>2. Written'
    BY <1>7, <2>1 DEF Written
  <2>3. Present'
    BY <1>3, <1>8, <2>1 DEF Present, ModPath
  <2> QED
    BY <2>2, <2>3
<1> QED
  BY <1>9, <1>10, <1>11, <1>12 DEF Next

(* DiskInv is invariant: at every moment the disk holds exactly what the   *)
(* run has written so far, each content in its place.                      *)
THEOREM DiskHolds == Spec => []DiskInv
<1>1. Init => DiskInv
  BY DiskInit
<1>2. DiskInv /\ [Next]_vars => DiskInv'
  BY DiskStep
<1> QED
  BY <1>1, <1>2, PTL DEF Spec

(* WrittenStays, for every project: no write overwrites another.           *)
THEOREM WrittenStaysHolds == Spec => WrittenStays
<1>1. DiskInv /\ [Next]_vars =>
        [PathsApart => \A x \in DOMAIN disk : x \in DOMAIN disk' /\ disk'[x] = disk[x]]_vars
  BY WritesFresh
<1> QED
  BY <1>1, DiskHolds, PTL DEF Spec, WrittenStays

-----------------------------------------------------------------------------
(* A file's directory is a directory, and so is what is above it.          *)
LEMMA DirsTyped ==
    ASSUME project \in Projects
    PROVE  /\ <<>> \in DirsOf(fs) /\ DirsOf(fs) \subseteq Seq(Segments)
           /\ \A f \in DOMAIN fs : \A n \in 0 .. Len(fs[f].path.dir) :
                 SubSeq(fs[f].path.dir, 1, n) \in DirsOf(fs)
           /\ \A f \in DOMAIN fs : fs[f].path.dir \in DirsOf(fs)
<1>1. <<>> \in Seq(Segments) /\ <<>> \in DirsOf(fs)
  BY DEF DirsOf
<1>2. \A f \in DOMAIN fs : \A n \in 0 .. Len(fs[f].path.dir) :
         /\ SubSeq(fs[f].path.dir, 1, n) \in Seq(Segments)
         /\ SubSeq(fs[f].path.dir, 1, n) \in DirsOf(fs)
  <2>1. \A s \in Seq(Segments) : \A n \in 0 .. Len(s) : SubSeq(s, 1, n) \in Seq(Segments)
    OBVIOUS
  <2>2. \A f \in DOMAIN fs : \A n \in 0 .. Len(fs[f].path.dir) :
           SubSeq(fs[f].path.dir, 1, n) \in Prefixes(fs[f].path.dir)
    BY DEF Prefixes
  <2>3. \A f \in DOMAIN fs : Prefixes(fs[f].path.dir) \subseteq DirsOf(fs)
    BY DEF DirsOf
  <2> QED
    BY <2>1, <2>2, <2>3, FilesTyped
<1>3. \A d \in DirsOf(fs) :
        d = <<>> \/ \E f \in DOMAIN fs : \E n \in 0 .. Len(fs[f].path.dir) :
                        d = SubSeq(fs[f].path.dir, 1, n)
  BY DEF DirsOf, Prefixes
<1>4. \A f \in DOMAIN fs : /\ Len(fs[f].path.dir) \in 0 .. Len(fs[f].path.dir)
                           /\ SubSeq(fs[f].path.dir, 1, Len(fs[f].path.dir)) = fs[f].path.dir
  <2>1. \A s \in Seq(Segments) : Len(s) \in 0 .. Len(s) /\ SubSeq(s, 1, Len(s)) = s
    OBVIOUS
  <2> QED
    BY <2>1, FilesTyped
<1> QED
  BY <1>1, <1>2, <1>3, <1>4

(* A directory is above another with one segment more.                     *)
LEMMA AboveChild ==
    ASSUME NEW d, NEW e \in Seq(Segments), e # <<>>, Front(e) = d
    PROVE  /\ d \in Seq(Segments) /\ Len(e) = Len(d) + 1 /\ Last(e) \in Segments
           /\ e = Append(d, Last(e))
           /\ IsPrefix(d, e)
           /\ \A r \in Seq(Segments) : IsPrefix(r, d) => IsPrefix(r, e)
<1>1. Len(e) \in Nat \ {0} /\ d = SubSeq(e, 1, Len(e) - 1)
  BY DEF Front
<1>2. d \in Seq(Segments) /\ Len(d) = Len(e) - 1 /\ \A i \in 1 .. Len(d) : d[i] = e[i]
  <2> DEFINE n == Len(e) - 1
  <2>1. n \in Nat /\ \A i \in 1 .. n : e[i] \in Segments
    BY <1>1
  <2>2. d = SubSeq(e, 1, n)
    BY <1>1
  <2> HIDE DEF n
  <2>3. d \in Seq(Segments) /\ Len(d) = n /\ \A i \in 1 .. n : d[i] = e[i]
    BY <2>1, <2>2, SubSeqProperties
  <2> QED
    BY <2>3 DEF n
<1>3. e = Append(d, Last(e)) /\ Last(e) \in Segments
  BY <1>1, <1>2 DEF Last
<1>4. IsPrefix(d, e)
  BY <1>1, <1>2 DEF IsPrefix
<1>5. ASSUME NEW r \in Seq(Segments), IsPrefix(r, d) PROVE IsPrefix(r, e)
  <2>1. Len(r) <= Len(d) /\ SubSeq(r, 1, Len(r)) = SubSeq(d, 1, Len(r)) /\ Len(r) \in Nat
    BY <1>5 DEF IsPrefix
  <2>2. SubSeq(d, 1, Len(r)) = SubSeq(e, 1, Len(r))
    BY <1>1, <1>2, <2>1
  <2> QED
    BY <1>1, <1>2, <2>1, <2>2 DEF IsPrefix
<1> QED
  BY <1>1, <1>2, <1>3, <1>4, <1>5

(* A file's directory, where the graph knows it, declares the file; and    *)
(* the directory above declares the directory.                             *)
LEMMA FileDeclared ==
    ASSUME project \in Projects, PathsApart, NEW f \in DOMAIN fs
    PROVE  /\ InGraph(fs[f].path.dir) => fs[f].path.stem \in ModsOf(fs[f].path.dir)
           /\ \A d : (InGraph(d) /\ fs[f].path.dir # <<>> /\ Front(fs[f].path.dir) = d)
                        => Last(fs[f].path.dir) \in ModsOf(d)
<1>1. fs[f].path.stem # "index"
  BY DEF PathsApart
<1> QED
  BY <1>1 DEF ModsOf, ChildrenOf

(* Where something is declared there is the root of the graph above it or  *)
(* nothing in it but the shared module.                                    *)
LEMMA DeclaredWhere ==
    ASSUME NEW d, NEW m \in ModsOf(d)
    PROVE  \/ HasShared /\ d = <<>> /\ m = SharedStem(fs)
           \/ InGraph(d) /\ \E f \in DOMAIN fs : fs[f].path.dir = d /\ fs[f].path.stem = m
           \/ InGraph(d) /\ \E f \in DOMAIN fs :
                 fs[f].path.dir # <<>> /\ Front(fs[f].path.dir) = d /\ Last(fs[f].path.dir) = m
BY DEF ModsOf, ChildrenOf

(* The root of the graph is a directory.                                   *)
LEMMA RootTyped ==
    ASSUME project \in Projects
    PROVE  Root(fs) \in Seq(Segments)
<1> DEFINE common == {d \in DirsOf(fs) : \A f \in DOMAIN fs : IsPrefix(d, fs[f].path.dir)}
<1>1. <<>> \in common
  <2>1. \A d \in Seq(Segments) : IsPrefix(<<>>, d)
    BY DEF IsPrefix
  <2> QED
    BY <2>1, DirsTyped, FilesTyped
<1>2. fs # <<>> /\ Len(fs) \in Nat /\ DOMAIN fs = 1 .. Len(fs) /\ fs \in Seq(SourceFiles)
  BY ProjectAssumption, FilesTyped DEF fs
<1>3. 1 \in DOMAIN fs /\ Len(fs[1].path.dir) \in Nat
  BY <1>2, FilesTyped
<1> DEFINE k == Len(fs[1].path.dir)
           gaps == {k - Len(d) : d \in common}
<1>4. \A d \in common : d \in Seq(Segments) /\ Len(d) \in Nat /\ Len(d) <= k
  BY <1>3, DirsTyped, FilesTyped DEF IsPrefix
<1>5. \E d \in common : \A e \in common : Len(e) <= Len(d)
  <2> HIDE DEF common, k
  <2>1. gaps \subseteq Nat /\ gaps # {}
    BY <1>1, <1>3, <1>4 DEF k
  <2>2. PICK g \in gaps : \A h \in gaps : g <= h
    BY <2>1, FirstIndex
  <2>3. PICK d \in common : g = k - Len(d)
    BY <2>2
  <2>4. \A e \in common : k - Len(d) <= k - Len(e)
    BY <2>2, <2>3
  <2> QED
    BY <1>3, <1>4, <2>3, <2>4 DEF k
<1>6. Root(fs) \in common
  BY <1>5 DEF Root
<1> QED
  BY <1>4, <1>6

(* Below a directory of the graph there are only directories of the graph. *)
LEMMA GraphBelow ==
    ASSUME project \in Projects, NEW d, NEW e \in Seq(Segments), e # <<>>, Front(e) = d, InGraph(d)
    PROVE  InGraph(e)
BY RootTyped, AboveChild DEF InGraph

(* A mod.rs is written only when what it declares is on disk: files and    *)
(* the shared module come first, and the directories further down, whose   *)
(* own mod.rs has at least the line for a file that is in them.            *)
LEMMA DeclaredOnDisk ==
    ASSUME DiskInv
    PROVE  DeclaredModulesExist
<1> SUFFICES ASSUME PathsApart, NEW x \in DOMAIN disk, NEW m \in disk[x].mods
             PROVE  \/ [dir |-> x.dir, stem |-> m] \in DOMAIN disk
                    \/ [dir |-> Append(x.dir, m), stem |-> "mod"] \in DOMAIN disk
  BY DEF DeclaredModulesExist
<1>1. Progress /\ Written /\ Present /\ project \in Projects
  BY DEF DiskInv, Progress
<1>2. ~ IsFile(x) /\ ~ IsShared(x)
  BY DEF IsFile, IsShared, FileContent, SharedContent, Content
<1>3. PICK d \in DirsOf(fs) \ dirs :
        x = ModPath(d) /\ ModsOf(d) # {} /\ disk[x] = ModContent(d)
  BY <1>1, <1>2 DEF Written, IsMod
<1>4. x.dir = d /\ m \in ModsOf(d)
  BY <1>3 DEF ModPath, ModContent, Content
<1>5. next = Len(fs) + 1 /\ Len(fs) \in Nat /\ DOMAIN fs = 1 .. Len(fs)
      /\ \A f \in DOMAIN fs : f < next
  BY <1>1, <1>3, FilesTyped DEF Progress
<1>6. CASE HasShared /\ d = <<>> /\ m = SharedStem(fs)
  BY <1>1, <1>3, <1>4, <1>6 DEF Present, Progress, SharedPath
<1>7. ASSUME NEW f \in DOMAIN fs, fs[f].path.dir = d, fs[f].path.stem = m
      PROVE  [dir |-> d, stem |-> m] \in DOMAIN disk
  BY <1>1, <1>5, <1>7, FilesTyped DEF Present, FilePath
<1>8. ASSUME InGraph(d), NEW f \in DOMAIN fs, fs[f].path.dir # <<>>,
             Front(fs[f].path.dir) = d, Last(fs[f].path.dir) = m
      PROVE  [dir |-> Append(d, m), stem |-> "mod"] \in DOMAIN disk
  <2> DEFINE e == fs[f].path.dir
  <2>1. e \in Seq(Segments) /\ e \in DirsOf(fs)
    BY <1>1, FilesTyped, DirsTyped
  <2>2. /\ d \in Seq(Segments) /\ Len(e) = Len(d) + 1 /\ Len(d) \in Nat
        /\ e = Append(d, m) /\ IsPrefix(d, e) /\ InGraph(e)
    BY <1>1, <1>8, <2>1, AboveChild, GraphBelow
  <2>3. ModsOf(e) # {}
    BY <1>1, <2>2, FileDeclared
  <2>4. e \notin dirs
    <3>1. Len(e) > Len(d)
      BY <2>2
    <3> QED
      BY <1>1, <1>3, <2>2, <3>1 DEF Progress
  <2>5. ModPath(e) \in DOMAIN disk
    BY <1>1, <2>1, <2>3, <2>4 DEF Present
  <2> QED
    BY <2>2, <2>5 DEF ModPath
<1> QED
  BY <1>4, <1>6, <1>7, <1>8, DeclaredWhere

(* DeclaredModulesExist, for every project, whenever the run stops.        *)
THEOREM DeclaredModulesHold == Spec => []DeclaredModulesExist
<1>1. DiskInv => DeclaredModulesExist
  BY DeclaredOnDisk
<1> QED
  BY <1>1, DiskHolds, PTL

(* In the end every directory of the graph that has something to declare   *)
(* has its mod.rs.                                                         *)
LEMMA DoneDeclares ==
    ASSUME DiskInv, PathsApart, phase = "done", NEW d \in DirsOf(fs), NEW m \in ModsOf(d)
    PROVE  Declares(d, m)
<1>1. Present /\ dirs = {} /\ ModsOf(d) # {}
  BY DEF DiskInv, Progress
<1>2. ModPath(d) \in DOMAIN disk /\ disk[ModPath(d)] = ModContent(d)
  BY <1>1 DEF Present
<1> QED
  BY <1>2 DEF Declares, ModPath, ModContent, Content

(* ... so that the crate is complete.                                      *)
LEMMA DoneComplete ==
    ASSUME DiskInv
    PROVE  CrateComplete
<1> SUFFICES ASSUME phase = "done", project.inPlace, PathsApart, NoGaps,
                    NEW x \in DOMAIN disk, x.stem # "mod"
             PROVE  /\ Declares(x.dir, x.stem)
                    /\ \A n \in 1 .. Len(x.dir) : Declares(SubSeq(x.dir, 1, n - 1), x.dir[n])
  BY DEF CrateComplete, AllDeclared
<1>1. Progress /\ Written /\ Present /\ project \in Projects
  BY DEF DiskInv, Progress
<1>2. \A d \in Seq(Segments) : InGraph(d)
  <2>1. \A d \in Seq(Segments) : IsPrefix(<<>>, d)
    BY DEF IsPrefix
  <2> QED
    BY <2>1 DEF InGraph, NoGaps
<1>3. ~ IsMod(x)
  BY DEF IsMod, ModPath
<1>4. CASE IsShared(x)
  <2>1. x.dir = <<>> /\ x.stem = SharedStem(fs) /\ HasShared
    BY <1>4 DEF IsShared, SharedPath
  <2>2. x.stem \in ModsOf(x.dir) /\ x.dir \in DirsOf(fs)
    BY <1>1, <2>1, DirsTyped DEF ModsOf
  <2>3. Declares(x.dir, x.stem)
    BY <2>2, DoneDeclares
  <2>4. Len(x.dir) = 0
    BY <2>1
  <2> QED
    BY <2>3, <2>4
<1>5. CASE IsFile(x)
  <2>1. PICK f \in DOMAIN fs : x = fs[f].path
    BY <1>5 DEF IsFile, FilePath
  <2> DEFINE d == fs[f].path.dir
  <2>2. d \in Seq(Segments) /\ d \in DirsOf(fs)
    BY <1>1, FilesTyped, DirsTyped
  <2>3. Declares(x.dir, x.stem)
    BY <1>1, <1>2, <2>1, <2>2, FileDeclared, DoneDeclares
  <2>4. ASSUME NEW n \in 1 .. Len(d) PROVE Declares(SubSeq(d, 1, n - 1), d[n])
    <3> DEFINE e == SubSeq(d, 1, n)
               c == SubSeq(d, 1, n - 1)
    <3>1. /\ e \in DirsOf(fs) /\ c \in DirsOf(fs) /\ e \in Seq(Segments) /\ c \in Seq(Segments)
      BY <1>1, <2>2, DirsTyped
    <3>2. e # <<>> /\ Front(e) = c /\ Last(e) = d[n]
      <4>1. Len(e) = n /\ n \in Nat \ {0} /\ \A i \in 1 .. n : e[i] = d[i]
        BY <2>2, SubSeqProperties
      <4>2. Len(c) = n - 1 /\ \A i \in 1 .. n - 1 : c[i] = d[i]
        BY <2>2, SubSeqProperties
      <4>3. /\ Front(e) \in Seq(Segments) /\ Len(Front(e)) = n - 1
            /\ \A i \in 1 .. n - 1 : Front(e)[i] = e[i]
        BY <3>1, <4>1, SubSeqProperties DEF Front
      <4> HIDE DEF e, c
      <4>4. Front(e) = c
        <5> DEFINE b == Front(e)
        <5>1. b \in Seq(Segments) /\ c \in Seq(Segments) /\ Len(b) = n - 1 /\ Len(c) = n - 1
          BY <3>1, <4>2, <4>3
        <5>2. \A i \in 1 .. n - 1 : b[i] = c[i]
          BY <4>1, <4>2, <4>3
        <5> HIDE DEF b
        <5>3. b = c
          BY <5>1, <5>2, SeqEqual
        <5> QED
          BY <5>3 DEF b
      <4> QED
        BY <4>1, <4>4 DEF Last
    <3> HIDE DEF e, c
    <3>3. PICK g \in DOMAIN fs : fs[g].path.dir = e
      BY <3>1, <3>2 DEF NoGaps
    <3>4. d[n] \in ModsOf(c)
      BY <1>1, <1>2, <3>1, <3>2, <3>3, FileDeclared
    <3> QED
      BY <3>1, <3>4, DoneDeclares DEF c
  <2> QED
    BY <2>1, <2>3, <2>4
<1> QED
  BY <1>1, <1>3, <1>4, <1>5 DEF Written

(* CrateComplete, for every project: written to the end into the sources'  *)
(* directory, every module is declared from the root on down.              *)
THEOREM CrateCompleteHolds == Spec => []CrateComplete
<1>1. DiskInv => CrateComplete
  BY DoneComplete
<1> QED
  BY <1>1, DiskHolds, PTL

-----------------------------------------------------------------------------
(* A set with no two members is a singleton, and Cardinality says so.      *)
LEMMA OneOrMore ==
    ASSUME NEW S, IsFiniteSet(S)
    PROVE  /\ Cardinality(S) > 1 => \E a, b \in S : a # b
           /\ ~ (Cardinality(S) > 1) => S = {} \/ \E a : S = {a}
<1>1. Cardinality(S) \in Nat
  BY FS_CardinalityType
<1>2. /\ Cardinality(S) = 0 <=> S = {}
      /\ Cardinality(S) = 1 <=> \E a : S = {a}
      /\ \A a : Cardinality({a}) = 1
  BY FS_EmptySet, FS_Singleton
<1>3. ASSUME Cardinality(S) > 1 PROVE \E a, b \in S : a # b
  <2>1. S # {} /\ ~ \E a : S = {a}
    BY <1>1, <1>2, <1>3
  <2> QED
    BY <2>1
<1> QED
  BY <1>1, <1>2, <1>3

(* The files that mention a type are finitely many.                        *)
LEMMA ReferencersFinite ==
    ASSUME project \in Projects, NEW n
    PROVE  IsFiniteSet(DirectReferencers(fs, syn, n))
<1>1. DOMAIN fs = 1 .. Len(fs) /\ Len(fs) \in Nat
  BY FilesTyped
<1>2. IsFiniteSet(DOMAIN fs)
  BY <1>1, FS_Interval
<1> QED
  BY <1>2, FS_Subset DEF DirectReferencers

(* A type that some file mentions is put into that file, or is shared.     *)
LEMMA MentionedIsPlaced ==
    ASSUME project \in Projects, NEW n \in NamesOf(syn), NEW f \in DirectReferencers(fs, syn, n)
    PROVE  n \in Inline(fs, syn, f) \/ n \in Shared(fs, syn)
<1>1. CASE ReferencedBySynthetic(syn, n) \/ Cardinality(DirectReferencers(fs, syn, n)) > 1
  BY <1>1 DEF Shared
<1>2. CASE ~ ReferencedBySynthetic(syn, n) /\ ~ (Cardinality(DirectReferencers(fs, syn, n)) > 1)
  <2>1. DirectReferencers(fs, syn, n) = {f}
    BY <1>2, OneOrMore, ReferencersFinite
  <2> QED
    BY <1>2, <2>1 DEF Inline
<1> QED
  BY <1>1, <1>2

(* The item kept under a name is an item of that name.                     *)
LEMMA CodeOfNamed ==
    ASSUME project \in Projects, TypesApart, NEW n \in NamesOf(syn)
    PROVE  CodeOf(syn, n) \in DOMAIN syn /\ syn[CodeOf(syn, n)].name = n
<1>1. PICK i \in DOMAIN syn : syn[i].name = n
  BY DEF NamesOf
<1>2. ItemsFor(syn, n) = {i}
  BY <1>1 DEF ItemsFor, TypesApart
<1>3. i \in Int
  BY <1>1, FilesTyped
<1>4. CodeOf(syn, n) \in ItemsFor(syn, n)
  BY <1>2, <1>3 DEF CodeOf
<1> QED
  BY <1>1, <1>2, <1>4

(* The type an impl is for is mentioned by the one file that defines it,   *)
(* and by no generated type, so that the impl is in that file.             *)
LEMMA ImplPlaced ==
    ASSUME project \in Projects, TypesApart, ImplsAtHome, NEW n \in ImplTargets(syn)
    PROVE  /\ n \in NamesOf(syn) /\ n \notin Shared(fs, syn)
           /\ \A f \in DOMAIN fs : n \in Inline(fs, syn, f) <=> n \in fs[f].defs
<1>1. /\ ~ ReferencedBySynthetic(syn, n)
      /\ \A f \in DOMAIN fs : n \in fs[f].refs => n \in fs[f].defs
      /\ n \in NamesOf(syn)
  BY DEF ImplsAtHome, ImplTargets, NamesOf
<1>2. PICK g \in DOMAIN fs : n \in fs[g].defs
  BY DEF ImplsAtHome, UserTypes
<1>3. \A f \in DOMAIN fs : n \in fs[f].defs => f = g
  BY <1>2 DEF TypesApart
<1>4. \A f \in DOMAIN fs : f \in DirectReferencers(fs, syn, n) <=> n \in fs[f].defs
  BY <1>1 DEF DirectReferencers, Mentions
<1>5. DirectReferencers(fs, syn, n) = {g}
  BY <1>2, <1>3, <1>4 DEF DirectReferencers
<1>6. Cardinality({g}) = 1
  BY FS_Singleton
<1>7. n \notin Shared(fs, syn)
  BY <1>1, <1>5, <1>6 DEF Shared
<1> QED
  BY <1>1, <1>2, <1>3, <1>5, <1>7 DEF Inline

(* What is shared, or generated into a file, is defined there: an impl     *)
(* aside, whose type the file defines itself.                              *)
LEMMA PlacedIsDefined ==
    ASSUME project \in Projects, TypesApart, ImplsAtHome, NEW n \in NamesOf(syn)
    PROVE  /\ n \in Shared(fs, syn) => n \in Defined(SharedContent)
           /\ \A f \in DOMAIN fs : n \in Inline(fs, syn, f) => n \in Defined(FileContent(f))
<1>1. CodeOf(syn, n) \in DOMAIN syn /\ syn[CodeOf(syn, n)].name = n
  BY CodeOfNamed
<1>2. CASE n \in ImplTargets(syn)
  <2>1. n \notin Shared(fs, syn) /\ \A f \in DOMAIN fs : n \in Inline(fs, syn, f) => n \in fs[f].defs
    BY <1>2, ImplPlaced
  <2>2. \A f \in DOMAIN fs : f # 0 /\ FileContent(f).source = f
    BY FilesTyped DEF FileContent, Content
  <2> QED
    BY <2>1, <2>2 DEF Defined
<1>3. CASE n \notin ImplTargets(syn)
  <2>1. ~ syn[CodeOf(syn, n)].impl
    BY <1>1, <1>3 DEF ImplTargets
  <2>2. n \in Shared(fs, syn) => CodeOf(syn, n) \in SharedContent.items
    BY DEF SharedContent, Content, CodeFor
  <2>3. \A f \in DOMAIN fs : n \in Inline(fs, syn, f) => CodeOf(syn, n) \in FileContent(f).items
    BY DEF FileContent, Content, CodeFor
  <2> QED
    BY <1>1, <2>1, <2>2, <2>3 DEF Defined
<1> QED
  BY <1>2, <1>3

(* What a shared type, or one generated into a file, mentions of the       *)
(* generated types is that type itself, or is shared; and the file imports *)
(* it.                                                                     *)
LEMMA DependenciesImported ==
    ASSUME NEW m \in NamesOf(syn), NEW n \in NamesOf(syn), n # m, n \in RefsOf(syn, m)
    PROVE  /\ n \in Shared(fs, syn)
           /\ \A f \in DOMAIN fs : m \in Inline(fs, syn, f) => n \in SharedNames(fs, syn, f)
<1>1. n \in Dependencies(syn, m)
  BY DEF Dependencies
<1>2. ReferencedBySynthetic(syn, n)
  BY <1>1 DEF ReferencedBySynthetic
<1>3. n \in Shared(fs, syn)
  BY <1>2 DEF Shared
<1>4. ASSUME NEW f \in DOMAIN fs, m \in Inline(fs, syn, f)
      PROVE  n \in SharedNames(fs, syn, f)
  <2>1. n \notin Inline(fs, syn, f)
    BY <1>2 DEF Inline
  <2>2. n \in Reachable(syn, Inline(fs, syn, f))
    BY <1>1, <1>4 DEF Reachable
  <2> QED
    BY <1>3, <2>1, <2>2 DEF SharedNames, TransitiveShared
<1> QED
  BY <1>3, <1>4

(* A user type has one file that defines it.                               *)
LEMMA DefFileDefines ==
    ASSUME project \in Projects, TypesApart, NEW t \in UserTypes(fs)
    PROVE  DefFile(fs, t) \in DOMAIN fs /\ t \in fs[DefFile(fs, t)].defs
<1>1. PICK g \in DOMAIN fs : t \in fs[g].defs
  BY DEF UserTypes
<1>2. \A f \in DOMAIN fs : t \in fs[f].defs => f <= g
  BY <1>1, FilesTyped DEF TypesApart
<1> QED
  BY <1>1, <1>2 DEF DefFile

(* Every type a content imports from the shared module or from a user's    *)
(* file is defined there, once everything is written.                      *)
LEMMA ImportsFound ==
    ASSUME DiskInv, phase = "done", TypesApart, ImplsAtHome, PathsApart, NEW c
    PROVE  /\ \A n \in Shared(fs, syn) : Use(<<SharedStem(fs)>>, n) \in c.uses => KnownTo(c, n)
           /\ \A t \in UserTypes(fs) : UseOfUser(fs, t) \in c.uses => KnownTo(c, t)
<1>1. /\ Progress /\ Present /\ project \in Projects /\ next = Len(fs) + 1
      /\ Len(fs) \in Nat /\ DOMAIN fs = 1 .. Len(fs)
  BY FilesTyped DEF DiskInv, Progress
<1>2. ASSUME NEW n \in Shared(fs, syn), Use(<<SharedStem(fs)>>, n) \in c.uses
      PROVE  KnownTo(c, n)
  <2> DEFINE u == Use(<<SharedStem(fs)>>, n)
  <2>1. HasShared /\ n \in NamesOf(syn)
    BY DEF HasShared, Shared
  <2>2. SharedPath \in DOMAIN disk /\ disk[SharedPath] = SharedContent
    BY <1>1, <2>1 DEF Present
  <2>3. n \in Defined(disk[SharedPath])
    BY <1>1, <2>1, <2>2, PlacedIsDefined
  <2>4. Append(SharedPath.dir, SharedPath.stem) = u.module /\ u.name = n
    BY DEF SharedPath, Use
  <2> QED
    BY <1>2, <2>2, <2>3, <2>4 DEF KnownTo, Brings
<1>3. ASSUME NEW t \in UserTypes(fs), UseOfUser(fs, t) \in c.uses
      PROVE  KnownTo(c, t)
  <2> DEFINE u == UseOfUser(fs, t)
             g == DefFile(fs, t)
             x == fs[g].path
  <2>1. g \in DOMAIN fs /\ t \in fs[g].defs
    BY <1>1, DefFileDefines
  <2>2. x \in DOMAIN disk /\ disk[x] = FileContent(g)
    BY <1>1, <2>1 DEF Present, FilePath
  <2>3. t \in Defined(disk[x])
    BY <1>1, <2>1, <2>2 DEF Defined, FileContent, Content
  <2>4. x.stem # "index"
    BY <2>1 DEF PathsApart
  <2>5. Append(x.dir, x.stem) = u.module /\ u.name = t
    BY <2>4 DEF UseOfUser, ModuleOf, Use
  <2> QED
    BY <1>3, <2>2, <2>3, <2>5 DEF KnownTo, Brings
<1> QED
  BY <1>2, <1>3

(* Once everything is written, a source finds every generated type it      *)
(* mentions: it is in the file, or shared and imported.                    *)
LEMMA SourcesFindTypes ==
    ASSUME DiskInv, phase = "done", TypesApart, ImplsAtHome, PathsApart,
           NEW f \in DOMAIN fs, NEW n \in fs[f].refs \cap NamesOf(syn)
    PROVE  KnownTo(FileContent(f), n)
<1>1. project \in Projects
  BY DEF DiskInv, Progress
<1>2. f \in DirectReferencers(fs, syn, n)
  BY DEF DirectReferencers, Mentions
<1>3. CASE n \in Inline(fs, syn, f)
  BY <1>1, <1>3, PlacedIsDefined DEF KnownTo
<1>4. CASE n \in Shared(fs, syn)
  <2>1. Use(<<SharedStem(fs)>>, n) \in FileContent(f).uses
    BY <1>2, <1>4 DEF FileContent, Content, FromShared, SharedNames
  <2> QED
    BY <1>4, <2>1, ImportsFound
<1> QED
  BY <1>1, <1>2, <1>3, <1>4, MentionedIsPlaced

(* So does what is generated into a file.                                  *)
LEMMA InlineFindTypes ==
    ASSUME DiskInv, phase = "done", TypesApart, ImplsAtHome, PathsApart,
           NEW f \in DOMAIN fs, NEW i \in FileContent(f).items,
           NEW n \in syn[i].refs \cap (NamesOf(syn) \cup UserTypes(fs))
    PROVE  KnownTo(FileContent(f), n)
<1>1. project \in Projects
  BY DEF DiskInv, Progress
<1>2. PICK m \in Inline(fs, syn, f) : i = CodeOf(syn, m)
  BY DEF FileContent, Content, CodeFor
<1>3. m \in NamesOf(syn) /\ i \in ItemsFor(syn, m) /\ n \in RefsOf(syn, m)
  <2>1. m \in NamesOf(syn)
    BY DEF Inline
  <2> QED
    BY <1>1, <1>2, <2>1, CodeOfNamed DEF ItemsFor, RefsOf
<1>4. CASE n \in NamesOf(syn)
  <2>1. CASE n = m
    BY <1>1, <1>3, <2>1, PlacedIsDefined DEF KnownTo
  <2>2. CASE n # m
    <3>1. n \in Shared(fs, syn) /\ n \in SharedNames(fs, syn, f)
      BY <1>3, <1>4, <2>2, DependenciesImported
    <3>2. Use(<<SharedStem(fs)>>, n) \in FileContent(f).uses
      BY <3>1 DEF FileContent, Content, FromShared
    <3> QED
      BY <3>1, <3>2, ImportsFound
  <2> QED
    BY <2>1, <2>2
<1>5. CASE n \notin NamesOf(syn)
  <2>1. n \in UserTypes(fs) /\ n \in UserTypesInScope(fs, syn, Inline(fs, syn, f))
    BY <1>3, <1>5 DEF UserTypesInScope, UserTypeDeps
  <2>2. CASE DefFile(fs, n) = f
    <3>1. n \in fs[f].defs
      BY <1>1, <2>1, <2>2, DefFileDefines
    <3>2. FileContent(f).source = f /\ f # 0
      BY <1>1, FilesTyped DEF FileContent, Content
    <3> QED
      BY <3>1, <3>2 DEF KnownTo, Defined
  <2>3. CASE DefFile(fs, n) # f
    <3>1. UseOfUser(fs, n) \in FileContent(f).uses
      BY <2>1, <2>3 DEF FileContent, Content, InlineUserUses
    <3> QED
      BY <2>1, <3>1, ImportsFound
  <2> QED
    BY <2>2, <2>3
<1> QED
  BY <1>4, <1>5

(* So does the shared module.                                              *)
LEMMA SharedFindTypes ==
    ASSUME DiskInv, phase = "done", TypesApart, ImplsAtHome, PathsApart,
           NEW i \in SharedContent.items,
           NEW n \in syn[i].refs \cap (NamesOf(syn) \cup UserTypes(fs))
    PROVE  KnownTo(SharedContent, n)
<1>1. project \in Projects
  BY DEF DiskInv, Progress
<1>2. PICK m \in Shared(fs, syn) : i = CodeOf(syn, m)
  BY DEF SharedContent, Content, CodeFor
<1>3. m \in NamesOf(syn) /\ i \in ItemsFor(syn, m) /\ n \in RefsOf(syn, m)
  <2>1. m \in NamesOf(syn)
    BY DEF Shared
  <2> QED
    BY <1>1, <1>2, <2>1, CodeOfNamed DEF ItemsFor, RefsOf
<1>4. CASE n \in NamesOf(syn)
  <2>1. n \in Shared(fs, syn)
    BY <1>2, <1>3, <1>4, DependenciesImported
  <2> QED
    BY <1>1, <1>4, <2>1, PlacedIsDefined DEF KnownTo
<1>5. CASE n \notin NamesOf(syn)
  <2>1. n \in UserTypes(fs) /\ n \in UserTypesInScope(fs, syn, Shared(fs, syn))
    BY <1>2, <1>3, <1>5 DEF UserTypesInScope, UserTypeDeps
  <2>2. UseOfUser(fs, n) \in SharedContent.uses
    BY <2>1 DEF SharedContent, Content, SharedUserUses
  <2> QED
    BY <2>1, <2>2, ImportsFound
<1> QED
  BY <1>4, <1>5

(* A set of items has the one impl of a name where it has that name.       *)
LEMMA ImplIsCode ==
    ASSUME project \in Projects, TypesApart, NEW i \in DOMAIN syn, NEW S, S \subseteq NamesOf(syn)
    PROVE  i \in CodeFor(syn, S) <=> syn[i].name \in S
<1>1. ASSUME NEW m \in S, i = CodeOf(syn, m) PROVE syn[i].name = m
  BY <1>1, CodeOfNamed
<1>2. ASSUME syn[i].name \in S PROVE CodeOf(syn, syn[i].name) = i
  BY <1>2, CodeOfNamed DEF TypesApart
<1> QED
  BY <1>1, <1>2 DEF CodeFor

(* An impl is where the type is that it is for.                            *)
LEMMA ImplWithType ==
    ASSUME project \in Projects, TypesApart, ImplsAtHome, NEW i \in DOMAIN syn, syn[i].impl
    PROVE  /\ \A f \in DOMAIN fs :
                 syn[i].name \in Defined(FileContent(f)) <=> i \in FileContent(f).items
           /\ syn[i].name \notin Defined(SharedContent) /\ i \notin SharedContent.items
           /\ \A d : syn[i].name \notin Defined(ModContent(d)) /\ i \notin ModContent(d).items
<1> DEFINE n == syn[i].name
<1>1. /\ n \in ImplTargets(syn) /\ n \in NamesOf(syn) /\ n \notin Shared(fs, syn)
      /\ \A f \in DOMAIN fs : n \in Inline(fs, syn, f) <=> n \in fs[f].defs
  <2>1. n \in ImplTargets(syn)
    BY DEF ImplTargets
  <2> QED
    BY <2>1, ImplPlaced
<1>2. \A j \in DOMAIN syn : ~ syn[j].impl => syn[j].name # n
  BY DEF TypesApart
<1>3. ASSUME NEW S, S \subseteq NamesOf(syn) PROVE CodeFor(syn, S) \subseteq DOMAIN syn
  BY <1>3, CodeOfNamed DEF CodeFor
<1>4. ASSUME NEW f \in DOMAIN fs
      PROVE  n \in Defined(FileContent(f)) <=> i \in FileContent(f).items
  <2>1. /\ FileContent(f).items = CodeFor(syn, Inline(fs, syn, f))
        /\ FileContent(f).source = f /\ f # 0
    BY FilesTyped DEF FileContent, Content
  <2>2. Inline(fs, syn, f) \subseteq NamesOf(syn)
    BY DEF Inline
  <2>3. i \in FileContent(f).items <=> n \in Inline(fs, syn, f)
    BY <2>1, <2>2, ImplIsCode
  <2>4. n \in Defined(FileContent(f)) <=> n \in fs[f].defs
    <3>1. \A j \in FileContent(f).items : j \in DOMAIN syn
      BY <1>3, <2>1, <2>2
    <3> QED
      BY <1>2, <2>1, <3>1 DEF Defined
  <2> QED
    BY <1>1, <2>3, <2>4
<1>5. n \notin Defined(SharedContent) /\ i \notin SharedContent.items
  <2>1. /\ SharedContent.items = CodeFor(syn, Shared(fs, syn))
        /\ SharedContent.source = 0
    BY DEF SharedContent, Content
  <2>2. Shared(fs, syn) \subseteq NamesOf(syn)
    BY DEF Shared
  <2>3. i \notin SharedContent.items
    BY <1>1, <2>1, <2>2, ImplIsCode
  <2>4. \A j \in SharedContent.items : j \in DOMAIN syn
    BY <1>3, <2>1, <2>2
  <2> QED
    BY <1>2, <2>1, <2>3, <2>4 DEF Defined
<1>6. \A d : n \notin Defined(ModContent(d)) /\ i \notin ModContent(d).items
  BY DEF ModContent, Content, Defined
<1> QED
  BY <1>4, <1>5, <1>6

(* Together: everything is in scope in what is on disk in the end.         *)
LEMMA DoneInScope ==
    ASSUME DiskInv
    PROVE  NamesInScope
<1> SUFFICES ASSUME phase = "done", TypesApart, ImplsAtHome, PathsApart, NEW x \in DOMAIN disk,
                    NEW c, c = disk[x]
             PROVE  /\ c.source # 0 => \A n \in fs[c.source].refs \cap NamesOf(syn) : KnownTo(c, n)
                    /\ \A i \in c.items :
                          \A n \in syn[i].refs \cap (NamesOf(syn) \cup UserTypes(fs)) : KnownTo(c, n)
                    /\ \A i \in DOMAIN syn :
                          syn[i].impl => (syn[i].name \in Defined(c) <=> i \in c.items)
  BY DEF NamesInScope
<1>1. project \in Projects /\ Written
  BY DEF DiskInv, Progress
<1>2. CASE IsFile(x)
  <2>1. PICK f \in DOMAIN fs : c = FileContent(f)
    BY <1>2 DEF IsFile
  <2>2. c.source = f
    BY <2>1 DEF FileContent, Content
  <2> QED
    BY <1>1, <2>1, <2>2, SourcesFindTypes, InlineFindTypes, ImplWithType
<1>3. CASE IsShared(x)
  <2>1. c = SharedContent /\ c.source = 0
    BY <1>3 DEF IsShared, SharedContent, Content
  <2> QED
    BY <1>1, <2>1, SharedFindTypes, ImplWithType
<1>4. CASE IsMod(x)
  <2>1. PICK d \in DirsOf(fs) : c = ModContent(d)
    BY <1>4 DEF IsMod
  <2>2. c.source = 0 /\ c.items = {}
    BY <2>1 DEF ModContent, Content
  <2> QED
    BY <1>1, <2>1, <2>2, ImplWithType
<1> QED
  BY <1>1, <1>2, <1>3, <1>4 DEF Written

(* NamesInScope, for every project: a directory that is written to the end *)
(* has every generated type, and every user type one mentions, in scope.   *)
THEOREM NamesInScopeHolds == Spec => []NamesInScope
<1>1. DiskInv => NamesInScope
  BY DoneInScope
<1> QED
  BY <1>1, DiskHolds, PTL

=============================================================================
