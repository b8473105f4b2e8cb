------------------------- MODULE OutputFilesProofs --------------------------
(***************************************************************************)
(* The output files: what an invocation leaves behind, for every tree of   *)
(* paths and whatever the operating system refuses, and what is in a file, *)
(* for every Writer and every width of the header words.                   *)
(*                                                                         *)
(* Two facts about the file system carry the first part: a directory is    *)
(* never removed or turned into a file, since only what is no directory is *)
(* written to; and what is made while the outputs are prepared was needed  *)
(* by one of them.  The second part gives every slab a place, from the     *)
(* sizes of those before it; the layout computes that place, the appends   *)
(* reach it, and the reader goes back to it.                               *)
(***************************************************************************)
EXTENDS RunLifecycle, NetcdfLayout, RecursionFacts, SequenceTheorems, TLAPS

(* Paths and their ancestors.                                              *)
LEMMA PathIsAncestor ==
  ASSUME NEW p \in Paths
  PROVE  p \in Ancestors(p) /\ <<>> \in Ancestors(p)
<1>1. p \in Seq(STRING) /\ Len(p) \in Nat
  BY PathsAssumption
<1>2. SubSeq(p, 1, Len(p)) = p
  BY <1>1, SubSeqFull
<1>3. SubSeq(p, 1, 0) = <<>>
  BY SubSeqEmpty
<1>4. 0 \in 0 .. Len(p) /\ Len(p) \in 0 .. Len(p)
  BY <1>1
<1> QED
  BY <1>2, <1>3, <1>4, Zenon DEF Ancestors

LEMMA ParentIsAncestor ==
  ASSUME NEW p \in Paths \ {<<>>}
  PROVE  Front(p) \in Ancestors(p) /\ Front(p) \in Paths
<1>1. p \in Seq(STRING) /\ Len(p) \in Nat /\ Len(p) > 0
  BY PathsAssumption
<1>2. Front(p) = SubSeq(p, 1, Len(p) - 1) /\ Len(p) - 1 \in 0 .. Len(p)
  BY <1>1 DEF Front
<1>3. Front(p) \in Ancestors(p)
  BY <1>2 DEF Ancestors
<1> QED
  BY <1>3, PathsAssumption

(* A prefix of a prefix is a prefix.                                       *)
LEMMA PrefixOfPrefix ==
  ASSUME NEW p \in Seq(STRING), NEW n \in 0 .. Len(p), NEW m \in 0 .. n
  PROVE  SubSeq(SubSeq(p, 1, n), 1, m) = SubSeq(p, 1, m)
<1> DEFINE a == SubSeq(p, 1, n)
<1>1. Len(p) \in Nat /\ \A c \in 1 .. Len(p) : p[c] \in STRING
  OBVIOUS
<1>2. /\ a \in Seq(STRING) /\ Len(a) = n
      /\ \A c \in 1 .. n : a[c] = p[c]
  BY <1>1, SubSeqProperties
<1> HIDE DEF a
<1>3. /\ SubSeq(a, 1, m) \in Seq(STRING) /\ Len(SubSeq(a, 1, m)) = m
      /\ \A c \in 1 .. m : SubSeq(a, 1, m)[c] = p[c]
  <2>1. \A c \in 1 .. m : a[c] \in STRING
    BY <1>2
  <2>2. /\ SubSeq(a, 1, m) \in Seq(STRING)
        /\ Len(SubSeq(a, 1, m)) = IF 1 <= m THEN m - 1 + 1 ELSE 0
        /\ \A c \in 1 .. m - 1 + 1 : SubSeq(a, 1, m)[c] = a[1 + c - 1]
    BY <2>1, SubSeqProperties
  <2> QED BY <2>2, <1>2
<1>4. /\ SubSeq(p, 1, m) \in Seq(STRING) /\ Len(SubSeq(p, 1, m)) = m
      /\ \A c \in 1 .. m : SubSeq(p, 1, m)[c] = p[c]
  <2>1. /\ SubSeq(p, 1, m) \in Seq(STRING)
        /\ Len(SubSeq(p, 1, m)) = IF 1 <= m THEN m - 1 + 1 ELSE 0
        /\ \A c \in 1 .. m - 1 + 1 : SubSeq(p, 1, m)[c] = p[1 + c - 1]
    BY <1>1, SubSeqProperties
  <2> QED BY <2>1
<1> QED
  BY <1>3, <1>4, SeqEqual DEF a

LEMMA AncestorsNest ==
  ASSUME NEW p \in Paths, NEW a \in Ancestors(p)
  PROVE  /\ a \in Paths /\ Ancestors(a) \subseteq Ancestors(p)
         /\ a # <<>> => Front(a) \in Ancestors(p)
<1>1. p \in Seq(STRING) /\ Len(p) \in Nat /\ a \in Paths
  BY PathsAssumption
<1>2. PICK n \in 0 .. Len(p) : a = SubSeq(p, 1, n)
  BY DEF Ancestors
<1>3. Len(a) = n
  BY <1>1, <1>2, SubSeqProperties
<1>4. ASSUME NEW b \in Ancestors(a) PROVE b \in Ancestors(p)
  <2>1. PICK m \in 0 .. n : b = SubSeq(a, 1, m)
    BY <1>3, <1>4 DEF Ancestors
  <2>2. b = SubSeq(p, 1, m) /\ m \in 0 .. Len(p)
    BY <1>1, <1>2, <2>1, PrefixOfPrefix
  <2> QED BY <2>2 DEF Ancestors
<1>5. ASSUME a # <<>> PROVE Front(a) \in Ancestors(p)
  BY <1>1, <1>4, <1>5, ParentIsAncestor
<1> QED
  BY <1>1, <1>4, <1>5
-----------------------------------------------------------------------------
Phases == AfterPrepare \union {"read", "prepare map", "prepare his", "exit"}

(* A running process has no exit code, and a file being filled is wanted   *)
(* and is no directory.                                                    *)
Running ==
  /\ phase # "exit" => code = -1
  /\ phase = "fill map" => Written("map") /\ ~ IsDir(path["map"])
  /\ phase = "fill his" => Written("his") /\ ~ IsDir(path["his"])

(* Once the map's turn in prepare is over its parent is there.             *)
MapReady ==
  phase = "prepare his" /\ "map" \in enabled => IsDir(Front(path["map"]))

(* While the history is written the map is done, unless it is being        *)
(* written to the same path.                                               *)
MapDone ==
  phase \in {"write his", "fill his"} /\ "map" \in enabled =>
    \/ fs[path["map"]] = "map"
    \/ phase = "fill his" /\ path["map"] = path["his"]

(* A history of this run is the last thing it writes.                      *)
HisIsLast ==
  enabled = Families /\ path["map"] # path["his"] /\ fs[path["his"]] = "his" =>
    phase = "exit" /\ fs[path["map"]] = "map"

Shape ==
  /\ TypeOK
  /\ path \in [Families -> Paths \ {<<>>}]
  /\ before \in [Paths -> Entries]
Inv ==
  /\ Shape /\ Running /\ MapReady /\ ParentsReady /\ OnlyNeededDirectories
  /\ MapDone /\ HisIsLast /\ SuccessMeansWritten
-----------------------------------------------------------------------------
(* The file systems a step can leave.                                      *)
LEMMA ParentOfOutput ==
  ASSUME Shape, NEW f \in Families
  PROVE  /\ path[f] \in Paths /\ path[f] # <<>>
         /\ Front(path[f]) \in Paths
         /\ Front(path[f]) \in Ancestors(Front(path[f]))
<1>1. path[f] \in Paths \ {<<>>}
  BY DEF Shape
<1>2. Front(path[f]) \in Paths
  BY <1>1, ParentIsAncestor
<1> QED
  BY <1>1, <1>2, PathIsAncestor

(* Making the directories up to a leaves a tree in which nothing changed   *)
(* but what was missing.                                                   *)
LEMMA DirectoriesMade ==
  ASSUME Shape, NEW d \in Paths, NEW a \in Ancestors(d),
         \A q \in Ancestors(d) : fs[q] \in {"none", "dir"}
  PROVE  /\ WithDirectory(a) \in [Paths -> Entries]
         /\ Tree(WithDirectory(a))
         /\ \A q \in Paths : \/ WithDirectory(a)[q] = fs[q]
                             \/ /\ fs[q] = "none" /\ WithDirectory(a)[q] = "dir"
                                /\ q \in Ancestors(d)
         /\ \A q \in Ancestors(a) : WithDirectory(a)[q] = "dir"
<1> DEFINE g == WithDirectory(a)
<1>1. a \in Paths /\ Ancestors(a) \subseteq Ancestors(d)
  BY AncestorsNest
<1>2. Ancestors(a) \subseteq Paths
  BY <1>1, PathsAssumption
<1>3. /\ g \in [Paths -> Entries]
      /\ \A q \in Paths : g[q] = IF q \in Ancestors(a) THEN "dir" ELSE fs[q]
  BY DEF Shape, TypeOK, WithDirectory, Entries
<1> HIDE DEF g
<1>4. Tree(g)
  <2>1. g[<<>>] = "dir"
    BY <1>1, <1>3, PathIsAncestor, PathsAssumption
  <2>2. ASSUME NEW p \in Paths, p # <<>>, g[p] # "none" PROVE g[Front(p)] = "dir"
    <3>1. Front(p) \in Paths
      BY <2>2, ParentIsAncestor
    <3>2. CASE p \in Ancestors(a)
      <4>1. Front(p) \in Ancestors(a)
        BY <1>1, <2>2, <3>2, AncestorsNest
      <4> QED BY <3>1, <4>1, <1>3
    <3>3. CASE p \notin Ancestors(a)
      <4>1. fs[p] # "none"
        BY <2>2, <3>3, <1>3
      <4>2. fs[Front(p)] = "dir"
        BY <2>2, <4>1 DEF Shape, TypeOK, Tree
      <4> QED BY <3>1, <4>2, <1>3
    <3> QED BY <3>2, <3>3
  <2> QED BY <2>1, <2>2 DEF Tree
<1> QED
  BY <1>1, <1>2, <1>3, <1>4 DEF g

(* Writing a file whose parent is a directory leaves a tree.               *)
LEMMA FileWritten ==
  ASSUME Shape, NEW p \in Paths \ {<<>>}, ~ IsDir(p), IsDir(Front(p)),
         NEW e \in Entries \ {"none", "dir"}
  PROVE  /\ [fs EXCEPT ![p] = e] \in [Paths -> Entries]
         /\ Tree([fs EXCEPT ![p] = e])
<1> DEFINE g == [fs EXCEPT ![p] = e]
<1>1. /\ g \in [Paths -> Entries]
      /\ \A q \in Paths : g[q] = IF q = p THEN e ELSE fs[q]
  BY DEF Shape, TypeOK
<1> HIDE DEF g
<1>2. g[<<>>] = "dir"
  BY <1>1, PathsAssumption DEF Shape, TypeOK, Tree
<1>3. ASSUME NEW q \in Paths, q # <<>>, g[q] # "none" PROVE g[Front(q)] = "dir"
  <2>1. Front(q) \in Paths
    BY <1>3, ParentIsAncestor
  <2>2. fs[Front(q)] = "dir"
    BY <1>1, <1>3 DEF Shape, TypeOK, Tree, IsDir
  <2> QED BY <1>1, <2>1, <2>2 DEF IsDir
<1> QED
  BY <1>1, <1>2, <1>3 DEF g, Tree
-----------------------------------------------------------------------------
LEMMA InvInit == Init => Inv
<1> SUFFICES ASSUME Init PROVE Inv
  OBVIOUS
<1>1. /\ fs \in [Paths -> Entries] /\ Tree(fs) /\ before = fs
      /\ \A p \in Paths : fs[p] \notin {"his", "map"}
      /\ path \in [Families -> Paths \ {<<>>}] /\ enabled \subseteq Families
  BY DEF Init, Entries
<1>2. path \in [Families -> Paths] /\ nobs \in Nat
  BY DEF Init
<1>3. phase = "read" /\ code = -1
  BY DEF Init
<1>4. Shape
  BY <1>1, <1>2, <1>3 DEF Shape, TypeOK
<1>5. Running /\ MapReady /\ ParentsReady /\ MapDone /\ SuccessMeansWritten
  BY <1>3 DEF Running, MapReady, ParentsReady, MapDone, SuccessMeansWritten, AfterPrepare
<1>6. OnlyNeededDirectories
  BY <1>1 DEF OnlyNeededDirectories
<1>7. HisIsLast
  BY <1>1, <1>2 DEF HisIsLast, Families
<1> QED
  BY <1>4, <1>5, <1>6, <1>7 DEF Inv

(* Steps that leave the file system alone or make directories for output f *)
(* keep what concerns directories only.                                    *)
DirectoriesOnly(f) ==
  /\ UNCHANGED inputs
  /\ fs' \in [Paths -> Entries] /\ Tree(fs')
  /\ \A q \in Paths :
       \/ fs'[q] = fs[q]
       \/ /\ fs[q] = "none" /\ fs'[q] = "dir"
          /\ f \in enabled /\ q \in Ancestors(Front(path[f]))

LEMMA PrepareStep ==
  ASSUME Inv, NEW f \in Families, NEW at, NEW next, Prepare(f, at, next)
  PROVE  /\ DirectoriesOnly(f)
         /\ \/ /\ phase' = next /\ code' = code
               /\ f \in enabled => fs'[Front(path[f])] = "dir"
            \/ phase' = "exit" /\ code' = EXIT_USAGE
<1> DEFINE d == Front(path[f])
<1>1. /\ path[f] \in Paths /\ d \in Paths /\ d \in Ancestors(d)
      /\ fs \in [Paths -> Entries] /\ Tree(fs) /\ Shape /\ UNCHANGED inputs
  BY ParentOfOutput DEF Inv, Shape, TypeOK, Prepare
<1>2. CASE /\ fs' = fs
           /\ \/ phase' = next /\ code' = code /\ (f \in enabled => Skippable(path[f]))
              \/ Exit(EXIT_USAGE)
  <2>1. DirectoriesOnly(f)
    BY <1>1, <1>2 DEF DirectoriesOnly
  <2> QED
    BY <1>1, <1>2, <2>1 DEF Exit, Skippable, IsDir
<1>3. CASE /\ f \in enabled /\ Creatable(path[f])
           /\ \/ fs' = WithDirectory(Needed(path[f])) /\ Goto(next)
              \/ /\ \E a \in Ancestors(Needed(path[f])) : fs' = WithDirectory(a)
                 /\ Exit(EXIT_USAGE)
  <2>2. \A q \in Ancestors(d) : fs[q] \in {"none", "dir"}
    BY <1>3 DEF Creatable
  <2>3. PICK a \in Ancestors(d) :
          /\ fs' = WithDirectory(a)
          /\ \/ a = d /\ Goto(next)
             \/ Exit(EXIT_USAGE)
    BY <1>1, <1>3 DEF Needed
  <2>4. /\ fs' \in [Paths -> Entries] /\ Tree(fs')
        /\ \A q \in Paths : \/ fs'[q] = fs[q]
                            \/ /\ fs[q] = "none" /\ fs'[q] = "dir"
                               /\ q \in Ancestors(d)
        /\ \A q \in Ancestors(a) : fs'[q] = "dir"
    BY <1>1, <2>2, <2>3, DirectoriesMade
  <2>5. DirectoriesOnly(f)
    BY <1>1, <1>3, <2>4 DEF DirectoriesOnly
  <2> QED
    BY <1>1, <2>3, <2>4, <2>5 DEF Goto, Exit
<1> QED
  BY <1>2, <1>3 DEF Prepare, Prepared, Goto

LEMMA DirectoriesKeep ==
  ASSUME Inv, NEW f \in Families, DirectoriesOnly(f)
  PROVE  /\ OnlyNeededDirectories'
         /\ \A g \in Families :
              IsDir(Front(path[g])) => fs'[Front(path[g])] = "dir"
         /\ fs'[path["his"]] = "his" => fs[path["his"]] = "his"
<1>1. UNCHANGED <<enabled, path, before>>
  BY DEF DirectoriesOnly, inputs
<1>2. \A p \in Paths : fs[p] = "dir" => fs'[p] = "dir"
  BY DEF DirectoriesOnly
<1>3. ASSUME NEW p \in Paths, before[p] # "dir", fs'[p] = "dir"
      PROVE  \E g \in enabled : p \in Ancestors(Front(path[g]))
  BY <1>3 DEF DirectoriesOnly, Inv, OnlyNeededDirectories
<1>4. OnlyNeededDirectories'
  BY <1>1, <1>2, <1>3 DEF Inv, OnlyNeededDirectories
<1>5. \A g \in Families : path[g] \in Paths /\ Front(path[g]) \in Paths
  BY ParentOfOutput DEF Inv
<1> QED
  BY <1>2, <1>4, <1>5 DEF DirectoriesOnly, IsDir, Families

LEMMA NoSuccessYet == code' \in {-1, 2} => SuccessMeansWritten'
<1> SUFFICES ASSUME code' \in {-1, 2} PROVE (code = 0)' => FALSE
  BY Zenon DEF SuccessMeansWritten
<1> QED OBVIOUS

LEMMA PrepareMapInv == Inv /\ PrepareMap => Inv'
<1> SUFFICES ASSUME Inv, PrepareMap PROVE Inv'
  OBVIOUS
<1>1. phase = "prepare map" /\ code = -1
  BY DEF PrepareMap, Prepare, Inv, Running
<1>2. /\ DirectoriesOnly("map")
      /\ \/ /\ phase' = "prepare his" /\ code' = code
            /\ "map" \in enabled => fs'[Front(path["map"])] = "dir"
         \/ phase' = "exit" /\ code' = EXIT_USAGE
  BY PrepareStep DEF PrepareMap, Families
<1>3. UNCHANGED <<enabled, path, nobs, before>>
  BY <1>2 DEF DirectoriesOnly, inputs
<1>4. OnlyNeededDirectories' /\ (fs'[path["his"]] = "his" => fs[path["his"]] = "his")
  BY <1>2, DirectoriesKeep DEF Families
<1>5. Shape'
  BY <1>1, <1>2, <1>3 DEF Inv, Shape, TypeOK, DirectoriesOnly, EXIT_USAGE
<1>6. Running' /\ MapReady' /\ ParentsReady' /\ MapDone' /\ SuccessMeansWritten'
  <2>1. code' \in {-1, 2} /\ phase' \in {"prepare his", "exit"}
    BY <1>1, <1>2 DEF EXIT_USAGE
  <2>2. Running'
    BY <1>1, <1>2 DEF Running
  <2>3. MapReady'
    BY <1>2, <1>3 DEF MapReady, IsDir
  <2>4. ParentsReady' /\ MapDone'
    BY <2>1 DEF ParentsReady, MapDone, AfterPrepare
  <2>5. SuccessMeansWritten'
    BY <2>1, NoSuccessYet
  <2> QED BY <2>2, <2>3, <2>4, <2>5
<1>7. HisIsLast'
  BY <1>1, <1>3, <1>4 DEF Inv, HisIsLast
<1> QED
  BY <1>4, <1>5, <1>6, <1>7 DEF Inv

LEMMA PrepareHisInv == Inv /\ PrepareHis => Inv'
<1> SUFFICES ASSUME Inv, PrepareHis PROVE Inv'
  OBVIOUS
<1>1. phase = "prepare his" /\ code = -1
  BY DEF PrepareHis, Prepare, Inv, Running
<1>2. /\ DirectoriesOnly("his")
      /\ \/ /\ phase' = "load" /\ code' = code
            /\ "his" \in enabled => fs'[Front(path["his"])] = "dir"
         \/ phase' = "exit" /\ code' = EXIT_USAGE
  BY PrepareStep DEF PrepareHis, Families
<1>3. UNCHANGED <<enabled, path, nobs, before>>
  BY <1>2 DEF DirectoriesOnly, inputs
<1>4. /\ OnlyNeededDirectories'
      /\ fs'[path["his"]] = "his" => fs[path["his"]] = "his"
      /\ IsDir(Front(path["map"])) => fs'[Front(path["map"])] = "dir"
  BY <1>2, DirectoriesKeep DEF Families
<1>5. Shape'
  BY <1>1, <1>2, <1>3 DEF Inv, Shape, TypeOK, DirectoriesOnly, EXIT_USAGE, AfterPrepare
<1>6. Running' /\ MapReady' /\ MapDone' /\ SuccessMeansWritten'
  <2>1. code' \in {-1, 2} /\ phase' \in {"load", "exit"}
    BY <1>1, <1>2 DEF EXIT_USAGE
  <2>2. Running'
    BY <1>1, <1>2 DEF Running
  <2>3. MapReady' /\ MapDone'
    BY <2>1 DEF MapReady, MapDone
  <2>4. SuccessMeansWritten'
    BY <2>1, NoSuccessYet
  <2> QED BY <2>2, <2>3, <2>4
<1>7. ParentsReady'
  <2> SUFFICES ASSUME phase' \in AfterPrepare, NEW f \in enabled'
               PROVE  fs'[Front(path[f])] = "dir"
    BY <1>3 DEF ParentsReady, IsDir
  <2>1. phase' = "load" /\ f \in enabled /\ f \in Families
    BY <1>2, <1>3 DEF AfterPrepare, Inv, Shape, TypeOK
  <2>2. CASE f = "map"
    BY <1>1, <1>4, <2>1, <2>2 DEF Inv, MapReady
  <2>3. CASE f = "his"
    BY <1>2, <2>1, <2>3
  <2> QED BY <2>1, <2>2, <2>3 DEF Families
<1>8. HisIsLast'
  BY <1>1, <1>3, <1>4 DEF Inv, HisIsLast
<1> QED
  BY <1>4, <1>5, <1>6, <1>7, <1>8 DEF Inv

(* Steps that touch neither files nor directories.                         *)
LEMMA ReadInv == Inv /\ (ReadInputs \/ LoadAndRun) => Inv'
<1> SUFFICES ASSUME Inv, ReadInputs \/ LoadAndRun PROVE Inv'
  OBVIOUS
<1>1. /\ UNCHANGED <<enabled, path, nobs, before, fs>>
      /\ phase \in {"read", "load"} /\ code = -1 /\ code' \in {-1, 2}
      /\ \/ phase' = "exit"
         \/ /\ code' = -1
            /\ \/ phase' = "prepare map"
               \/ phase = "load" /\ phase' = "write map"
  BY DEF ReadInputs, LoadAndRun, Goto, Exit, EXIT_USAGE, inputs, Inv, Running
<1>2. Shape'
  BY <1>1 DEF Inv, Shape, TypeOK, AfterPrepare, EXIT_USAGE
<1>3. Running' /\ MapReady' /\ MapDone' /\ SuccessMeansWritten'
  BY <1>1, NoSuccessYet DEF Running, MapReady, MapDone
<1>4. ParentsReady' /\ OnlyNeededDirectories'
  BY <1>1 DEF Inv, ParentsReady, OnlyNeededDirectories, AfterPrepare, IsDir
<1>5. HisIsLast'
  BY <1>1 DEF Inv, HisIsLast
<1> QED
  BY <1>2, <1>3, <1>4, <1>5 DEF Inv

LEMMA DieInv == Inv /\ Die => Inv'
<1> SUFFICES ASSUME Inv, Die PROVE Inv'
  OBVIOUS
<1>1. /\ UNCHANGED <<enabled, path, nobs, before, fs>>
      /\ phase' = "exit" /\ code = -1 /\ code' = -1
  BY DEF Die, inputs, Inv, Running
<1>2. Shape'
  BY <1>1 DEF Inv, Shape, TypeOK, AfterPrepare, EXIT_USAGE
<1>3. Running' /\ MapReady' /\ MapDone' /\ SuccessMeansWritten' /\ ParentsReady'
  BY <1>1, NoSuccessYet DEF Running, MapReady, MapDone, ParentsReady, AfterPrepare
<1>4. OnlyNeededDirectories' /\ HisIsLast'
  BY <1>1 DEF Inv, OnlyNeededDirectories, HisIsLast
<1> QED
  BY <1>2, <1>3, <1>4 DEF Inv
-----------------------------------------------------------------------------
(* Writing: only the file of an output that is wanted changes, and what    *)
(* concerns directories is kept.                                           *)
FileOnly(f) ==
  /\ UNCHANGED inputs
  /\ Written(f) /\ ~ IsDir(path[f])
  /\ \E e \in {"partial", f} : fs' = [fs EXCEPT ![path[f]] = e]

LEMMA FileKeeps ==
  ASSUME Inv, NEW f \in Families, FileOnly(f), phase \in AfterPrepare,
         phase' \in Phases, code' \in {-1, 0, EXIT_USAGE}
  PROVE  Shape' /\ ParentsReady' /\ OnlyNeededDirectories'
<1>1. PICK e \in {"partial", f} : fs' = [fs EXCEPT ![path[f]] = e]
  BY DEF FileOnly
<1>2. /\ UNCHANGED <<enabled, path, nobs, before>> /\ f \in enabled
      /\ ~ IsDir(path[f]) /\ Shape
  BY DEF FileOnly, inputs, Written, Inv
<1>3. path[f] \in Paths \ {<<>>} /\ IsDir(Front(path[f]))
  BY <1>2, ParentOfOutput DEF Inv, ParentsReady
<1>4. e \in Entries \ {"none", "dir"}
  BY DEF Entries, Families
<1>5. fs' \in [Paths -> Entries] /\ Tree(fs')
  BY <1>1, <1>2, <1>3, <1>4, FileWritten
<1>6. Shape'
  BY <1>2, <1>5 DEF Shape, TypeOK, Phases
<1>7. \A q \in Paths : (fs[q] = "dir") = (fs'[q] = "dir")
  BY <1>1, <1>2, <1>4 DEF Shape, TypeOK, IsDir
<1>8. ParentsReady'
  <2> SUFFICES ASSUME NEW g \in enabled PROVE fs'[Front(path[g])] = "dir"
    BY <1>2 DEF ParentsReady, IsDir
  <2>1. fs[Front(path[g])] = "dir"
    BY DEF Inv, ParentsReady, IsDir
  <2>2. g \in Families /\ Front(path[g]) \in Paths
    BY <1>2, ParentOfOutput DEF Shape, TypeOK
  <2> QED BY <1>7, <2>1, <2>2
<1>9. OnlyNeededDirectories'
  BY <1>2, <1>7 DEF Inv, OnlyNeededDirectories
<1> QED
  BY <1>6, <1>8, <1>9

(* A step of the writing that leaves the files alone: an output nobody     *)
(* wants, or a request that was refused.                                   *)
LEMMA NothingWritten ==
  ASSUME Inv, UNCHANGED <<inputs, fs>>, phase \in AfterPrepare,
         phase' \in {"write his", "exit"}, code' \in {-1, 0, EXIT_USAGE}
  PROVE  Shape' /\ ParentsReady' /\ OnlyNeededDirectories' /\ MapReady' /\ HisIsLast'
<1>1. UNCHANGED <<enabled, path, nobs, before, fs>>
  BY DEF inputs
<1>2. Shape'
  BY <1>1 DEF Inv, Shape, TypeOK, AfterPrepare
<1>3. ParentsReady' /\ OnlyNeededDirectories' /\ MapReady'
  BY <1>1 DEF Inv, ParentsReady, OnlyNeededDirectories, MapReady, AfterPrepare, IsDir
<1>4. HisIsLast'
  BY <1>1 DEF Inv, HisIsLast, AfterPrepare
<1> QED
  BY <1>2, <1>3, <1>4

LEMMA WriteMapInv == Inv /\ WriteMap => Inv'
<1> SUFFICES ASSUME Inv, WriteMap PROVE Inv'
  OBVIOUS
<1>1. phase = "write map" /\ code = -1 /\ phase \in AfterPrepare
  BY DEF WriteMap, Write, Inv, Running, AfterPrepare
<1>2. UNCHANGED <<enabled, path, nobs, before>>
  BY DEF WriteMap, Write, inputs
<1>3. CASE /\ UNCHANGED <<inputs, fs>>
           /\ \/ ~ Written("map") /\ phase' = "write his" /\ code' = -1
              \/ phase' = "exit" /\ code' = EXIT_USAGE
  <2>1. Shape' /\ ParentsReady' /\ OnlyNeededDirectories' /\ MapReady' /\ HisIsLast'
    BY <1>1, <1>3, NothingWritten DEF EXIT_USAGE
  <2>2. Running' /\ MapDone'
    BY <1>2, <1>3 DEF Running, MapDone, Written
  <2>3. SuccessMeansWritten'
    BY <1>3, NoSuccessYet DEF EXIT_USAGE
  <2> QED BY <2>1, <2>2, <2>3 DEF Inv
<1>4. CASE /\ Written("map") /\ ~ IsDir(path["map"])
           /\ fs' = [fs EXCEPT ![path["map"]] = "partial"]
           /\ phase' = "fill map" /\ code' = -1
  <2>1. FileOnly("map")
    BY <1>4 DEF FileOnly, WriteMap, Write
  <2>2. Shape' /\ ParentsReady' /\ OnlyNeededDirectories'
    BY <1>1, <1>4, <2>1, FileKeeps DEF Families, Phases, AfterPrepare
  <2>3. /\ path["map"] \in Paths /\ path["his"] \in Paths /\ fs \in [Paths -> Entries]
        /\ fs'[path["map"]] = "partial"
    BY <1>4 DEF Inv, Shape, TypeOK, Families
  <2>4. Running'
    BY <1>2, <1>4, <2>3 DEF Running, Written, IsDir
  <2>5. MapReady' /\ MapDone'
    BY <1>4 DEF MapReady, MapDone
  <2>6. SuccessMeansWritten'
    BY <1>4, NoSuccessYet
  <2>7. HisIsLast'
    BY <1>1, <1>2, <1>4, <2>3 DEF Inv, HisIsLast
  <2> QED BY <2>2, <2>4, <2>5, <2>6, <2>7 DEF Inv
<1> QED
  BY <1>1, <1>3, <1>4 DEF WriteMap, Write, Goto, Exit

LEMMA FillMapInv == Inv /\ FillMap => Inv'
<1> SUFFICES ASSUME Inv, FillMap PROVE Inv'
  OBVIOUS
<1>1. /\ phase = "fill map" /\ code = -1 /\ phase \in AfterPrepare
      /\ Written("map") /\ ~ IsDir(path["map"])
  BY DEF FillMap, Fill, Inv, Running, AfterPrepare
<1>2. UNCHANGED <<enabled, path, nobs, before>>
  BY DEF FillMap, Fill, inputs
<1>3. CASE UNCHANGED <<inputs, fs>> /\ phase' = "exit" /\ code' = EXIT_USAGE
  <2>1. Shape' /\ ParentsReady' /\ OnlyNeededDirectories' /\ MapReady' /\ HisIsLast'
    BY <1>1, <1>3, NothingWritten
  <2>2. Running' /\ MapDone'
    BY <1>3 DEF Running, MapDone
  <2>3. SuccessMeansWritten'
    BY <1>3, NoSuccessYet DEF EXIT_USAGE
  <2> QED BY <2>1, <2>2, <2>3 DEF Inv
<1>4. CASE /\ fs' = [fs EXCEPT ![path["map"]] = "map"]
           /\ phase' = "write his" /\ code' = -1
  <2>1. FileOnly("map")
    BY <1>1, <1>4 DEF FileOnly, FillMap, Fill
  <2>2. Shape' /\ ParentsReady' /\ OnlyNeededDirectories'
    BY <1>1, <1>4, <2>1, FileKeeps DEF Families, Phases, AfterPrepare
  <2>3. /\ path["map"] \in Paths /\ path["his"] \in Paths /\ fs \in [Paths -> Entries]
        /\ fs'[path["map"]] = "map"
    BY <1>4 DEF Inv, Shape, TypeOK, Families
  <2>4. Running' /\ MapReady'
    BY <1>4 DEF Running, MapReady
  <2>5. MapDone'
    BY <1>2, <2>3 DEF MapDone
  <2>6. SuccessMeansWritten'
    BY <1>4, NoSuccessYet
  <2>7. HisIsLast'
    BY <1>1, <1>2, <1>4, <2>3 DEF Inv, HisIsLast
  <2> QED BY <2>2, <2>4, <2>5, <2>6, <2>7 DEF Inv
<1> QED
  BY <1>1, <1>3, <1>4 DEF FillMap, Fill, Goto, Exit

LEMMA WriteHisInv == Inv /\ WriteHis => Inv'
<1> SUFFICES ASSUME Inv, WriteHis PROVE Inv'
  OBVIOUS
<1>1. phase = "write his" /\ code = -1 /\ phase \in AfterPrepare
  BY DEF WriteHis, Write, Inv, Running, AfterPrepare
<1>2. UNCHANGED <<enabled, path, nobs, before>>
  BY DEF WriteHis, Write, inputs
<1>3. /\ "map" \in enabled => fs[path["map"]] = "map"
      /\ path["map"] \in Paths /\ path["his"] \in Paths /\ fs \in [Paths -> Entries]
  BY <1>1 DEF Inv, MapDone, Shape, TypeOK, Families
<1>4. CASE /\ UNCHANGED <<inputs, fs>> /\ phase' = "exit"
           /\ \/ ~ Written("his") /\ code' = 0
              \/ code' = EXIT_USAGE
  <2>1. Shape' /\ ParentsReady' /\ OnlyNeededDirectories' /\ MapReady' /\ HisIsLast'
    BY <1>1, <1>4, NothingWritten
  <2>2. Running' /\ MapDone'
    BY <1>4 DEF Running, MapDone
  <2>3. SuccessMeansWritten'
    <3>1. CASE code' = EXIT_USAGE
      BY <3>1, NoSuccessYet DEF EXIT_USAGE
    <3>2. CASE ~ Written("his")
      BY <1>2, <1>3, <1>4, <3>2 DEF SuccessMeansWritten, Written
    <3> QED BY <1>4, <3>1, <3>2
  <2> QED BY <2>1, <2>2, <2>3 DEF Inv
<1>5. CASE /\ Written("his") /\ ~ IsDir(path["his"])
           /\ fs' = [fs EXCEPT ![path["his"]] = "partial"]
           /\ phase' = "fill his" /\ code' = -1
  <2>1. FileOnly("his")
    BY <1>5 DEF FileOnly, WriteHis, Write
  <2>2. Shape' /\ ParentsReady' /\ OnlyNeededDirectories'
    BY <1>1, <1>5, <2>1, FileKeeps DEF Families, Phases, AfterPrepare
  <2>3. fs'[path["his"]] = "partial"
    BY <1>3, <1>5
  <2>4. Running'
    BY <1>2, <1>5, <2>3 DEF Running, Written, IsDir
  <2>5. MapReady' /\ MapDone'
    BY <1>2, <1>3, <1>5 DEF MapReady, MapDone
  <2>6. SuccessMeansWritten'
    BY <1>5, NoSuccessYet
  <2>7. HisIsLast'
    BY <1>2, <2>3 DEF HisIsLast
  <2> QED BY <2>2, <2>4, <2>5, <2>6, <2>7 DEF Inv
<1> QED
  BY <1>1, <1>4, <1>5 DEF WriteHis, Write, Goto, Exit

LEMMA FillHisInv == Inv /\ FillHis => Inv'
<1> SUFFICES ASSUME Inv, FillHis PROVE Inv'
  OBVIOUS
<1>1. /\ phase = "fill his" /\ code = -1 /\ phase \in AfterPrepare
      /\ Written("his") /\ ~ IsDir(path["his"])
  BY DEF FillHis, Fill, Inv, Running, AfterPrepare
<1>2. UNCHANGED <<enabled, path, nobs, before>>
  BY DEF FillHis, Fill, inputs
<1>3. /\ "map" \in enabled => fs[path["map"]] = "map" \/ path["map"] = path["his"]
      /\ path["map"] \in Paths /\ path["his"] \in Paths /\ fs \in [Paths -> Entries]
      /\ enabled \subseteq Families
  BY <1>1 DEF Inv, MapDone, Shape, TypeOK, Families
<1>4. CASE UNCHANGED <<inputs, fs>> /\ phase' = "exit" /\ code' = EXIT_USAGE
  <2>1. Shape' /\ ParentsReady' /\ OnlyNeededDirectories' /\ MapReady' /\ HisIsLast'
    BY <1>1, <1>4, NothingWritten
  <2>2. Running' /\ MapDone'
    BY <1>4 DEF Running, MapDone
  <2>3. SuccessMeansWritten'
    BY <1>4, NoSuccessYet DEF EXIT_USAGE
  <2> QED BY <2>1, <2>2, <2>3 DEF Inv
<1>5. CASE /\ fs' = [fs EXCEPT ![path["his"]] = "his"]
           /\ phase' = "exit" /\ code' = 0
  <2>1. FileOnly("his")
    BY <1>1, <1>5 DEF FileOnly, FillHis, Fill
  <2>2. Shape' /\ ParentsReady' /\ OnlyNeededDirectories'
    BY <1>1, <1>5, <2>1, FileKeeps DEF Families, Phases
  <2>3. /\ fs'[path["his"]] = "his"
        /\ "map" \in enabled /\ path["map"] # path["his"] => fs'[path["map"]] = "map"
    BY <1>3, <1>5
  <2>4. Running' /\ MapReady' /\ MapDone'
    BY <1>5 DEF Running, MapReady, MapDone
  <2>5. "his" \in enabled /\ nobs > 0
    BY <1>1 DEF Written
  <2>6. ASSUME "map" \in enabled, path["map"] = path["his"]
        PROVE  enabled = Families
    BY <1>3, <2>5, <2>6 DEF Families
  <2>7. SuccessMeansWritten'
    BY <1>2, <2>3, <2>5, <2>6 DEF SuccessMeansWritten
  <2>8. HisIsLast'
    BY <1>2, <1>5, <2>3 DEF HisIsLast, Families
  <2> QED BY <2>2, <2>4, <2>7, <2>8 DEF Inv
<1> QED
  BY <1>1, <1>4, <1>5 DEF FillHis, Fill, Goto, Exit
-----------------------------------------------------------------------------
LEMMA InvStutter == Inv /\ UNCHANGED vars => Inv'
<1> SUFFICES ASSUME Inv, UNCHANGED vars PROVE Inv'
  OBVIOUS
<1>1. UNCHANGED <<enabled, path, nobs, before, fs, phase, code>>
  BY DEF vars
<1>2. Shape' /\ Running' /\ MapReady' /\ MapDone'
  BY <1>1 DEF Inv, Shape, TypeOK, Running, MapReady, MapDone, Written, IsDir
<1>3. ParentsReady' /\ OnlyNeededDirectories' /\ HisIsLast' /\ SuccessMeansWritten'
  BY <1>1 DEF Inv, ParentsReady, OnlyNeededDirectories, HisIsLast, SuccessMeansWritten,
              IsDir
<1> QED
  BY <1>2, <1>3 DEF Inv

LEMMA Invariance == Spec => []Inv
<1>1. ASSUME Inv, [Next]_vars PROVE Inv'
  BY <1>1, InvStutter, ReadInv, PrepareMapInv, PrepareHisInv, WriteMapInv,
     FillMapInv, WriteHisInv, FillHisInv, DieInv DEF Next
<1> QED
  BY InvInit, <1>1, PTL DEF Spec

(* Every step of the invocation leaves a tree of files and directories, in *)
(* a phase and with an exit code the program has.                          *)
THEOREM TypeCorrect == Spec => []TypeOK
<1>1. Inv => TypeOK
  BY DEF Inv, Shape
<1> QED
  BY <1>1, Invariance, PTL

(* Once prepare has returned the directories of all outputs exist, until   *)
(* the invocation ends.                                                    *)
THEOREM OutputsHaveTheirDirectories == Spec => []ParentsReady
<1>1. Inv => ParentsReady
  BY DEF Inv
<1> QED
  BY <1>1, Invariance, PTL

(* prepare makes no directory but those some output is to be put in, and   *)
(* nothing removes one, whichever request the system refuses.              *)
THEOREM NoStrayDirectory == Spec => []OnlyNeededDirectories
<1>1. Inv => OnlyNeededDirectories
  BY DEF Inv
<1> QED
  BY <1>1, Invariance, PTL

(* Exit code 0 is only given with every wanted file written to its end.    *)
THEOREM SuccessIsWhole == Spec => []SuccessMeansWritten
<1>1. Inv => SuccessMeansWritten
  BY DEF Inv
<1> QED
  BY <1>1, Invariance, PTL

(* However the invocation ends, its history never stands beside a map that *)
(* is not its own.                                                         *)
THEOREM ResultsBelongTogether == Spec => []ResultsOfOneRun
<1>1. Inv => ResultsOfOneRun
  BY DEF Inv, HisIsLast, ResultsOfOneRun
<1> QED
  BY <1>1, Invariance, PTL

(* A file of an earlier run is only ever replaced at the end of a run, by  *)
(* the output configured at its path.                                      *)
THEOREM OldResultsSurvive == Spec => ResultsSurviveUntilWriting
<1> DEFINE Survive ==
      \A p \in Paths : fs[p] \notin {"none", "dir"} /\ fs'[p] # fs[p] =>
        \E f \in enabled : path[f] = p /\ phase \in Writing[f]
<1>1. ASSUME Inv, [Next]_vars PROVE Survive
  <2> SUFFICES ASSUME NEW p \in Paths, fs[p] \notin {"none", "dir"}, fs'[p] # fs[p]
               PROVE  \E f \in enabled : path[f] = p /\ phase \in Writing[f]
    OBVIOUS
  <2>1. CASE PrepareMap \/ PrepareHis
    <3>1. PICK f \in Families : DirectoriesOnly(f)
      BY <1>1, <2>1, PrepareStep DEF PrepareMap, PrepareHis, Families
    <3> QED BY <3>1 DEF DirectoriesOnly
  <2>2. CASE WriteMap \/ FillMap
    <3>1. /\ "map" \in enabled /\ phase \in Writing["map"]
          /\ \E e : fs' = [fs EXCEPT ![path["map"]] = e]
      <4>1. CASE WriteMap
        BY <2>2, <4>1 DEF WriteMap, Write, Written, Writing
      <4>2. CASE FillMap
        BY <1>1, <4>2 DEF FillMap, Fill, Written, Writing, Inv, Running
      <4> QED BY <2>2, <4>1, <4>2
    <3>2. fs \in [Paths -> Entries]
      BY <1>1 DEF Inv, Shape, TypeOK
    <3> QED BY <3>1, <3>2
  <2>3. CASE WriteHis \/ FillHis
    <3>1. /\ "his" \in enabled /\ phase \in Writing["his"]
          /\ \E e : fs' = [fs EXCEPT ![path["his"]] = e]
      <4>1. CASE WriteHis
        BY <2>3, <4>1 DEF WriteHis, Write, Written, Writing
      <4>2. CASE FillHis
        BY <1>1, <4>2 DEF FillHis, Fill, Written, Writing, Inv, Running
      <4> QED BY <2>3, <4>1, <4>2
    <3>2. fs \in [Paths -> Entries]
      BY <1>1 DEF Inv, Shape, TypeOK
    <3> QED BY <3>1, <3>2
  <2>4. CASE UNCHANGED fs
    BY <2>4
  <2> QED
    BY <1>1, <2>1, <2>2, <2>3, <2>4
       DEF Next, ReadInputs, LoadAndRun, Die, vars
<1> QED
  BY <1>1, Invariance, PTL DEF Spec, ResultsSurviveUntilWriting
-----------------------------------------------------------------------------
(* Sums and products of a sequence, which the layout is made of.           *)
LEMMA SumsDefined ==
  ASSUME NEW s \in Seq(Nat)
  PROVE  /\ PartialSums(s) \in [0 .. Len(s) -> Nat]
         /\ PartialSums(s)[0] = 0
         /\ \A n \in 1 .. Len(s) : PartialSums(s)[n] = PartialSums(s)[n - 1] + s[n]
<1> DEFINE D == 0 .. Len(s)
           Body(g, n) == IF n = 0 THEN 0 ELSE g[n - 1] + s[n]
           B == [g \in [D -> Nat] |-> [n \in D |-> Body(g, n)]]
           mu == [n \in D |-> n]
<1>1. Len(s) \in Nat /\ \A n \in 1 .. Len(s) : s[n] \in Nat
  OBVIOUS
<1>2. ASSUME NEW g \in [D -> Nat], NEW n \in D PROVE Body(g, n) \in Nat
  <2>1. CASE n # 0
    <3>1. n - 1 \in D /\ n \in 1 .. Len(s)
      BY <1>1, <2>1
    <3>2. g[n - 1] \in Nat /\ s[n] \in Nat
      BY <1>1, <3>1
    <3> HIDE DEF D
    <3> QED BY <2>1, <3>2
  <2> QED BY <2>1
<1>3. B \in [[D -> Nat] -> [D -> Nat]]
  <2> HIDE DEF D, Body
  <2> QED BY <1>2
<1>4. mu \in [D -> Nat]
  BY <1>1
<1>5. DependsOnSmaller(D, Nat, mu, B)
  <2> SUFFICES ASSUME NEW g \in [D -> Nat], NEW h \in [D -> Nat], NEW n \in D,
                      \A c \in D : mu[c] < mu[n] => g[c] = h[c]
               PROVE  Body(g, n) = Body(h, n)
    <3> HIDE DEF D, Body, mu
    <3> QED BY DEF DependsOnSmaller
  <2>1. CASE n # 0
    <3>1. n - 1 \in D /\ mu[n - 1] < mu[n]
      BY <1>1, <2>1
    <3> QED BY <3>1
  <2> QED BY <2>1
<1>6. \E f \in [D -> Nat] : f = B[f]
  <2> HIDE DEF B, mu, D
  <2>1. Nat # {}
    OBVIOUS
  <2>2. HasSolution(D, Nat, B)
    BY <2>1, <1>3, <1>4, <1>5, RecursiveFunction
  <2> QED BY <2>2 DEF HasSolution
<1>7. \E f : f = [n \in D |-> Body(f, n)]
  <2> HIDE DEF Body, D
  <2> QED BY <1>6
<1> DEFINE f == CHOOSE f : f = [n \in D |-> Body(f, n)]
<1>8. PartialSums(s) = f
  BY DEF PartialSums
<1>9. f = [n \in D |-> Body(f, n)]
  <2> HIDE DEF Body, D
  <2> QED BY <1>7
<1> HIDE DEF f
<1>10. \A n \in D : f[n] = Body(f, n)
  <2> HIDE DEF Body, D
  <2> QED BY <1>9
<1>11. \A n \in D : f[n] \in Nat
  <2> DEFINE T == {n \in D : f[n] \notin Nat}
  <2> SUFFICES ASSUME T # {} PROVE FALSE
    OBVIOUS
  <2>1. PICK n \in T : \A c \in T : n <= c
    <3>1. T \in SUBSET Nat
      BY <1>1
    <3> HIDE DEF T
    <3> QED BY <3>1, LeastNumber
  <2>2. n \in D /\ n # 0
    BY <1>10
  <2>3. n - 1 \in D /\ ~ (n - 1 \in T) /\ n \in 1 .. Len(s)
    BY <1>1, <2>1, <2>2
  <2>4. f[n - 1] \in Nat /\ s[n] \in Nat
    BY <1>1, <2>3
  <2> QED BY <1>10, <2>2, <2>4
<1>12. f \in [D -> Nat]
  <2> HIDE DEF D
  <2> QED BY <1>9, <1>11
<1>13. f[0] = 0 /\ \A n \in 1 .. Len(s) : f[n] = f[n - 1] + s[n]
  BY <1>1, <1>10
<1> QED BY <1>8, <1>12, <1>13

LEMMA TimesPositive ==
  ASSUME NEW a \in Nat \ {0}, NEW b \in Nat \ {0}
  PROVE  a * b \in Nat \ {0}
<1>1. PICK c \in Nat : a = c + 1
  <2>1. a - 1 \in Nat /\ a = (a - 1) + 1
    OBVIOUS
  <2> QED BY <2>1
<1>2. a * b = c * b + b /\ c * b \in Nat
  BY <1>1
<1> QED BY <1>2

LEMMA ProductPositive ==
  ASSUME NEW s \in Seq((Nat \ {0}))
  PROVE  Product(s) \in Nat \ {0}
<1> DEFINE D == 0 .. Len(s)
           Body(g, n) == IF n = 0 THEN 1 ELSE g[n - 1] * s[n]
           B == [g \in [D -> (Nat \ {0})] |-> [n \in D |-> Body(g, n)]]
           mu == [n \in D |-> n]
<1>1. Len(s) \in Nat /\ \A n \in 1 .. Len(s) : s[n] \in (Nat \ {0})
  OBVIOUS
<1>2. ASSUME NEW g \in [D -> (Nat \ {0})], NEW n \in D PROVE Body(g, n) \in (Nat \ {0})
  <2>1. CASE n # 0
    <3>1. n - 1 \in D /\ n \in 1 .. Len(s)
      BY <1>1, <2>1
    <3>2. g[n - 1] \in (Nat \ {0}) /\ s[n] \in (Nat \ {0})
      BY <1>1, <3>1
    <3> HIDE DEF D
    <3> QED BY <2>1, <3>2, TimesPositive
  <2> QED BY <2>1
<1>3. B \in [[D -> (Nat \ {0})] -> [D -> (Nat \ {0})]]
  <2> HIDE DEF D, Body
  <2> QED BY <1>2
<1>4. mu \in [D -> Nat]
  BY <1>1
<1>5. DependsOnSmaller(D, (Nat \ {0}), mu, B)
  <2> SUFFICES ASSUME NEW g \in [D -> (Nat \ {0})], NEW h \in [D -> (Nat \ {0})], NEW n \in D,
                      \A c \in D : mu[c] < mu[n] => g[c] = h[c]
               PROVE  Body(g, n) = Body(h, n)
    <3> HIDE DEF D, Body, mu
    <3> QED BY DEF DependsOnSmaller
  <2>1. CASE n # 0
    <3>1. n - 1 \in D /\ mu[n - 1] < mu[n]
      BY <1>1, <2>1
    <3> QED BY <3>1
  <2> QED BY <2>1
<1>6. \E f \in [D -> (Nat \ {0})] : f = B[f]
  <2> HIDE DEF B, mu, D
  <2>1. (Nat \ {0}) # {}
    OBVIOUS
  <2>2. HasSolution(D, (Nat \ {0}), B)
    BY <2>1, <1>3, <1>4, <1>5, RecursiveFunction
  <2> QED BY <2>2 DEF HasSolution
<1>7. \E f : f = [n \in D |-> Body(f, n)]
  <2> HIDE DEF Body, D
  <2> QED BY <1>6
<1> DEFINE f == CHOOSE f : f = [n \in D |-> Body(f, n)]
<1>8. Product(s) = f[Len(s)]
  BY DEF Product
<1>9. f = [n \in D |-> Body(f, n)]
  <2> HIDE DEF Body, D
  <2> QED BY <1>7
<1> HIDE DEF f
<1>10. \A n \in D : f[n] = Body(f, n)
  <2> HIDE DEF Body, D
  <2> QED BY <1>9
<1>11. \A n \in D : f[n] \in (Nat \ {0})
  <2> DEFINE T == {n \in D : f[n] \notin (Nat \ {0})}
  <2> SUFFICES ASSUME T # {} PROVE FALSE
    OBVIOUS
  <2>1. PICK n \in T : \A c \in T : n <= c
    <3>1. T \in SUBSET Nat
      BY <1>1
    <3> HIDE DEF T
    <3> QED BY <3>1, LeastNumber
  <2>2. n \in D /\ n # 0
    BY <1>10
  <2>3. n - 1 \in D /\ ~ (n - 1 \in T) /\ n \in 1 .. Len(s)
    BY <1>1, <2>1, <2>2
  <2>4. f[n - 1] \in (Nat \ {0}) /\ s[n] \in (Nat \ {0})
    BY <1>1, <2>3
  <2> QED BY <1>10, <2>2, <2>4, TimesPositive
<1> QED BY <1>1, <1>8, <1>11

LEMMA SumsGrow ==
  ASSUME NEW s \in Seq(Nat), NEW a \in 0 .. Len(s), NEW b \in 0 .. Len(s), a <= b
  PROVE  PartialSums(s)[a] <= PartialSums(s)[b]
<1> DEFINE S == PartialSums(s)
           T == {n \in a .. Len(s) : ~ (S[a] <= S[n])}
<1>1. /\ \A n \in 0 .. Len(s) : S[n] \in Nat
      /\ \A n \in 1 .. Len(s) : S[n] = S[n - 1] + s[n] /\ s[n] \in Nat
  BY SumsDefined
<1>2. T = {}
  <2> SUFFICES ASSUME T # {} PROVE FALSE
    OBVIOUS
  <2> HIDE DEF S
  <2>1. PICK n \in T : \A c \in T : n <= c
    <3>1. T \in SUBSET Nat
      OBVIOUS
    <3> HIDE DEF T
    <3> QED BY <3>1, LeastNumber
  <2>2. n \in 1 .. Len(s) /\ n # a /\ ~ (S[a] <= S[n])
    BY <1>1
  <2>3. n - 1 \in a .. Len(s) /\ ~ (n - 1 \in T)
    BY <2>1, <2>2
  <2>4. S[a] <= S[n - 1] /\ S[n - 1] \in Nat /\ S[a] \in Nat
    BY <1>1, <2>3
  <2>5. S[n] = S[n - 1] + s[n] /\ s[n] \in Nat
    BY <1>1, <2>2
  <2> HIDE DEF T
  <2> QED BY <2>2, <2>4, <2>5
<1> QED BY <1>2

LEMMA FoursAdd ==
  ASSUME NEW x \in Nat, NEW y \in Nat, x % 4 = 0, y % 4 = 0
  PROVE  (x + y) % 4 = 0
OBVIOUS

LEMMA SumsOfFours ==
  ASSUME NEW s \in Seq(Nat), \A n \in 1 .. Len(s) : s[n] % 4 = 0,
         NEW b \in 0 .. Len(s)
  PROVE  PartialSums(s)[b] % 4 = 0
<1> DEFINE S == PartialSums(s)
           T == {n \in 0 .. Len(s) : ~ (S[n] % 4 = 0)}
<1>1. /\ \A n \in 0 .. Len(s) : S[n] \in Nat
      /\ \A n \in 1 .. Len(s) : S[n] = S[n - 1] + s[n] /\ s[n] \in Nat
      /\ S[0] = 0 /\ Len(s) \in Nat
  <2>1. Len(s) \in Nat /\ \A n \in 1 .. Len(s) : s[n] \in Nat
    OBVIOUS
  <2> QED BY <2>1, SumsDefined
<1>2. T = {}
  <2> SUFFICES ASSUME T # {} PROVE FALSE
    OBVIOUS
  <2> HIDE DEF S
  <2>1. PICK n \in T : \A c \in T : n <= c
    <3>1. T \in SUBSET Nat
      OBVIOUS
    <3> HIDE DEF T
    <3> QED BY <3>1, LeastNumber
  <2>2. n \in 1 .. Len(s) /\ ~ (S[n] % 4 = 0)
    BY <1>1
  <2>3. n - 1 \in 0 .. Len(s) /\ ~ (n - 1 \in T)
    BY <2>1, <2>2
  <2>4. S[n - 1] % 4 = 0 /\ S[n - 1] \in Nat
    BY <1>1, <2>3
  <2>5. S[n] = S[n - 1] + s[n] /\ s[n] \in Nat /\ s[n] % 4 = 0
    BY <1>1, <2>2
  <2>6. (S[n - 1] + s[n]) % 4 = 0
    <3> HIDE DEF T
    <3> QED BY <2>4, <2>5, FoursAdd
  <2> QED BY <2>2, <2>5, <2>6
<1> QED BY <1>2

LEMMA Padding ==
  ASSUME NEW n \in Nat \ {0}
  PROVE  Pad4(n) \in Nat /\ Pad4(n) >= n /\ Pad4(n) % 4 = 0
BY DEF Pad4

LEMMA TimesGrows ==
  ASSUME NEW a \in Nat, NEW b \in Nat, NEW c \in Nat, a <= b
  PROVE  a * c \in Nat /\ b * c \in Nat /\ a * c <= b * c
<1>1. PICK d \in Nat : b = a + d
  <2>1. b - a \in Nat /\ b = a + (b - a)
    OBVIOUS
  <2> QED BY <2>1
<1>2. b * c = a * c + d * c /\ d * c \in Nat /\ a * c \in Nat
  BY <1>1
<1> QED BY <1>2
-----------------------------------------------------------------------------
(* The variables of a file.  The reader takes the same ones for record     *)
(* variables as the writer, since no dimension is zero, and the same       *)
(* dimensions for those of a slab.                                         *)
LEMMA FileShape ==
  ASSUME file \in Files
  PROVE  /\ Len(file.vars) \in Nat /\ Vars = 1 .. Len(file.vars)
         /\ \A k \in Vars :
              /\ Var(k).dims \in Seq(DOMAIN file.dims)
              /\ Var(k).width \in Nat \ {0}
              /\ Var(k).slabs \in Seq(Nat)
              /\ Var(k).records \in BOOLEAN
              /\ Var(k).records \/ Len(Var(k).slabs) = 1
              /\ \A j \in DOMAIN Var(k).dims : j > 1 => file.dims[Var(k).dims[j]] # Unlimited
         /\ \A d \in DOMAIN file.dims : file.dims[d] = Unlimited \/ file.dims[d] \in Nat \ {0}
<1>1. /\ file.dims \in Seq({Unlimited} \union (Nat \ {0}))
      /\ file.vars \in Seq(VarType(file))
      /\ \A k \in DOMAIN file.vars :
           /\ \A j \in DOMAIN file.vars[k].dims :
                j > 1 => file.dims[file.vars[k].dims[j]] # Unlimited
           /\ file.vars[k].records \/ Len(file.vars[k].slabs) = 1
  BY FilesAssumption DEF FileType
<1>2. Len(file.vars) \in Nat /\ Vars = 1 .. Len(file.vars)
  BY <1>1 DEF Vars
<1>3. ASSUME NEW k \in Vars PROVE Var(k) \in VarType(file)
  BY <1>1, <1>2 DEF Var
<1>4. ASSUME NEW k \in Vars
      PROVE  /\ Var(k).dims \in Seq(DOMAIN file.dims)
             /\ Var(k).width \in Nat \ {0}
             /\ Var(k).slabs \in Seq(Nat)
             /\ Var(k).records \in BOOLEAN
  BY <1>3 DEF VarType
<1>5. ASSUME NEW d \in DOMAIN file.dims
      PROVE  file.dims[d] = Unlimited \/ file.dims[d] \in Nat \ {0}
  BY <1>1
<1> QED BY <1>1, <1>2, <1>4, <1>5 DEF Vars, Var

LEMMA SlabShape ==
  ASSUME file \in Files, NEW k \in Vars
  PROVE  /\ SlabSize(k) \in Nat \ {0}
         /\ ReadAsRecord(k) <=> IsRecord(k)
         /\ PerSlice(k) * Var(k).width = SlabSize(k)
<1> DEFINE dims == Var(k).dims
           slice == SliceDims(k)
           lens == [j \in DOMAIN slice |-> Length(slice[j])]
<1>1. /\ dims \in Seq(DOMAIN file.dims) /\ Len(dims) \in Nat
      /\ \A j \in 1 .. Len(dims) : dims[j] \in DOMAIN file.dims
      /\ \A j \in 1 .. Len(dims) : j > 1 => file.dims[dims[j]] # Unlimited
      /\ Var(k).width \in Nat \ {0}
  BY FileShape
<1>2. \A d \in DOMAIN file.dims :
        IF file.dims[d] = Unlimited THEN Length(d) = 0 ELSE Length(d) \in Nat \ {0}
  BY FileShape DEF Length
<1>3. ReadAsRecord(k) <=> IsRecord(k)
  <2>1. CASE dims = <<>>
    BY <2>1 DEF ReadAsRecord, IsRecord
  <2>2. CASE dims # <<>>
    <3>1. Head(dims) = dims[1] /\ 1 \in 1 .. Len(dims)
      BY <1>1, <2>2
    <3>2. Head(dims) \in DOMAIN file.dims
      BY <1>1, <3>1
    <3> QED BY <1>2, <2>2, <3>2 DEF ReadAsRecord, IsRecord
  <2> QED BY <2>1, <2>2
<1>4. slice \in Seq(DOMAIN file.dims) /\ \A j \in 1 .. Len(slice) : file.dims[slice[j]] # Unlimited
  <2>1. CASE IsRecord(k)
    <3>1. slice = Tail(dims) /\ dims # <<>>
      BY <2>1 DEF SliceDims, IsRecord
    <3>2. Len(slice) = Len(dims) - 1 /\ \A j \in 1 .. Len(slice) : slice[j] = dims[j + 1]
      BY <1>1, <3>1
    <3>3. \A j \in 1 .. Len(slice) : j + 1 \in 1 .. Len(dims) /\ j + 1 > 1
      BY <1>1, <3>2
    <3>4. slice \in Seq(DOMAIN file.dims)
      BY <1>1, <3>1, HeadTailProperties
    <3> QED BY <1>1, <3>2, <3>3, <3>4
  <2>2. CASE ~ IsRecord(k)
    <3>1. slice = dims
      BY <2>2 DEF SliceDims
    <3>2. CASE dims = <<>>
      BY <1>1, <3>1, <3>2
    <3>3. CASE dims # <<>>
      <4>1. Head(dims) = dims[1] /\ file.dims[Head(dims)] # Unlimited
        BY <1>1, <2>2, <3>3 DEF IsRecord
      <4>2. \A j \in 1 .. Len(dims) : j = 1 \/ j > 1
        BY <1>1
      <4> HIDE DEF slice, dims
      <4> QED BY <1>1, <3>1, <4>1, <4>2
    <3> QED BY <3>2, <3>3
  <2> QED BY <2>1, <2>2
<1>5. Len(slice) \in Nat /\ DOMAIN slice = 1 .. Len(slice)
      /\ \A j \in 1 .. Len(slice) : slice[j] \in DOMAIN file.dims
  BY <1>4
<1>6. \A j \in DOMAIN slice : Length(slice[j]) \in Nat \ {0}
  <2> HIDE DEF slice
  <2> QED BY <1>2, <1>4, <1>5
<1>7. lens \in Seq(Nat \ {0})
  <2> HIDE DEF slice
  <2> QED BY <1>5, <1>6, SeqDef
<1>8. Product(lens) \in Nat \ {0}
  <2> HIDE DEF lens
  <2> QED BY <1>7, ProductPositive
<1>9. SlabSize(k) = Product(lens) * Var(k).width
  BY DEF SlabSize
<1>10. PerSlice(k) = Product(lens)
  <2>1. ReadDims(k) = slice
    BY <1>3 DEF ReadDims, SliceDims
  <2>2. [j \in DOMAIN slice |-> AtLeastOne(Length(slice[j]))] = lens
    <3> HIDE DEF slice
    <3> QED BY <1>6 DEF AtLeastOne
  <2> QED BY <2>1, <2>2 DEF PerSlice
<1>11. SlabSize(k) \in Nat \ {0}
  <2> HIDE DEF lens
  <2> QED BY <1>1, <1>8, <1>9, TimesPositive
<1> QED BY <1>3, <1>9, <1>10, <1>11
-----------------------------------------------------------------------------
(* Where the data goes: the fixed variables one after another, then the    *)
(* records, each made of a slab of every record variable.                  *)
Slot(k) == Pad4(SlabSize(k))
FixedBytes == PartialSums([k \in Vars |-> IF IsRecord(k) THEN 0 ELSE Slot(k)])
RecordBytes == PartialSums([k \in Vars |-> IF IsRecord(k) THEN Slot(k) ELSE 0])
AllFixed == FixedBytes[Len(file.vars)]
AllRecord == RecordBytes[Len(file.vars)]
Place(k, r) ==
  IF IsRecord(k) THEN AllFixed + (r * AllRecord) + RecordBytes[k - 1] ELSE FixedBytes[k - 1]

LEMMA SlotShape ==
  ASSUME file \in Files, NEW k \in Vars
  PROVE  Slot(k) \in Nat \ {0} /\ Slot(k) >= SlabSize(k) /\ Slot(k) % 4 = 0
<1>1. SlabSize(k) \in Nat \ {0}
  BY SlabShape
<1> QED BY <1>1, Padding DEF Slot

LEMMA ByteCounts ==
  ASSUME file \in Files
  PROVE  /\ \A a \in 0 .. Len(file.vars) :
              /\ FixedBytes[a] \in Nat /\ FixedBytes[a] % 4 = 0
              /\ RecordBytes[a] \in Nat /\ RecordBytes[a] % 4 = 0
         /\ FixedBytes[0] = 0 /\ RecordBytes[0] = 0
         /\ \A k \in Vars :
              IF IsRecord(k)
              THEN FixedBytes[k] = FixedBytes[k - 1] /\ RecordBytes[k] = RecordBytes[k - 1] + Slot(k)
              ELSE FixedBytes[k] = FixedBytes[k - 1] + Slot(k) /\ RecordBytes[k] = RecordBytes[k - 1]
         /\ \A a, b \in 0 .. Len(file.vars) :
              a <= b => FixedBytes[a] <= FixedBytes[b] /\ RecordBytes[a] <= RecordBytes[b]
<1> DEFINE fixed == [k \in Vars |-> IF IsRecord(k) THEN 0 ELSE Slot(k)]
           record == [k \in Vars |-> IF IsRecord(k) THEN Slot(k) ELSE 0]
<1>1. Len(file.vars) \in Nat /\ Vars = 1 .. Len(file.vars)
  BY FileShape
<1>2. ASSUME NEW k \in Vars PROVE Slot(k) \in Nat /\ Slot(k) % 4 = 0
  BY SlotShape
<1>3. /\ fixed \in Seq(Nat) /\ record \in Seq(Nat)
      /\ Len(fixed) = Len(file.vars) /\ Len(record) = Len(file.vars)
  <2>1. fixed \in [1 .. Len(file.vars) -> Nat] /\ record \in [1 .. Len(file.vars) -> Nat]
    BY <1>1, <1>2
  <2> HIDE DEF fixed, record
  <2> QED BY <1>1, <2>1, SeqDef, LenProperties
<1>4. /\ \A k \in 1 .. Len(fixed) : fixed[k] % 4 = 0
      /\ \A k \in 1 .. Len(record) : record[k] % 4 = 0
  BY <1>1, <1>2, <1>3
<1>5. FixedBytes = PartialSums(fixed) /\ RecordBytes = PartialSums(record)
  BY DEF FixedBytes, RecordBytes
<1>6. \A k \in Vars : /\ fixed[k] = IF IsRecord(k) THEN 0 ELSE Slot(k)
                      /\ record[k] = IF IsRecord(k) THEN Slot(k) ELSE 0
  OBVIOUS
<1> HIDE DEF fixed, record
<1>7. ASSUME NEW a \in 0 .. Len(file.vars)
      PROVE  /\ FixedBytes[a] \in Nat /\ FixedBytes[a] % 4 = 0
             /\ RecordBytes[a] \in Nat /\ RecordBytes[a] % 4 = 0
  BY <1>3, <1>4, <1>5, SumsDefined, SumsOfFours
<1>8. FixedBytes[0] = 0 /\ RecordBytes[0] = 0
  BY <1>3, <1>5, SumsDefined
<1>9. ASSUME NEW k \in Vars
      PROVE  IF IsRecord(k)
             THEN FixedBytes[k] = FixedBytes[k - 1] /\ RecordBytes[k] = RecordBytes[k - 1] + Slot(k)
             ELSE FixedBytes[k] = FixedBytes[k - 1] + Slot(k) /\ RecordBytes[k] = RecordBytes[k - 1]
  <2>1. k \in 1 .. Len(fixed) /\ k \in 1 .. Len(record) /\ k - 1 \in 0 .. Len(file.vars)
    BY <1>1, <1>3
  <2>2. FixedBytes[k] = FixedBytes[k - 1] + fixed[k] /\ RecordBytes[k] = RecordBytes[k - 1] + record[k]
    BY <1>3, <1>5, <2>1, SumsDefined
  <2>3. FixedBytes[k - 1] \in Nat /\ RecordBytes[k - 1] \in Nat
    BY <1>7, <2>1
  <2> QED BY <1>6, <2>2, <2>3
<1>10. ASSUME NEW a \in 0 .. Len(file.vars), NEW b \in 0 .. Len(file.vars), a <= b
       PROVE  FixedBytes[a] <= FixedBytes[b] /\ RecordBytes[a] <= RecordBytes[b]
  BY <1>3, <1>5, <1>10, SumsGrow
<1> QED BY <1>7, <1>8, <1>9, <1>10

LEMMA SameFile ==
  ASSUME file' = file
  PROVE  /\ FixedBytes' = FixedBytes /\ RecordBytes' = RecordBytes
         /\ AllFixed' = AllFixed /\ AllRecord' = AllRecord /\ Vars' = Vars
         /\ \A k : /\ IsRecord(k)' = IsRecord(k) /\ Slot(k)' = Slot(k)
                   /\ SlabSize(k)' = SlabSize(k) /\ Var(k)' = Var(k)
                   /\ \A r : Slab(k, r)' = Slab(k, r) /\ Place(k, r)' = Place(k, r)
<1>1. \A k : Var(k)' = Var(k)
  BY DEF Var
<1>2. Vars' = Vars
  BY DEF Vars
<1>3. \A k : IsRecord(k)' = IsRecord(k)
  BY DEF Var, IsRecord
<1>4. \A k : SliceDims(k)' = SliceDims(k)
  BY <1>3 DEF SliceDims, Var
<1>5. \A k : SlabSize(k)' = SlabSize(k)
  BY <1>4 DEF SlabSize, Var, Length
<1>6. \A k : Slot(k)' = Slot(k)
  BY <1>5 DEF Slot
<1>7. FixedBytes' = FixedBytes
  BY <1>2, <1>3, <1>6 DEF FixedBytes
<1>8. RecordBytes' = RecordBytes
  BY <1>2, <1>3, <1>6 DEF RecordBytes
<1>9. AllFixed' = AllFixed /\ AllRecord' = AllRecord
  BY <1>7, <1>8 DEF AllFixed, AllRecord
<1>10. \A k, r : Slab(k, r)' = Slab(k, r)
  BY DEF Slab, Var
<1>11. \A k, r : Place(k, r)' = Place(k, r)
  BY <1>3, <1>7, <1>8, <1>9 DEF Place
<1> QED BY <1>1, <1>2, <1>3, <1>5, <1>6, <1>7, <1>8, <1>9, <1>10, <1>11

(* No two slabs share a byte: each ends where a later one begins.          *)
Precedes(k, r, l, s) ==
  \/ ~ IsRecord(k) /\ (IsRecord(l) \/ k < l)
  \/ IsRecord(k) /\ IsRecord(l) /\ (r < s \/ (r = s /\ k < l))

LEMMA PlaceShape ==
  ASSUME file \in Files, NEW k \in Vars, NEW r \in Nat
  PROVE  Place(k, r) \in Nat /\ Place(k, r) % 4 = 0
<1>1. Len(file.vars) \in Nat /\ k - 1 \in 0 .. Len(file.vars) /\ Len(file.vars) \in 0 .. Len(file.vars)
  BY FileShape
<1>2. CASE ~ IsRecord(k)
  BY <1>1, <1>2, ByteCounts DEF Place
<1>3. CASE IsRecord(k)
  <2>1. /\ AllFixed \in Nat /\ AllFixed % 4 = 0
        /\ AllRecord \in Nat /\ AllRecord % 4 = 0
        /\ RecordBytes[k - 1] \in Nat /\ RecordBytes[k - 1] % 4 = 0
    BY <1>1, ByteCounts DEF AllFixed, AllRecord
  <2>2. PICK q \in Nat : AllRecord = 4 * q
    <3>1. AllRecord = 4 * (AllRecord \div 4) /\ AllRecord \div 4 \in Nat
      BY <2>1
    <3> QED BY <3>1
  <2>3. r * q \in Nat /\ r * AllRecord = 4 * (r * q)
    BY <2>2
  <2>4. r * AllRecord \in Nat /\ (r * AllRecord) % 4 = 0
    <3> DEFINE z == r * q
    <3>1. z \in Nat /\ r * AllRecord = 4 * z
      BY <2>3
    <3> HIDE DEF z
    <3> QED BY <3>1
  <2>5. (AllFixed + (r * AllRecord)) % 4 = 0 /\ AllFixed + (r * AllRecord) \in Nat
    BY <2>1, <2>4, FoursAdd
  <2>6. (AllFixed + (r * AllRecord) + RecordBytes[k - 1]) % 4 = 0
    BY <2>1, <2>5, FoursAdd
  <2>7. Place(k, r) = AllFixed + (r * AllRecord) + RecordBytes[k - 1]
    BY <1>3 DEF Place
  <2> QED BY <2>1, <2>5, <2>6, <2>7
<1> QED BY <1>2, <1>3

LEMMA PlacesInOrder ==
  ASSUME file \in Files, NEW k \in Vars, NEW l \in Vars, NEW r \in Nat, NEW s \in Nat,
         Precedes(k, r, l, s)
  PROVE  Place(k, r) + Slot(k) <= Place(l, s)
<1>1. /\ Len(file.vars) \in Nat /\ Vars = 1 .. Len(file.vars)
      /\ k \in Nat /\ l \in Nat /\ k \in 0 .. Len(file.vars) /\ l \in 0 .. Len(file.vars)
      /\ k - 1 \in 0 .. Len(file.vars) /\ l - 1 \in 0 .. Len(file.vars)
      /\ Len(file.vars) \in 0 .. Len(file.vars)
  BY FileShape
<1>2. Slot(k) \in Nat
  BY SlotShape
<1>3. /\ AllFixed \in Nat /\ AllRecord \in Nat
      /\ FixedBytes[k - 1] \in Nat /\ RecordBytes[k - 1] \in Nat
      /\ FixedBytes[l - 1] \in Nat /\ RecordBytes[l - 1] \in Nat
      /\ FixedBytes[k] <= AllFixed /\ RecordBytes[k] <= AllRecord
      /\ FixedBytes[k] \in Nat /\ RecordBytes[k] \in Nat
      /\ k < l => FixedBytes[k] <= FixedBytes[l - 1] /\ RecordBytes[k] <= RecordBytes[l - 1]
  <2>1. k <= Len(file.vars) /\ (k < l => k <= l - 1)
    BY <1>1
  <2>2. /\ FixedBytes[k - 1] \in Nat /\ RecordBytes[k - 1] \in Nat
        /\ FixedBytes[l - 1] \in Nat /\ RecordBytes[l - 1] \in Nat
        /\ FixedBytes[k] \in Nat /\ RecordBytes[k] \in Nat
        /\ AllFixed \in Nat /\ AllRecord \in Nat
    BY <1>1, ByteCounts DEF AllFixed, AllRecord
  <2>3. FixedBytes[k] <= AllFixed /\ RecordBytes[k] <= AllRecord
    BY <1>1, <2>1, ByteCounts DEF AllFixed, AllRecord
  <2>4. k < l => FixedBytes[k] <= FixedBytes[l - 1] /\ RecordBytes[k] <= RecordBytes[l - 1]
    BY <1>1, <2>1, ByteCounts
  <2> QED BY <2>2, <2>3, <2>4
<1>4. IF IsRecord(k) THEN RecordBytes[k] = RecordBytes[k - 1] + Slot(k)
                     ELSE FixedBytes[k] = FixedBytes[k - 1] + Slot(k)
  BY ByteCounts
<1>5. r * AllRecord \in Nat /\ s * AllRecord \in Nat
  BY <1>3, TimesGrows
<1>6. CASE ~ IsRecord(k) /\ IsRecord(l)
  BY <1>2, <1>3, <1>4, <1>5, <1>6 DEF Place
<1>7. CASE ~ IsRecord(k) /\ ~ IsRecord(l)
  BY <1>2, <1>3, <1>4, <1>7 DEF Place, Precedes
<1>8. CASE IsRecord(k) /\ IsRecord(l) /\ r = s
  <2>1. k < l
    BY <1>8 DEF Precedes
  <2> QED BY <1>2, <1>3, <1>4, <1>5, <1>8, <2>1 DEF Place
<1>9. CASE IsRecord(k) /\ IsRecord(l) /\ r # s
  <2>1. r + 1 <= s
    BY <1>9 DEF Precedes
  <2>2. (r + 1) * AllRecord <= s * AllRecord /\ (r + 1) * AllRecord = (r * AllRecord) + AllRecord
    BY <1>3, <2>1, TimesGrows
  <2> QED BY <1>2, <1>3, <1>4, <1>5, <1>9, <2>2 DEF Place
<1> QED BY <1>6, <1>7, <1>8, <1>9 DEF Precedes

LEMMA OneComesFirst ==
  ASSUME file \in Files, NEW k \in Vars, NEW l \in Vars, NEW r \in Nat, NEW s \in Nat,
         ~ IsRecord(k) => r = 0, ~ IsRecord(l) => s = 0
  PROVE  (k = l /\ r = s) \/ Precedes(k, r, l, s) \/ Precedes(l, s, k, r)
<1>1. k \in Nat /\ l \in Nat
  BY FileShape
<1> QED BY <1>1 DEF Precedes
-----------------------------------------------------------------------------
(* What the passes of build have done so far.  The data of a checked       *)
(* variable is of the size and the kind its dimensions call for.           *)
Matches(k) ==
  /\ Var(k).records = IsRecord(k)
  /\ \A r \in DOMAIN Var(k).slabs : Var(k).slabs[r] = SlabSize(k)
  /\ IsRecord(k) => numrecs = Len(Var(k).slabs)

Accepted ==
  /\ stage = "check" => \A k \in Vars : k < i => Matches(k)
  /\ stage \notin {"check", "refused"} => numrecs \in Nat /\ \A k \in Vars : Matches(k)

(* Its header words were computed from the sizes of those before it.       *)
Begin(k) ==
  IF IsRecord(k) THEN HeaderBytes + (AllFixed % Word) + (RecordBytes[k - 1] % Word)
                 ELSE HeaderBytes + (FixedBytes[k - 1] % Word)
LaidOut(k) == begins[k] = Begin(k) % Word /\ vsizes[k] = Slot(k) % Word

LaidOutSoFar ==
  /\ stage = "check" => fixed_total = 0 /\ record_offset = 0
  /\ stage = "layoutFixed" =>
       /\ fixed_total = FixedBytes[i - 1] /\ record_offset = 0
       /\ \A k \in Vars : ~ IsRecord(k) /\ k < i => LaidOut(k)
  /\ stage = "layoutRecords" =>
       /\ fixed_total = AllFixed /\ record_offset = RecordBytes[i - 1]
       /\ \A k \in Vars : ~ IsRecord(k) \/ k < i => LaidOut(k)
  /\ stage \in {"fixed", "records", "built"} =>
       /\ fixed_total = AllFixed /\ record_offset = AllRecord
       /\ \A k \in Vars : LaidOut(k)

(* So much was appended, and every slab in it lies at its place.           *)
Appended ==
  /\ stage \in {"check", "layoutFixed", "layoutRecords"} => out = <<>> /\ rec = 0
  /\ stage = "fixed" => rec = 0 /\ Len(out) = FixedBytes[i - 1]
  /\ stage = "records" =>
       rec < numrecs /\ Len(out) = AllFixed + (rec * AllRecord) + RecordBytes[i - 1]
  /\ stage = "built" => Len(out) = AllFixed + (numrecs * AllRecord)

InPlace ==
  \A k \in Vars : \A r \in 0 .. Len(Var(k).slabs) - 1 :
    Place(k, r) + Slot(k) <= Len(out) =>
      \A b \in 1 .. Slot(k) : out[Place(k, r) + b] = Slab(k, r)[b]

BuildInv == ImageTypeOK /\ Accepted /\ LaidOutSoFar /\ Appended /\ InPlace

(* Facts about the numbers of a step.                                      *)
LEMMA AtVariable ==
  ASSUME BuildInv, NEW st, At(st)
  PROVE  /\ file \in Files /\ stage = st
         /\ i \in Vars /\ i \in Nat /\ i + 1 \in 1 .. Len(file.vars) + 1
         /\ (i + 1) - 1 = i /\ i - 1 \in 0 .. Len(file.vars)
         /\ \A k \in Vars : k \in Nat /\ (k < i + 1 <=> k < i \/ k = i)
<1>1. Len(file.vars) \in Nat /\ Vars = 1 .. Len(file.vars)
  BY FileShape DEF BuildInv, ImageTypeOK
<1> QED BY <1>1 DEF BuildInv, ImageTypeOK, At

LEMMA PastVariables ==
  ASSUME BuildInv, NEW st, Past(st)
  PROVE  /\ file \in Files /\ stage = st
         /\ i = Len(file.vars) + 1 /\ i - 1 = Len(file.vars)
         /\ 1 \in 1 .. Len(file.vars) + 1
         /\ \A k \in Vars : k < i /\ ~ (k < 1)
<1>1. Len(file.vars) \in Nat /\ Vars = 1 .. Len(file.vars)
  BY FileShape DEF BuildInv, ImageTypeOK
<1>2. file \in Files /\ stage = st /\ i \in 1 .. Len(file.vars) + 1 /\ i > Len(file.vars)
  BY DEF BuildInv, ImageTypeOK, Past
<1>3. i = Len(file.vars) + 1
  BY <1>1, <1>2
<1> QED BY <1>1, <1>2, <1>3

(* A step that appends nothing keeps what was appended where it was.       *)
LEMMA NothingAppended ==
  ASSUME BuildInv, UNCHANGED <<file, out>>
  PROVE  InPlace'
<1>1. InPlace
  BY DEF BuildInv
<1> QED BY <1>1, SameFile DEF InPlace

LEMMA WordPositive == Word \in Nat \ {0} /\ HeaderBytes \in Nat \ {0}
BY HeaderAssumption, WordAssumption

LEMMA BuildInvInit == BuildInit => BuildInv
<1> SUFFICES ASSUME BuildInit PROVE BuildInv
  OBVIOUS
<1>1. /\ file \in Files /\ stage = "check" /\ i = 1 /\ rec = 0 /\ numrecs = NoCount
      /\ begins = [k \in Vars |-> 0] /\ vsizes = [k \in Vars |-> 0]
      /\ fixed_total = 0 /\ record_offset = 0 /\ out = <<>>
  BY DEF BuildInit
<1>2. Len(file.vars) \in Nat /\ Vars = 1 .. Len(file.vars)
  BY <1>1, FileShape
<1>3. ImageTypeOK
  <2>1. begins \in [Vars -> 0 .. Word - 1] /\ vsizes \in [Vars -> 0 .. Word - 1]
    <3>1. 0 \in 0 .. Word - 1
      BY WordPositive
    <3> QED BY <1>1, <3>1
  <2>2. out \in Seq(Nat \X Nat \X Nat)
    BY <1>1
  <2> QED BY <1>1, <1>2, <2>1, <2>2 DEF ImageTypeOK, Stages
<1>4. Accepted
  BY <1>1, <1>2 DEF Accepted
<1>5. LaidOutSoFar /\ Appended
  BY <1>1 DEF LaidOutSoFar, Appended
<1>6. InPlace
  <2>1. ASSUME NEW k \in Vars, NEW r \in 0 .. Len(Var(k).slabs) - 1
        PROVE  ~ (Place(k, r) + Slot(k) <= Len(out))
    <3>1. r \in Nat /\ Len(out) = 0
      BY <1>1, FileShape
    <3>2. Place(k, r) \in Nat /\ Slot(k) \in Nat \ {0}
      BY <1>1, <3>1, PlaceShape, SlotShape
    <3> QED BY <3>1, <3>2
  <2> QED BY <2>1 DEF InPlace
<1> QED BY <1>3, <1>4, <1>5, <1>6 DEF BuildInv

LEMMA BuildInvCheck == BuildInv /\ Check => BuildInv'
<1> SUFFICES ASSUME BuildInv, Check PROVE BuildInv'
  OBVIOUS
<1>1. /\ At("check") /\ Acceptable(i) /\ i' = i + 1
      /\ numrecs' = IF IsRecord(i) THEN Len(Var(i).slabs) ELSE numrecs
      /\ UNCHANGED <<file, stage, rec, begins, vsizes, fixed_total, record_offset, out>>
  BY DEF Check, Layout
<1>2. /\ file \in Files /\ stage = "check" /\ i \in Vars /\ i + 1 \in 1 .. Len(file.vars) + 1
      /\ \A k \in Vars : k < i + 1 <=> k < i \/ k = i
  BY <1>1, AtVariable
<1>3. Len(Var(i).slabs) \in Nat
  BY <1>2, FileShape
<1>4. ImageTypeOK'
  <2>1. (begins \in [Vars -> 0 .. Word - 1])' /\ (vsizes \in [Vars -> 0 .. Word - 1])'
    BY <1>1, SameFile DEF BuildInv, ImageTypeOK
  <2>2. numrecs' \in {NoCount} \union Nat
    BY <1>1, <1>3 DEF BuildInv, ImageTypeOK
  <2> QED BY <1>1, <1>2, <2>1, <2>2 DEF BuildInv, ImageTypeOK
<1>5. Accepted'
  <2>1. ASSUME NEW k \in Vars, k < i PROVE Matches(k)'
    <3>1. Matches(k) /\ Len(Var(k).slabs) \in Nat
      BY <1>2, <2>1, FileShape DEF BuildInv, Accepted
    <3>2. ASSUME IsRecord(k) PROVE numrecs' = Len(Var(k).slabs)
      <4>1. numrecs = Len(Var(k).slabs) /\ numrecs # NoCount
        BY <3>1, <3>2 DEF Matches, NoCount
      <4> QED BY <1>1, <4>1 DEF Acceptable
    <3> QED BY <1>1, <3>1, <3>2, SameFile DEF Matches
  <2>2. ASSUME NEW k \in Vars, k = i PROVE Matches(k)'
    <3>1. Acceptable(k) /\ (IsRecord(k) => numrecs' = Len(Var(k).slabs))
      BY <1>1, <2>2
    <3> QED BY <1>1, <3>1, SameFile DEF Matches, Acceptable
  <2> QED BY <1>1, <1>2, <2>1, <2>2, SameFile DEF Accepted
<1>6. (LaidOutSoFar /\ Appended)'
  BY <1>1, <1>2 DEF BuildInv, LaidOutSoFar, Appended
<1>7. InPlace'
  BY <1>1, NothingAppended
<1> QED BY <1>4, <1>5, <1>6, <1>7 DEF BuildInv

LEMMA BuildInvRefuse == BuildInv /\ Refuse => BuildInv'
<1> SUFFICES ASSUME BuildInv, Refuse PROVE BuildInv'
  OBVIOUS
<1>1. /\ stage' = "refused"
      /\ UNCHANGED <<file, i, rec, numrecs, begins, vsizes, fixed_total, record_offset, out>>
  BY DEF Refuse, Layout
<1>2. ImageTypeOK'
  <2>1. (begins \in [Vars -> 0 .. Word - 1])' /\ (vsizes \in [Vars -> 0 .. Word - 1])'
    BY <1>1, SameFile DEF BuildInv, ImageTypeOK
  <2> QED BY <1>1, <2>1 DEF BuildInv, ImageTypeOK, Stages
<1>3. (Accepted /\ LaidOutSoFar /\ Appended)'
  BY <1>1 DEF Accepted, LaidOutSoFar, Appended
<1>4. InPlace'
  BY <1>1, NothingAppended
<1> QED BY <1>2, <1>3, <1>4 DEF BuildInv

LEMMA BuildInvOverflow == BuildInv /\ Overflow => BuildInv'
<1> SUFFICES ASSUME BuildInv, Overflow PROVE BuildInv'
  OBVIOUS
<1>1. /\ stage' = "panicked" /\ stage \in {"layoutFixed", "layoutRecords"}
      /\ UNCHANGED <<file, i, rec, numrecs, begins, vsizes, fixed_total, record_offset, out>>
  BY DEF Overflow, Layout, At
<1>2. ImageTypeOK'
  <2>1. (begins \in [Vars -> 0 .. Word - 1])' /\ (vsizes \in [Vars -> 0 .. Word - 1])'
    BY <1>1, SameFile DEF BuildInv, ImageTypeOK
  <2> QED BY <1>1, <2>1 DEF BuildInv, ImageTypeOK, Stages
<1>3. Accepted'
  BY <1>1, SameFile DEF BuildInv, Accepted, Matches
<1>4. (LaidOutSoFar /\ Appended)'
  BY <1>1 DEF LaidOutSoFar, Appended
<1>5. InPlace'
  BY <1>1, NothingAppended
<1> QED BY <1>2, <1>3, <1>4, <1>5 DEF BuildInv

LEMMA BuildInvChecked == BuildInv /\ Checked => BuildInv'
<1> SUFFICES ASSUME BuildInv, Checked PROVE BuildInv'
  OBVIOUS
<1>1. /\ Past("check") /\ stage' = "layoutFixed" /\ i' = 1
      /\ numrecs' = IF numrecs = NoCount THEN 0 ELSE numrecs
      /\ UNCHANGED <<file, rec, begins, vsizes, fixed_total, record_offset, out>>
  BY DEF Checked, Layout, Enter
<1>2. /\ file \in Files /\ stage = "check" /\ 1 \in 1 .. Len(file.vars) + 1
      /\ \A k \in Vars : k < i /\ ~ (k < 1)
  BY <1>1, PastVariables
<1>3. ImageTypeOK'
  <2>1. (begins \in [Vars -> 0 .. Word - 1])' /\ (vsizes \in [Vars -> 0 .. Word - 1])'
    BY <1>1, SameFile DEF BuildInv, ImageTypeOK
  <2>2. numrecs' \in Nat
    BY <1>1 DEF BuildInv, ImageTypeOK
  <2> QED BY <1>1, <1>2, <2>1, <2>2 DEF BuildInv, ImageTypeOK, Stages
<1>4. Accepted'
  <2>1. numrecs' \in Nat
    BY <1>1 DEF BuildInv, ImageTypeOK
  <2>2. ASSUME NEW k \in Vars PROVE Matches(k)'
    <3>1. Matches(k) /\ Len(Var(k).slabs) \in Nat
      BY <1>2, FileShape DEF BuildInv, Accepted
    <3>2. IsRecord(k) => numrecs' = Len(Var(k).slabs)
      BY <1>1, <3>1 DEF Matches, NoCount
    <3> QED BY <1>1, <3>1, <3>2, SameFile DEF Matches
  <2> QED BY <1>1, <2>1, <2>2, SameFile DEF Accepted
<1>5. LaidOutSoFar'
  <2>1. FixedBytes[0] = 0
    BY <1>2, ByteCounts
  <2>2. FixedBytes' = FixedBytes /\ i' - 1 = 0
    BY <1>1, SameFile
  <2>3. (\A k \in Vars : ~ IsRecord(k) /\ k < i => LaidOut(k))'
    BY <1>1, <1>2, SameFile
  <2>4. fixed_total' = 0 /\ record_offset' = 0
    BY <1>1, <1>2 DEF BuildInv, LaidOutSoFar
  <2> QED BY <1>1, <2>1, <2>2, <2>3, <2>4 DEF LaidOutSoFar
<1>6. Appended'
  BY <1>1, <1>2 DEF BuildInv, Appended
<1>7. InPlace'
  BY <1>1, NothingAppended
<1> QED BY <1>3, <1>4, <1>5, <1>6, <1>7 DEF BuildInv

(* A variable is laid out once and stays so.                               *)
LEMMA LaidOutHere ==
  ASSUME BuildInv, file' = file, i \in Vars,
         begins' = [begins EXCEPT ![i] = Begin(i) % Word],
         vsizes' = [vsizes EXCEPT ![i] = Slot(i) % Word]
  PROVE  /\ (begins \in [Vars -> 0 .. Word - 1])' /\ (vsizes \in [Vars -> 0 .. Word - 1])'
         /\ \A k \in Vars : LaidOut(k) \/ k = i => LaidOut(k)'
<1>1. begins \in [Vars -> 0 .. Word - 1] /\ vsizes \in [Vars -> 0 .. Word - 1] /\ file \in Files
  BY DEF BuildInv, ImageTypeOK
<1>2. Slot(i) % Word \in 0 .. Word - 1
  BY <1>1, SlotShape, WordPositive
<1>3. Begin(i) \in Nat
  <2>1. i - 1 \in 0 .. Len(file.vars) /\ Len(file.vars) \in 0 .. Len(file.vars)
    BY <1>1, FileShape
  <2>2. FixedBytes[i - 1] \in Nat /\ RecordBytes[i - 1] \in Nat /\ AllFixed \in Nat
    BY <1>1, <2>1, ByteCounts DEF AllFixed
  <2>3. FixedBytes[i - 1] % Word \in Nat /\ RecordBytes[i - 1] % Word \in Nat /\ AllFixed % Word \in Nat
    BY <2>2, WordPositive
  <2> QED BY <2>3, WordPositive DEF Begin
<1>4. Begin(i) % Word \in 0 .. Word - 1
  BY <1>3, WordPositive
<1>5. begins' \in [Vars -> 0 .. Word - 1] /\ vsizes' \in [Vars -> 0 .. Word - 1]
  BY <1>1, <1>2, <1>4
<1>6. ASSUME NEW k \in Vars, LaidOut(k) \/ k = i PROVE LaidOut(k)'
  <2>1. begins'[k] = Begin(k) % Word /\ vsizes'[k] = Slot(k) % Word
    BY <1>1, <1>6 DEF LaidOut
  <2>2. Begin(k)' = Begin(k)
    BY SameFile DEF Begin
  <2> QED BY <2>1, <2>2, SameFile DEF LaidOut
<1> QED BY <1>5, <1>6, SameFile

LEMMA LaidOutStays ==
  ASSUME UNCHANGED <<file, begins, vsizes>>, NEW k, LaidOut(k)
  PROVE  LaidOut(k)'
<1>1. Begin(k)' = Begin(k)
  BY SameFile DEF Begin
<1> QED BY <1>1, SameFile DEF LaidOut

(* The checks stand for the rest of build.                                 *)
LEMMA AcceptedStays ==
  ASSUME BuildInv, UNCHANGED <<file, numrecs>>, stage \notin {"check", "refused"},
         stage' \notin {"check", "refused"}
  PROVE  Accepted'
BY SameFile DEF BuildInv, Accepted, Matches

LEMMA BuildInvLayoutFixed == BuildInv /\ LayoutFixed => BuildInv'
<1> SUFFICES ASSUME BuildInv, LayoutFixed PROVE BuildInv'
  OBVIOUS
<1>1. /\ At("layoutFixed") /\ ~ IsRecord(i) /\ i' = i + 1
      /\ begins' = [begins EXCEPT ![i] = FixedBegin % Word]
      /\ vsizes' = [vsizes EXCEPT ![i] = Slot(i) % Word]
      /\ fixed_total' = fixed_total + Slot(i)
      /\ UNCHANGED <<file, stage, rec, numrecs, record_offset, out>>
  BY DEF LayoutFixed, LayOut, Skip, Slot
<1>2. /\ file \in Files /\ stage = "layoutFixed" /\ i \in Vars /\ i + 1 \in 1 .. Len(file.vars) + 1
      /\ (i + 1) - 1 = i
      /\ \A k \in Vars : k < i + 1 <=> k < i \/ k = i
  BY <1>1, AtVariable
<1>3. fixed_total = FixedBytes[i - 1] /\ record_offset = 0
  BY <1>2 DEF BuildInv, LaidOutSoFar
<1>4. FixedBegin = Begin(i)
  BY <1>1, <1>3 DEF FixedBegin, Begin
<1>5. /\ (begins \in [Vars -> 0 .. Word - 1])' /\ (vsizes \in [Vars -> 0 .. Word - 1])'
      /\ \A k \in Vars : LaidOut(k) \/ k = i => LaidOut(k)'
  BY <1>1, <1>2, <1>4, LaidOutHere
<1>6. fixed_total' = FixedBytes[i] /\ fixed_total' \in Nat
  <2>1. Slot(i) \in Nat /\ fixed_total \in Nat
    BY <1>2, SlotShape DEF BuildInv, ImageTypeOK
  <2> QED BY <1>1, <1>2, <1>3, <2>1, ByteCounts
<1>7. ImageTypeOK'
  BY <1>1, <1>2, <1>5, <1>6 DEF BuildInv, ImageTypeOK
<1>8. Accepted'
  BY <1>1, <1>2, AcceptedStays
<1>9. LaidOutSoFar'
  <2>1. (\A k \in Vars : ~ IsRecord(k) /\ k < i => LaidOut(k))'
    <3>1. ASSUME NEW k \in Vars, ~ IsRecord(k), k < i + 1 PROVE LaidOut(k)'
      BY <1>2, <1>5, <3>1 DEF BuildInv, LaidOutSoFar
    <3> QED BY <1>1, <3>1, SameFile
  <2> QED BY <1>1, <1>2, <1>3, <1>6, <2>1, SameFile DEF LaidOutSoFar
<1>10. Appended'
  BY <1>1, <1>2 DEF BuildInv, Appended
<1>11. InPlace'
  BY <1>1, NothingAppended
<1> QED BY <1>7, <1>8, <1>9, <1>10, <1>11 DEF BuildInv

LEMMA BuildInvLayoutRecord == BuildInv /\ LayoutRecord => BuildInv'
<1> SUFFICES ASSUME BuildInv, LayoutRecord PROVE BuildInv'
  OBVIOUS
<1>1. /\ At("layoutRecords") /\ IsRecord(i) /\ i' = i + 1
      /\ begins' = [begins EXCEPT ![i] = RecordBegin % Word]
      /\ vsizes' = [vsizes EXCEPT ![i] = Slot(i) % Word]
      /\ record_offset' = record_offset + Slot(i)
      /\ UNCHANGED <<file, stage, rec, numrecs, fixed_total, out>>
  BY DEF LayoutRecord, LayOut, Skip, Slot
<1>2. /\ file \in Files /\ stage = "layoutRecords" /\ i \in Vars /\ i + 1 \in 1 .. Len(file.vars) + 1
      /\ (i + 1) - 1 = i
      /\ \A k \in Vars : k < i + 1 <=> k < i \/ k = i
  BY <1>1, AtVariable
<1>3. fixed_total = AllFixed /\ record_offset = RecordBytes[i - 1]
  BY <1>2 DEF BuildInv, LaidOutSoFar
<1>4. RecordBegin = Begin(i)
  BY <1>1, <1>3 DEF RecordBegin, Begin
<1>5. /\ (begins \in [Vars -> 0 .. Word - 1])' /\ (vsizes \in [Vars -> 0 .. Word - 1])'
      /\ \A k \in Vars : LaidOut(k) \/ k = i => LaidOut(k)'
  BY <1>1, <1>2, <1>4, LaidOutHere
<1>6. record_offset' = RecordBytes[i] /\ record_offset' \in Nat
  <2>1. Slot(i) \in Nat /\ record_offset \in Nat
    BY <1>2, SlotShape DEF BuildInv, ImageTypeOK
  <2> QED BY <1>1, <1>2, <1>3, <2>1, ByteCounts
<1>7. ImageTypeOK'
  BY <1>1, <1>2, <1>5, <1>6 DEF BuildInv, ImageTypeOK
<1>8. Accepted'
  BY <1>1, <1>2, AcceptedStays
<1>9. LaidOutSoFar'
  <2>1. (\A k \in Vars : ~ IsRecord(k) \/ k < i => LaidOut(k))'
    <3>1. ASSUME NEW k \in Vars, ~ IsRecord(k) \/ k < i + 1 PROVE LaidOut(k)'
      BY <1>2, <1>5, <3>1 DEF BuildInv, LaidOutSoFar
    <3> QED BY <1>1, <3>1, SameFile
  <2> QED BY <1>1, <1>2, <1>3, <1>6, <2>1, SameFile DEF LaidOutSoFar
<1>10. Appended'
  BY <1>1, <1>2 DEF BuildInv, Appended
<1>11. InPlace'
  BY <1>1, NothingAppended
<1> QED BY <1>7, <1>8, <1>9, <1>10, <1>11 DEF BuildInv

LEMMA BuildInvContinue == BuildInv /\ Continue => BuildInv'
<1> SUFFICES ASSUME BuildInv, Continue PROVE BuildInv'
  OBVIOUS
<1>1. /\ i' = i + 1
      /\ UNCHANGED <<file, stage, rec, numrecs, begins, vsizes, fixed_total, record_offset, out>>
  BY DEF Continue, Skip, Layout
<1>2. PICK st \in Stages : /\ At(st)
                           /\ \/ st \in {"layoutFixed", "fixed"} /\ IsRecord(i)
                              \/ st \in {"layoutRecords", "records"} /\ ~ IsRecord(i)
  BY DEF Continue, Stages
<1>3. /\ file \in Files /\ stage = st /\ i \in Vars /\ i + 1 \in 1 .. Len(file.vars) + 1
      /\ (i + 1) - 1 = i
      /\ \A k \in Vars : k < i + 1 <=> k < i \/ k = i
  BY <1>2, AtVariable
<1>4. ImageTypeOK'
  <2>1. (begins \in [Vars -> 0 .. Word - 1])' /\ (vsizes \in [Vars -> 0 .. Word - 1])'
    BY <1>1, SameFile DEF BuildInv, ImageTypeOK
  <2> QED BY <1>1, <1>3, <2>1 DEF BuildInv, ImageTypeOK
<1>5. Accepted'
  BY <1>1, <1>2, <1>3, AcceptedStays
<1>6. /\ IsRecord(i) => FixedBytes[i] = FixedBytes[i - 1]
      /\ ~ IsRecord(i) => RecordBytes[i] = RecordBytes[i - 1]
  BY <1>3, ByteCounts
<1>7. \A k \in Vars : LaidOut(k) => LaidOut(k)'
  BY <1>1, LaidOutStays
<1>8. /\ FixedBytes' = FixedBytes /\ RecordBytes' = RecordBytes /\ Vars' = Vars
      /\ AllFixed' = AllFixed /\ AllRecord' = AllRecord
      /\ \A k : IsRecord(k)' = IsRecord(k)
  BY <1>1, SameFile
<1>9. LaidOutSoFar'
  <2>1. CASE st = "layoutFixed"
    <3>1. fixed_total' = FixedBytes'[i' - 1] /\ record_offset' = 0
      BY <1>1, <1>2, <1>3, <1>6, <1>8, <2>1 DEF BuildInv, LaidOutSoFar
    <3>2. ASSUME NEW k \in Vars, ~ IsRecord(k), k < i + 1 PROVE LaidOut(k)'
      BY <1>2, <1>3, <1>7, <2>1, <3>2 DEF BuildInv, LaidOutSoFar
    <3>3. (\A k \in Vars : ~ IsRecord(k) /\ k < i => LaidOut(k))'
      BY <1>1, <1>8, <3>2
    <3> QED BY <1>1, <1>3, <2>1, <3>1, <3>3 DEF LaidOutSoFar
  <2>2. CASE st = "layoutRecords"
    <3>1. fixed_total' = AllFixed' /\ record_offset' = RecordBytes'[i' - 1]
      BY <1>1, <1>2, <1>3, <1>6, <1>8, <2>2 DEF BuildInv, LaidOutSoFar
    <3>2. ASSUME NEW k \in Vars, ~ IsRecord(k) \/ k < i + 1 PROVE LaidOut(k)'
      BY <1>2, <1>3, <1>7, <2>2, <3>2 DEF BuildInv, LaidOutSoFar
    <3>3. (\A k \in Vars : ~ IsRecord(k) \/ k < i => LaidOut(k))'
      BY <1>1, <1>8, <3>2
    <3> QED BY <1>1, <1>3, <2>2, <3>1, <3>3 DEF LaidOutSoFar
  <2>3. CASE st \in {"fixed", "records"}
    <3>1. fixed_total' = AllFixed' /\ record_offset' = AllRecord'
      BY <1>1, <1>3, <1>8, <2>3 DEF BuildInv, LaidOutSoFar
    <3>2. ASSUME NEW k \in Vars PROVE LaidOut(k)'
      BY <1>3, <1>7, <2>3 DEF BuildInv, LaidOutSoFar
    <3>3. (\A k \in Vars : LaidOut(k))'
      BY <1>8, <3>2
    <3> QED BY <1>1, <1>3, <2>3, <3>1, <3>3 DEF LaidOutSoFar
  <2> QED BY <1>2, <2>1, <2>2, <2>3
<1>10. Appended'
  BY <1>1, <1>2, <1>3, <1>6, <1>8 DEF BuildInv, Appended
<1>11. InPlace'
  BY <1>1, NothingAppended
<1> QED BY <1>4, <1>5, <1>9, <1>10, <1>11 DEF BuildInv

(* The slab that is appended, and where it goes.                           *)
LEMMA AppendingShape ==
  ASSUME BuildInv, Appending
  PROVE  /\ file \in Files /\ stage \in {"fixed", "records"} /\ i \in Vars /\ rec \in Nat
         /\ i + 1 \in 1 .. Len(file.vars) + 1 /\ (i + 1) - 1 = i
         /\ IsRecord(i) <=> stage = "records"
         /\ ~ IsRecord(i) => rec = 0
         /\ IsRecord(i) => rec < numrecs
         /\ numrecs \in Nat
         /\ Len(out) = Place(i, rec)
         /\ fixed_total = AllFixed /\ record_offset = AllRecord
         /\ \A k \in Vars : Matches(k) /\ LaidOut(k)
         /\ Var(i).slabs \in Seq(Nat) /\ rec \in 0 .. Len(Var(i).slabs) - 1
<1>1. PICK st \in {"fixed", "records"} : At(st) /\ (IsRecord(i) <=> st = "records")
  BY DEF Appending
<1>2. /\ file \in Files /\ stage = st /\ i \in Vars /\ i + 1 \in 1 .. Len(file.vars) + 1
      /\ (i + 1) - 1 = i
  BY <1>1, AtVariable
<1>3. /\ rec \in Nat /\ numrecs \in Nat /\ \A k \in Vars : Matches(k)
  BY <1>2 DEF BuildInv, ImageTypeOK, Accepted
<1>4. fixed_total = AllFixed /\ record_offset = AllRecord /\ \A k \in Vars : LaidOut(k)
  BY <1>2 DEF BuildInv, LaidOutSoFar
<1>5. /\ ~ IsRecord(i) => rec = 0 /\ Len(out) = FixedBytes[i - 1]
      /\ IsRecord(i) =>
           rec < numrecs /\ Len(out) = AllFixed + (rec * AllRecord) + RecordBytes[i - 1]
  BY <1>1, <1>2 DEF BuildInv, Appended
<1>6. Len(out) = Place(i, rec)
  BY <1>5 DEF Place
<1>7. Var(i).slabs \in Seq(Nat) /\ (~ Var(i).records => Len(Var(i).slabs) = 1)
  BY <1>2, FileShape
<1>8. rec \in 0 .. Len(Var(i).slabs) - 1
  <2>1. IsRecord(i) => numrecs = Len(Var(i).slabs)
    BY <1>2, <1>3 DEF Matches
  <2>2. ~ IsRecord(i) => Len(Var(i).slabs) = 1
    BY <1>2, <1>3, <1>7 DEF Matches
  <2> QED BY <1>3, <1>5, <2>1, <2>2
<1> QED BY <1>1, <1>2, <1>3, <1>4, <1>5, <1>6, <1>7, <1>8

(* A slab is as long as its slot and holds bytes of its own, then padding. *)
LEMMA SlabBytes ==
  ASSUME file \in Files, NEW k \in Vars, Matches(k), NEW r \in 0 .. Len(Var(k).slabs) - 1
  PROVE  /\ Var(k).slabs[r + 1] = SlabSize(k)
         /\ Slab(k, r) \in [1 .. Slot(k) -> Nat \X Nat \X Nat]
         /\ \A b \in 1 .. SlabSize(k) : b \in 1 .. Slot(k) /\ Slab(k, r)[b] = <<k, r, b>>
<1>1. Len(Var(k).slabs) \in Nat /\ DOMAIN Var(k).slabs = 1 .. Len(Var(k).slabs) /\ k \in Nat
  BY FileShape
<1>2. r + 1 \in DOMAIN Var(k).slabs /\ r \in Nat
  BY <1>1
<1>3. Var(k).slabs[r + 1] = SlabSize(k)
  BY <1>2 DEF Matches
<1>4. Slab(k, r) = [b \in 1 .. Slot(k) |-> IF b <= SlabSize(k) THEN <<k, r, b>> ELSE Pad]
  BY <1>3 DEF Slab, Slot
<1>5. SlabSize(k) \in Nat \ {0} /\ Slot(k) \in Nat /\ Slot(k) >= SlabSize(k)
  BY SlabShape, SlotShape
<1>6. ASSUME NEW b \in 1 .. Slot(k)
      PROVE  (IF b <= SlabSize(k) THEN <<k, r, b>> ELSE Pad) \in Nat \X Nat \X Nat
  BY <1>1, <1>2, <1>5 DEF Pad
<1> QED BY <1>3, <1>4, <1>5, <1>6

LEMMA SlabNumber ==
  ASSUME file \in Files, NEW k \in Vars, Matches(k), NEW r \in 0 .. Len(Var(k).slabs) - 1
  PROVE  r \in Nat /\ (~ IsRecord(k) => r = 0)
<1>1. /\ Len(Var(k).slabs) \in Nat
      /\ Var(k).records \/ Len(Var(k).slabs) = 1
  BY FileShape
<1>2. CASE IsRecord(k)
  BY <1>1, <1>2
<1>3. CASE ~ IsRecord(k)
  <2>1. Len(Var(k).slabs) = 1
    BY <1>1, <1>3 DEF Matches
  <2> QED BY <2>1
<1> QED BY <1>2, <1>3

LEMMA BuildInvAppendSlab == BuildInv /\ AppendSlab => BuildInv'
<1> SUFFICES ASSUME BuildInv, AppendSlab PROVE BuildInv'
  OBVIOUS
<1> DEFINE slab == Slab(i, rec)
<1>1. /\ Appending /\ out' = out \o slab /\ i' = i + 1
      /\ UNCHANGED <<file, stage, rec, numrecs, begins, vsizes, fixed_total, record_offset>>
  BY DEF AppendSlab, Layout
<1>2. /\ file \in Files /\ stage \in {"fixed", "records"} /\ i \in Vars /\ rec \in Nat
      /\ i + 1 \in 1 .. Len(file.vars) + 1 /\ (i + 1) - 1 = i
      /\ IsRecord(i) <=> stage = "records"
      /\ ~ IsRecord(i) => rec = 0
      /\ Len(out) = Place(i, rec)
      /\ \A k \in Vars : Matches(k) /\ LaidOut(k)
      /\ rec \in 0 .. Len(Var(i).slabs) - 1
  BY <1>1, AppendingShape
<1>3. Slot(i) \in Nat \ {0} /\ slab \in [1 .. Slot(i) -> Nat \X Nat \X Nat]
  BY <1>2, SlotShape, SlabBytes
<1>4. slab \in Seq(Nat \X Nat \X Nat) /\ Len(slab) = Slot(i)
  <2> DEFINE S == Nat \X Nat \X Nat
  <2>1. slab \in [1 .. Slot(i) -> S] /\ Slot(i) \in Nat
    BY <1>3
  <2> HIDE DEF slab, S
  <2>2. slab \in Seq(S) /\ Len(slab) = Slot(i)
    BY <2>1, SeqDef, LenProperties
  <2> QED BY <2>2 DEF S
<1>5. /\ out' \in Seq(Nat \X Nat \X Nat) /\ Len(out) \in Nat
      /\ Len(out') = Len(out) + Slot(i)
      /\ \A b \in 1 .. Len(out) : out'[b] = out[b]
      /\ \A b \in 1 .. Slot(i) : out'[Len(out) + b] = slab[b]
  <2> DEFINE S == Nat \X Nat \X Nat
  <2>1. out \in Seq(S) /\ slab \in Seq(S)
    BY <1>4 DEF BuildInv, ImageTypeOK
  <2> HIDE DEF S, slab
  <2>2. /\ out \o slab \in Seq(S) /\ Len(out) \in Nat /\ Len(out \o slab) = Len(out) + Len(slab)
        /\ \A b \in 1 .. Len(out) + Len(slab) :
             (out \o slab)[b] = IF b <= Len(out) THEN out[b] ELSE slab[b - Len(out)]
    BY <2>1, ConcatProperties
  <2>3. ASSUME NEW b \in 1 .. Len(out) PROVE out'[b] = out[b]
    BY <1>1, <1>3, <1>4, <2>2
  <2>4. ASSUME NEW b \in 1 .. Slot(i) PROVE out'[Len(out) + b] = slab[b]
    <3>1. Len(out) + b \in 1 .. Len(out) + Len(slab) /\ ~ (Len(out) + b <= Len(out))
          /\ (Len(out) + b) - Len(out) = b
      BY <1>3, <1>4, <2>2
    <3> QED BY <1>1, <2>2, <3>1
  <2>5. out' \in Seq(Nat \X Nat \X Nat)
    BY <1>1, <2>2 DEF S
  <2> QED BY <1>1, <1>4, <2>2, <2>3, <2>4, <2>5
<1>6. ImageTypeOK'
  <2>1. (begins \in [Vars -> 0 .. Word - 1])' /\ (vsizes \in [Vars -> 0 .. Word - 1])'
    BY <1>1, SameFile DEF BuildInv, ImageTypeOK
  <2> QED BY <1>1, <1>2, <1>5, <2>1 DEF BuildInv, ImageTypeOK
<1>7. Accepted'
  BY <1>1, <1>2, AcceptedStays
<1>8. LaidOutSoFar'
  <2>1. (\A k \in Vars : LaidOut(k))'
    <3>1. \A k \in Vars : LaidOut(k)'
      BY <1>1, <1>2, LaidOutStays
    <3> QED BY <1>1, <3>1, SameFile
  <2>2. fixed_total' = AllFixed' /\ record_offset' = AllRecord'
    BY <1>1, SameFile, AppendingShape
  <2> QED BY <1>1, <1>2, <2>1, <2>2 DEF LaidOutSoFar
<1>9. Appended'
  <2>1. CASE stage = "fixed"
    <3>1. Len(out') = FixedBytes[i] /\ rec = 0
      BY <1>2, <1>3, <1>5, <2>1, ByteCounts DEF Place
    <3> QED BY <1>1, <1>2, <2>1, <3>1, SameFile DEF Appended
  <2>2. CASE stage = "records"
    <3>1. rec < numrecs /\ IsRecord(i)
      BY <1>1, <1>2, <2>2, AppendingShape
    <3>2. /\ AllFixed \in Nat /\ AllRecord \in Nat /\ rec * AllRecord \in Nat
          /\ RecordBytes[i - 1] \in Nat
      <4>1. Len(file.vars) \in 0 .. Len(file.vars) /\ i - 1 \in 0 .. Len(file.vars)
        BY <1>2, FileShape
      <4>2. AllFixed \in Nat /\ AllRecord \in Nat /\ RecordBytes[i - 1] \in Nat
        BY <1>2, <4>1, ByteCounts DEF AllFixed, AllRecord
      <4> QED BY <1>2, <4>2, TimesGrows
    <3>3. RecordBytes[i] = RecordBytes[i - 1] + Slot(i)
      BY <1>2, <3>1, ByteCounts
    <3>4. Len(out) = AllFixed + (rec * AllRecord) + RecordBytes[i - 1]
      BY <1>2, <3>1 DEF Place
    <3>5. Len(out') = AllFixed + (rec * AllRecord) + RecordBytes[i]
      BY <1>3, <1>5, <3>2, <3>3, <3>4
    <3> QED BY <1>1, <1>2, <2>2, <3>1, <3>5, SameFile DEF Appended
  <2> QED BY <1>2, <2>1, <2>2
<1>10. InPlace'
  <2>1. ASSUME NEW k \in Vars, NEW r \in 0 .. Len(Var(k).slabs) - 1, NEW b \in 1 .. Slot(k),
               Place(k, r) + Slot(k) <= Len(out')
        PROVE  out'[Place(k, r) + b] = Slab(k, r)[b]
    <3>1. /\ r \in Nat /\ (~ IsRecord(k) => r = 0)
      BY <1>2, SlabNumber
    <3>2. /\ Place(k, r) \in Nat /\ Slot(k) \in Nat \ {0} /\ Place(i, rec) \in Nat
      BY <1>2, <3>1, PlaceShape, SlotShape
    <3>3. CASE k = i /\ r = rec
      BY <1>2, <1>5, <2>1, <3>3
    <3>4. CASE Precedes(k, r, i, rec)
      <4>1. Place(k, r) + Slot(k) <= Len(out)
        BY <1>2, <3>1, <3>4, PlacesInOrder
      <4>2. Place(k, r) + b \in 1 .. Len(out)
        BY <1>5, <3>2, <4>1
      <4>3. out[Place(k, r) + b] = Slab(k, r)[b]
        BY <4>1 DEF BuildInv, InPlace
      <4> QED BY <1>5, <4>2, <4>3
    <3>5. CASE Precedes(i, rec, k, r)
      <4>1. Place(i, rec) + Slot(i) <= Place(k, r)
        BY <1>2, <3>1, <3>5, PlacesInOrder
      <4> QED BY <1>2, <1>3, <1>5, <2>1, <3>2, <4>1
    <3> QED BY <1>2, <3>1, <3>3, <3>4, <3>5, OneComesFirst
  <2>2. \A k \in Vars : \A r \in 0 .. Len(Var(k).slabs) - 1 :
          Place(k, r) + Slot(k) <= Len(out') =>
            \A b \in 1 .. Slot(k) : out'[Place(k, r) + b] = Slab(k, r)[b]
    BY <2>1
  <2>3. /\ Vars' = Vars /\ \A k : Slot(k)' = Slot(k) /\ Var(k)' = Var(k)
        /\ \A k, r : Place(k, r)' = Place(k, r) /\ Slab(k, r)' = Slab(k, r)
    BY <1>1, SameFile
  <2> QED BY <2>2, <2>3 DEF InPlace
<1> QED BY <1>6, <1>7, <1>8, <1>9, <1>10 DEF BuildInv

LEMMA BuildInvNextPass == BuildInv /\ NextPass => BuildInv'
<1> SUFFICES ASSUME BuildInv, NextPass PROVE BuildInv'
  OBVIOUS
<1>1. /\ i' = 1
      /\ UNCHANGED <<file, rec, numrecs, begins, vsizes, fixed_total, record_offset, out>>
  BY DEF NextPass, Layout, Enter
<1>2. PICK st \in Stages :
        /\ Past(st)
        /\ \/ st = "layoutFixed" /\ stage' = "layoutRecords"
           \/ st = "layoutRecords" /\ stage' = "fixed"
           \/ st = "fixed" /\ stage' = IF numrecs = 0 THEN "built" ELSE "records"
  BY DEF NextPass, Stages, Enter
<1>3. /\ file \in Files /\ stage = st /\ i - 1 = Len(file.vars)
      /\ 1 \in 1 .. Len(file.vars) + 1
      /\ \A k \in Vars : k < i /\ ~ (k < 1)
  BY <1>2, PastVariables
<1>4. ImageTypeOK'
  <2>1. (begins \in [Vars -> 0 .. Word - 1])' /\ (vsizes \in [Vars -> 0 .. Word - 1])'
    BY <1>1, SameFile DEF BuildInv, ImageTypeOK
  <2>2. stage' \in Stages
    BY <1>2 DEF Stages
  <2> QED BY <1>1, <1>3, <2>1, <2>2 DEF BuildInv, ImageTypeOK
<1>5. Accepted'
  BY <1>1, <1>2, <1>3, AcceptedStays
<1>6. /\ FixedBytes[0] = 0 /\ RecordBytes[0] = 0 /\ AllFixed \in Nat /\ AllRecord \in Nat
      /\ numrecs \in Nat
  <2>1. Len(file.vars) \in 0 .. Len(file.vars)
    BY <1>3, FileShape
  <2>2. numrecs \in Nat
    BY <1>2, <1>3 DEF BuildInv, Accepted
  <2> QED BY <1>3, <2>1, <2>2, ByteCounts DEF AllFixed, AllRecord
<1>7. \A k \in Vars : LaidOut(k) => LaidOut(k)'
  BY <1>1, LaidOutStays
<1>8. /\ FixedBytes' = FixedBytes /\ RecordBytes' = RecordBytes /\ Vars' = Vars
      /\ AllFixed' = AllFixed /\ AllRecord' = AllRecord
      /\ \A k : IsRecord(k)' = IsRecord(k)
  BY <1>1, SameFile
<1>9. LaidOutSoFar'
  <2>1. CASE st = "layoutFixed"
    <3>1. fixed_total' = AllFixed' /\ record_offset' = RecordBytes'[i' - 1]
      BY <1>1, <1>3, <1>6, <1>8, <2>1 DEF BuildInv, LaidOutSoFar, AllFixed
    <3>2. ASSUME NEW k \in Vars, ~ IsRecord(k) \/ k < 1 PROVE LaidOut(k)'
      BY <1>3, <1>7, <2>1, <3>2 DEF BuildInv, LaidOutSoFar
    <3>3. (\A k \in Vars : ~ IsRecord(k) \/ k < i => LaidOut(k))'
      BY <1>1, <1>8, <3>2
    <3> QED BY <1>2, <2>1, <3>1, <3>3 DEF LaidOutSoFar
  <2>2. CASE st \in {"layoutRecords", "fixed"}
    <3>1. fixed_total' = AllFixed' /\ record_offset' = AllRecord'
      BY <1>1, <1>3, <1>8, <2>2 DEF BuildInv, LaidOutSoFar, AllRecord
    <3>2. ASSUME NEW k \in Vars PROVE LaidOut(k)'
      BY <1>3, <1>7, <2>2 DEF BuildInv, LaidOutSoFar
    <3>3. (\A k \in Vars : LaidOut(k))'
      BY <1>8, <3>2
    <3> QED BY <1>2, <2>2, <3>1, <3>3 DEF LaidOutSoFar
  <2> QED BY <1>2, <2>1, <2>2
<1>10. Appended'
  <2>1. CASE st \in {"layoutFixed", "layoutRecords"}
    <3>1. out' = <<>> /\ rec' = 0
      BY <1>1, <1>3, <2>1 DEF BuildInv, Appended
    <3>2. Len(out') = FixedBytes'[i' - 1]
      BY <1>1, <1>6, <1>8, <3>1
    <3> QED BY <1>2, <2>1, <3>1, <3>2 DEF Appended
  <2>2. CASE st = "fixed"
    <3>1. rec' = 0 /\ Len(out') = AllFixed
      BY <1>1, <1>3, <2>2 DEF BuildInv, Appended, AllFixed
    <3>2. 0 * AllRecord = 0
      BY <1>6
    <3>3. CASE numrecs = 0
      <4>1. Len(out') = AllFixed' + (numrecs' * AllRecord')
        BY <1>1, <1>6, <1>8, <3>1, <3>2, <3>3
      <4>2. stage' = "built"
        BY <1>2, <2>2, <3>3
      <4> QED BY <4>1, <4>2 DEF Appended
    <3>4. CASE numrecs # 0
      <4>1. Len(out') = AllFixed' + (rec' * AllRecord') + RecordBytes'[i' - 1]
        BY <1>1, <1>6, <1>8, <3>1, <3>2
      <4>2. rec' < numrecs'
        BY <1>1, <1>6, <3>1, <3>4
      <4>3. stage' = "records"
        BY <1>2, <2>2, <3>4
      <4> QED BY <4>1, <4>2, <4>3 DEF Appended
    <3> QED BY <3>3, <3>4
  <2> QED BY <1>2, <2>1, <2>2
<1>11. InPlace'
  BY <1>1, NothingAppended
<1> QED BY <1>4, <1>5, <1>9, <1>10, <1>11 DEF BuildInv

LEMMA BuildInvNextRecord == BuildInv /\ NextRecord => BuildInv'
<1> SUFFICES ASSUME BuildInv, NextRecord PROVE BuildInv'
  OBVIOUS
<1>1. /\ Past("records") /\ rec' = rec + 1 /\ i' = 1
      /\ stage' = IF rec + 1 = numrecs THEN "built" ELSE "records"
      /\ UNCHANGED <<file, numrecs, begins, vsizes, fixed_total, record_offset, out>>
  BY DEF NextRecord, Layout, Enter
<1>2. /\ file \in Files /\ stage = "records" /\ i - 1 = Len(file.vars)
      /\ 1 \in 1 .. Len(file.vars) + 1
  BY <1>1, PastVariables
<1>3. ImageTypeOK'
  <2>1. (begins \in [Vars -> 0 .. Word - 1])' /\ (vsizes \in [Vars -> 0 .. Word - 1])'
    BY <1>1, SameFile DEF BuildInv, ImageTypeOK
  <2>2. stage' \in Stages
    BY <1>1 DEF Stages
  <2> QED BY <1>1, <1>2, <2>1, <2>2 DEF BuildInv, ImageTypeOK
<1>4. Accepted'
  BY <1>1, <1>2, AcceptedStays
<1>5. LaidOutSoFar'
  <2>1. fixed_total' = AllFixed' /\ record_offset' = AllRecord'
    BY <1>1, <1>2, SameFile DEF BuildInv, LaidOutSoFar
  <2>2. ASSUME NEW k \in Vars PROVE LaidOut(k)'
    BY <1>1, <1>2, LaidOutStays DEF BuildInv, LaidOutSoFar
  <2>3. (\A k \in Vars : LaidOut(k))'
    BY <1>1, <2>2, SameFile
  <2> QED BY <1>1, <2>1, <2>3 DEF LaidOutSoFar
<1>6. Appended'
  <2>1. /\ rec \in Nat /\ numrecs \in Nat /\ rec < numrecs
        /\ Len(out) = AllFixed + (rec * AllRecord) + AllRecord
    BY <1>2 DEF BuildInv, ImageTypeOK, Accepted, Appended, AllRecord
  <2>2. AllFixed \in Nat /\ AllRecord \in Nat /\ RecordBytes[0] = 0
    <3>1. Len(file.vars) \in 0 .. Len(file.vars)
      BY <1>2, FileShape
    <3> QED BY <1>2, <3>1, ByteCounts DEF AllFixed, AllRecord
  <2>3. (rec + 1) * AllRecord = (rec * AllRecord) + AllRecord /\ rec * AllRecord \in Nat
    BY <2>1, <2>2
  <2>4. Len(out') = AllFixed' + (rec' * AllRecord')
    <3>1. Len(out) = AllFixed + ((rec + 1) * AllRecord)
      BY <2>1, <2>2, <2>3
    <3> QED BY <1>1, <3>1, SameFile
  <2>5. CASE rec + 1 = numrecs
    BY <1>1, <2>4, <2>5 DEF Appended
  <2>6. CASE rec + 1 # numrecs
    <3>1. rec' < numrecs'
      BY <1>1, <2>1, <2>6
    <3>2. Len(out') = AllFixed' + (rec' * AllRecord') + RecordBytes'[i' - 1]
      <4>1. RecordBytes'[i' - 1] = 0
        BY <1>1, <2>2, SameFile
      <4>2. AllFixed' + (rec' * AllRecord') \in Nat
        BY <1>1, <2>2, <2>3, SameFile
      <4> QED BY <2>4, <4>1, <4>2
    <3> QED BY <1>1, <2>6, <3>1, <3>2 DEF Appended
  <2> QED BY <2>5, <2>6
<1>7. InPlace'
  BY <1>1, NothingAppended
<1> QED BY <1>3, <1>4, <1>5, <1>6, <1>7 DEF BuildInv

LEMMA BuildInvNext == BuildInv /\ [BuildNext]_writerVars => BuildInv'
<1>1. ASSUME BuildInv, UNCHANGED writerVars PROVE BuildInv'
  <2>1. UNCHANGED <<file, stage, i, rec, numrecs, begins, vsizes, fixed_total, record_offset, out>>
    BY <1>1 DEF writerVars
  <2>2. ImageTypeOK'
    <3>1. (begins \in [Vars -> 0 .. Word - 1])' /\ (vsizes \in [Vars -> 0 .. Word - 1])'
      BY <1>1, <2>1, SameFile DEF BuildInv, ImageTypeOK
    <3> QED BY <1>1, <2>1, <3>1 DEF BuildInv, ImageTypeOK
  <2>3. \A k : /\ Matches(k)' = Matches(k) /\ Begin(k)' = Begin(k)
               /\ LaidOut(k)' = LaidOut(k) /\ IsRecord(k)' = IsRecord(k)
    BY <2>1, SameFile DEF Matches, Begin, LaidOut
  <2>4. Accepted'
    BY <1>1, <2>1, <2>3, SameFile DEF BuildInv, Accepted
  <2>5. LaidOutSoFar'
    BY <1>1, <2>1, <2>3, SameFile DEF BuildInv, LaidOutSoFar
  <2>6. Appended'
    BY <1>1, <2>1, SameFile DEF BuildInv, Appended
  <2>7. InPlace'
    BY <1>1, <2>1, NothingAppended
  <2> QED BY <2>2, <2>4, <2>5, <2>6, <2>7 DEF BuildInv
<1> QED
  BY <1>1, BuildInvCheck, BuildInvRefuse, BuildInvOverflow, BuildInvChecked,
     BuildInvLayoutFixed, BuildInvLayoutRecord, BuildInvContinue, BuildInvAppendSlab,
     BuildInvNextPass, BuildInvNextRecord DEF BuildNext

LEMMA BuildInvariance == BuildSpec => []BuildInv
BY BuildInvInit, BuildInvNext, PTL DEF BuildSpec
-----------------------------------------------------------------------------
(* What fits a word is not cut off by it: the sums of the layout are then  *)
(* the places themselves.                                                  *)
LEMMA NotCutOff ==
  ASSUME NEW n \in Nat, n < Word
  PROVE  n % Word = n
BY WordPositive

LEMMA BaseIsPlace ==
  ASSUME file \in Files, Fits, fixed_total = AllFixed, record_offset = AllRecord,
         numrecs \in Nat, \A j \in Vars : LaidOut(j),
         NEW k \in Vars, NEW r \in Nat, IsRecord(k) => numrecs > 0
  PROVE  Base(k, r) = HeaderBytes + Place(k, r)
<1>1. /\ Len(file.vars) \in Nat /\ Vars = 1 .. Len(file.vars)
      /\ k - 1 \in 0 .. Len(file.vars) /\ k \in 0 .. Len(file.vars) /\ k <= Len(file.vars)
      /\ Len(file.vars) \in 0 .. Len(file.vars)
  BY FileShape
<1>2. /\ AllFixed \in Nat /\ AllRecord \in Nat
      /\ FixedBytes[k - 1] \in Nat /\ RecordBytes[k - 1] \in Nat
      /\ FixedBytes[k] \in Nat /\ RecordBytes[k] \in Nat
  BY <1>1, ByteCounts DEF AllFixed, AllRecord
<1>3. FixedBytes[k] <= AllFixed /\ RecordBytes[k] <= AllRecord
  BY <1>1, ByteCounts DEF AllFixed, AllRecord
<1>4. Slot(k) \in Nat \ {0}
  BY SlotShape
<1>5. HeaderBytes \in Nat \ {0} /\ Word \in Nat \ {0}
  BY WordPositive
<1>6. HeaderBytes + AllFixed + (numrecs * AllRecord) <= Word /\ numrecs * AllRecord \in Nat
  BY <1>2, TimesGrows DEF Fits
<1>7. ReadAsRecord(k) <=> IsRecord(k)
  BY SlabShape
<1>8. LaidOut(k)
  OBVIOUS
<1>9. CASE ~ IsRecord(k)
  <2>1. FixedBytes[k] = FixedBytes[k - 1] + Slot(k)
    BY <1>9, ByteCounts
  <2>2. HeaderBytes + FixedBytes[k - 1] < Word /\ FixedBytes[k - 1] < Word
    BY <1>2, <1>3, <1>4, <1>5, <1>6, <2>1
  <2>3. Begin(k) = HeaderBytes + FixedBytes[k - 1] /\ Begin(k) \in Nat
    BY <1>2, <1>5, <1>9, <2>2, NotCutOff DEF Begin
  <2>4. begins[k] = Begin(k)
    BY <1>8, <2>2, <2>3, NotCutOff DEF LaidOut
  <2> QED BY <1>7, <1>9, <2>3, <2>4 DEF Base, Place
<1>10. CASE IsRecord(k)
  <2>1. RecordBytes[k] = RecordBytes[k - 1] + Slot(k)
    BY <1>10, ByteCounts
  <2>2. AllRecord <= numrecs * AllRecord
    <3>1. 1 * AllRecord <= numrecs * AllRecord /\ 1 <= numrecs
      BY <1>2, <1>10, TimesGrows
    <3> QED BY <1>2, <3>1
  <2>3. HeaderBytes + AllFixed + RecordBytes[k - 1] < Word
    BY <1>2, <1>3, <1>4, <1>5, <1>6, <2>1, <2>2
  <2>4. AllFixed < Word /\ RecordBytes[k - 1] < Word /\ AllRecord < Word
    BY <1>2, <1>5, <1>6, <2>2, <2>3
  <2>5. Begin(k) = HeaderBytes + AllFixed + RecordBytes[k - 1] /\ Begin(k) \in Nat
    <3>1. AllFixed % Word = AllFixed /\ RecordBytes[k - 1] % Word = RecordBytes[k - 1]
      BY <1>2, <2>4, NotCutOff
    <3> QED BY <1>2, <1>5, <1>10, <3>1 DEF Begin
  <2>6. begins[k] = Begin(k)
    BY <1>8, <2>3, <2>5, NotCutOff DEF LaidOut
  <2>7. Recsize = AllRecord
    <3>1. ASSUME NEW j \in Vars
          PROVE  (IF ReadAsRecord(j) THEN vsizes[j] ELSE 0) = (IF IsRecord(j) THEN Slot(j) ELSE 0)
      <4>1. CASE IsRecord(j)
        <5>1. j \in 0 .. Len(file.vars) /\ j - 1 \in 0 .. Len(file.vars) /\ j <= Len(file.vars)
          BY <1>1
        <5>2. RecordBytes[j] = RecordBytes[j - 1] + Slot(j) /\ RecordBytes[j] <= AllRecord
          BY <1>1, <4>1, <5>1, ByteCounts DEF AllRecord
        <5>3. Slot(j) \in Nat /\ RecordBytes[j - 1] \in Nat
          BY <5>1, SlotShape, ByteCounts
        <5>4. Slot(j) < Word
          BY <1>2, <1>5, <2>4, <5>2, <5>3
        <5>5. vsizes[j] = Slot(j)
          BY <5>3, <5>4, NotCutOff DEF LaidOut
        <5> QED BY <4>1, <5>5, SlabShape
      <4>2. CASE ~ IsRecord(j)
        BY <4>2, SlabShape
      <4> QED BY <4>1, <4>2
    <3>2. [j \in Vars |-> IF ReadAsRecord(j) THEN vsizes[j] ELSE 0]
            = [j \in Vars |-> IF IsRecord(j) THEN Slot(j) ELSE 0]
      BY <3>1
    <3> QED BY <3>2 DEF Recsize, AllRecord, RecordBytes
  <2>8. Base(k, r) = (HeaderBytes + AllFixed + RecordBytes[k - 1]) + (r * AllRecord)
    BY <1>7, <1>10, <2>5, <2>6, <2>7 DEF Base
  <2>9. Place(k, r) = AllFixed + (r * AllRecord) + RecordBytes[k - 1] /\ r * AllRecord \in Nat
    BY <1>2, <1>10, TimesGrows DEF Place
  <2> QED BY <1>2, <1>5, <2>8, <2>9
<1> QED BY <1>9, <1>10

(* The image and its header words have their types throughout.             *)
THEOREM ImageIsTyped == BuildSpec => []ImageTypeOK
BY BuildInvariance, PTL DEF BuildInv

(* The two passes of build agree: while the data is appended, every slab   *)
(* goes where the header says, on a multiple of four bytes.                *)
THEOREM PassesAgree == BuildSpec => []AppendsWhereDeclared
<1>1. BuildInv => AppendsWhereDeclared
  <2> SUFFICES ASSUME BuildInv, Appending, Fits
               PROVE  /\ Base(i, rec) = HeaderBytes + Len(out)
                      /\ (HeaderBytes + Len(out)) % 4 = 0
    BY DEF AppendsWhereDeclared
  <2>1. /\ file \in Files /\ i \in Vars /\ rec \in Nat /\ numrecs \in Nat
        /\ IsRecord(i) => rec < numrecs
        /\ Len(out) = Place(i, rec)
        /\ fixed_total = AllFixed /\ record_offset = AllRecord
        /\ \A k \in Vars : LaidOut(k)
    BY AppendingShape
  <2>2. IsRecord(i) => numrecs > 0
    BY <2>1
  <2>3. Base(i, rec) = HeaderBytes + Place(i, rec)
    BY <2>1, <2>2, BaseIsPlace
  <2>4. Place(i, rec) \in Nat /\ Place(i, rec) % 4 = 0
    BY <2>1, PlaceShape
  <2>5. (HeaderBytes + Place(i, rec)) % 4 = 0
    BY <2>4, HeaderAssumption, FoursAdd
  <2> QED BY <2>1, <2>3, <2>5
<1> QED BY <1>1, BuildInvariance, PTL

(* Once everything is appended, every slab is in place.                    *)
LEMMA AllInPlace ==
  ASSUME BuildInv, stage = "built", NEW k \in Vars, NEW r \in 0 .. Len(Var(k).slabs) - 1
  PROVE  /\ Place(k, r) \in Nat /\ Place(k, r) + Slot(k) <= Len(out)
         /\ IsRecord(k) => numrecs > 0
<1>1. /\ file \in Files /\ numrecs \in Nat /\ Matches(k)
      /\ Len(out) = AllFixed + (numrecs * AllRecord)
  BY DEF BuildInv, ImageTypeOK, Accepted, Appended
<1>2. /\ k - 1 \in 0 .. Len(file.vars) /\ k \in 0 .. Len(file.vars) /\ k <= Len(file.vars)
      /\ Len(file.vars) \in 0 .. Len(file.vars)
      /\ Len(Var(k).slabs) \in Nat
  BY <1>1, FileShape
<1>3. r \in Nat /\ r + 1 <= Len(Var(k).slabs)
  BY <1>2
<1>4. Place(k, r) \in Nat /\ Slot(k) \in Nat
  BY <1>1, <1>3, PlaceShape, SlotShape
<1>5. /\ AllFixed \in Nat /\ AllRecord \in Nat
      /\ FixedBytes[k - 1] \in Nat /\ RecordBytes[k - 1] \in Nat
      /\ FixedBytes[k] \in Nat /\ RecordBytes[k] \in Nat
  BY <1>1, <1>2, ByteCounts DEF AllFixed, AllRecord
<1>6. FixedBytes[k] <= AllFixed /\ RecordBytes[k] <= AllRecord
  BY <1>1, <1>2, ByteCounts DEF AllFixed, AllRecord
<1>7. CASE ~ IsRecord(k)
  <2>1. FixedBytes[k] = FixedBytes[k - 1] + Slot(k)
    BY <1>1, <1>7, ByteCounts
  <2>2. numrecs * AllRecord \in Nat
    BY <1>1, <1>5, TimesGrows
  <2> QED BY <1>1, <1>4, <1>5, <1>6, <1>7, <2>1, <2>2 DEF Place
<1>8. CASE IsRecord(k)
  <2>1. numrecs = Len(Var(k).slabs)
    BY <1>1, <1>8 DEF Matches
  <2>2. /\ (r + 1) * AllRecord <= numrecs * AllRecord /\ numrecs * AllRecord \in Nat
        /\ r * AllRecord \in Nat
    <3>1. r + 1 \in Nat /\ r + 1 <= numrecs /\ r <= numrecs
      BY <1>1, <1>3, <2>1
    <3>2. (r + 1) * AllRecord <= numrecs * AllRecord /\ numrecs * AllRecord \in Nat
      BY <1>1, <1>5, <3>1, TimesGrows
    <3>3. r * AllRecord \in Nat
      BY <1>1, <1>3, <1>5, <3>1, TimesGrows
    <3> QED BY <3>2, <3>3
  <2>3. (r + 1) * AllRecord = (r * AllRecord) + AllRecord
    BY <1>3, <1>5
  <2>4. RecordBytes[k] = RecordBytes[k - 1] + Slot(k)
    BY <1>1, <1>8, ByteCounts
  <2>5. Place(k, r) = AllFixed + (r * AllRecord) + RecordBytes[k - 1]
    BY <1>8 DEF Place
  <2>6. numrecs > 0
    BY <1>3, <2>1
  <2>7. (r * AllRecord) + AllRecord <= numrecs * AllRecord
    BY <2>2, <2>3
  <2>8. Place(k, r) + Slot(k) = AllFixed + (r * AllRecord) + RecordBytes[k]
    BY <1>4, <1>5, <2>2, <2>4, <2>5
  <2>9. Place(k, r) + Slot(k) <= AllFixed + (numrecs * AllRecord)
    BY <1>5, <1>6, <2>2, <2>7, <2>8
  <2> QED BY <1>1, <1>4, <2>6, <2>9
<1> QED BY <1>7, <1>8

(* What is read back through the header is what the variable was given:    *)
(* every record of every variable, and no byte of anything else.           *)
THEOREM FileReadsBack == BuildSpec => []ReadsBackWhatWasGiven
<1>1. BuildInv => ReadsBackWhatWasGiven
  <2> SUFFICES ASSUME BuildInv, stage = "built", Fits, NEW k \in Vars
               PROVE  ReadBack(k) = [s \in 0 .. Len(Var(k).slabs) - 1 |->
                                       [b \in 1 .. Var(k).slabs[s + 1] |-> <<k, s, b>>]]
    BY DEF ReadsBackWhatWasGiven
  <2>1. /\ file \in Files /\ numrecs \in Nat
        /\ fixed_total = AllFixed /\ record_offset = AllRecord
        /\ \A j \in Vars : LaidOut(j) /\ Matches(j)
        /\ out \in Seq(Nat \X Nat \X Nat)
    BY DEF BuildInv, ImageTypeOK, Accepted, LaidOutSoFar
  <2>2. Slices(k) = Len(Var(k).slabs)
    <3>1. ReadAsRecord(k) <=> IsRecord(k)
      BY <2>1, SlabShape
    <3>2. CASE IsRecord(k)
      BY <2>1, <3>1, <3>2 DEF Slices, Matches
    <3>3. CASE ~ IsRecord(k)
      <4>1. Var(k).records = IsRecord(k) /\ (Var(k).records \/ Len(Var(k).slabs) = 1)
        BY <2>1, FileShape DEF Matches
      <4> QED BY <3>1, <3>3, <4>1 DEF Slices
    <3> QED BY <3>2, <3>3
  <2>3. ASSUME NEW s \in 0 .. Len(Var(k).slabs) - 1
        PROVE  [b \in 1 .. PerSlice(k) * Var(k).width |-> Byte(Base(k, s) + b - 1)]
                 = [b \in 1 .. Var(k).slabs[s + 1] |-> <<k, s, b>>]
    <3>1. /\ Var(k).slabs[s + 1] = SlabSize(k)
          /\ \A b \in 1 .. SlabSize(k) : b \in 1 .. Slot(k) /\ Slab(k, s)[b] = <<k, s, b>>
      BY <2>1, SlabBytes
    <3>2. PerSlice(k) * Var(k).width = SlabSize(k)
      BY <2>1, SlabShape
    <3>3. /\ Place(k, s) \in Nat /\ Place(k, s) + Slot(k) <= Len(out)
          /\ IsRecord(k) => numrecs > 0
      BY AllInPlace
    <3>4. s \in Nat
      BY <2>1, FileShape
    <3>5. Base(k, s) = HeaderBytes + Place(k, s)
      BY <2>1, <3>3, <3>4, BaseIsPlace
    <3>6. Slot(k) \in Nat /\ Len(out) \in Nat /\ HeaderBytes \in Nat
      BY <2>1, SlotShape, WordPositive
    <3>7. ASSUME NEW b \in 1 .. SlabSize(k) PROVE Byte(Base(k, s) + b - 1) = <<k, s, b>>
      <4> DEFINE o == Base(k, s) + b - 1
      <4>1. b \in 1 .. Slot(k) /\ b \in Nat /\ b >= 1 /\ b <= Slot(k)
        BY <3>1, <3>6
      <4>2. o = HeaderBytes + Place(k, s) + (b - 1) /\ o \in Nat
        BY <3>3, <3>5, <3>6, <4>1
      <4>3. /\ ~ (o < HeaderBytes) /\ o - HeaderBytes < Len(out)
            /\ (o - HeaderBytes) + 1 = Place(k, s) + b
        <5> HIDE DEF o
        <5> QED BY <3>3, <3>6, <4>1, <4>2
      <4>4. out[Place(k, s) + b] = Slab(k, s)[b]
        BY <3>3, <4>1 DEF BuildInv, InPlace
      <4>5. Byte(o) = out[Place(k, s) + b]
        <5> HIDE DEF o
        <5> QED BY <4>3 DEF Byte
      <4> QED BY <3>1, <4>4, <4>5
    <3> QED BY <3>1, <3>2, <3>7
  <2> QED BY <2>2, <2>3 DEF ReadBack
<1> QED BY <1>1, BuildInvariance, PTL
=============================================================================
