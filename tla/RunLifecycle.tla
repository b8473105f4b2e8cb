---------------------------- MODULE RunLifecycle ----------------------------
(***************************************************************************)
(* One invocation of the program and what it leaves on the file system:    *)
(* execute (src_rust/main.rs), OutputPaths::prepare (paths.rs), the        *)
(* writing at the end of Model::run (model.rs) and Writer::write_to        *)
(* (netcdf.rs).                                                            *)
(*                                                                         *)
(* A path is the sequence of its names below the run directory <<>>.  The  *)
(* time loop itself is OutputSchedule; here it is one step.  The operating *)
(* system may refuse any request, and the process may die at any moment.   *)
(*                                                                         *)
(* Faulty variants, used only to show that the properties notice the       *)
(* mistake: SkippableUnchecked, NeededItself, PreparedOpening,             *)
(* WrittenWithoutHis and WriteMapUnfinished.                               *)
(***************************************************************************)
EXTENDS Integers, Sequences, SequencesExt

CONSTANT Paths   \* the paths of the tree, with every prefix of theirs

Ancestors(p) == {SubSeq(p, 1, n) : n \in 0 .. Len(p)}

ASSUME PathsAssumption ==
  /\ \A p \in Paths : p \in Seq(STRING) /\ Ancestors(p) \subseteq Paths
  /\ <<>> \in Paths

Families == {"map", "his"}

(* What is at a path.  "old" is a file of an earlier run; "partial" one    *)
(* that was truncated and not filled.                                      *)
Entries == {"none", "dir", "old", "partial", "map", "his"}

VARIABLES
  enabled,  \* output families that are configured
  path,     \* their resolved paths
  nobs,     \* number of observation points
  fs,       \* the file system
  phase,    \* the next step of execute
  code,     \* exit code; -1 while running, or when the process died
  before    \* the file system the invocation found (for the properties)

inputs == <<enabled, path, nobs, before>>
vars == <<enabled, path, nobs, fs, phase, code, before>>

EXIT_USAGE == 2

IsDir(p) == fs[p] = "dir"
Exists(p) == fs[p] # "none"

Tree(f) ==
  /\ f[<<>>] = "dir"
  /\ \A p \in Paths : p # <<>> /\ f[p] # "none" => f[Front(p)] = "dir"

Init ==
  /\ enabled \in SUBSET Families
  /\ path \in [Families -> Paths \ {<<>>}]
  /\ nobs \in 0 .. 1
  /\ fs \in [Paths -> {"none", "dir", "old"}]
  /\ Tree(fs)
  /\ phase = "read"
  /\ code = -1
  /\ before = fs

Goto(next) == phase' = next /\ UNCHANGED code
Exit(status) == phase' = "exit" /\ code' = status

(* RunContext::new, parse_file, resolve, parse_all: only reads.            *)
ReadInputs ==
  /\ phase = "read"
  /\ Goto("prepare map") \/ Exit(EXIT_USAGE)
  /\ UNCHANGED <<inputs, fs>>

(* One turn of the loop of prepare: an output that needs nothing, one that *)
(* is rejected, one whose missing parent directories are created, all of   *)
(* them or, when the system refuses, only the upper ones.                  *)
SkippableUnchecked(p) == Exists(Front(p))
Skippable(p) == ~ IsDir(p) /\ IsDir(Front(p))
Rejected(p) == IsDir(p) \/ (Exists(Front(p)) /\ ~ IsDir(Front(p)))
Creatable(p) == \A a \in Ancestors(Front(p)) : fs[a] \in {"none", "dir"}
WithDirectory(p) ==
  [q \in Paths |-> IF q \in Ancestors(p) THEN "dir" ELSE fs[q]]

NeededItself(p) == p
Needed(p) == Front(p)

PreparedOpening(p) == [fs EXCEPT ![p] = "partial"]
Prepared(p) == fs

Prepare(f, at, next) ==
  /\ phase = at
  /\ \/ /\ f \notin enabled
        /\ Goto(next)
        /\ UNCHANGED fs
     \/ /\ f \in enabled
        /\ Skippable(path[f])
        /\ Goto(next)
        /\ fs' = Prepared(path[f])
     \/ /\ f \in enabled
        /\ ~ Skippable(path[f])
        /\ Exit(EXIT_USAGE)
        /\ UNCHANGED fs
     \/ /\ f \in enabled
        /\ ~ Skippable(path[f])
        /\ ~ Rejected(path[f])
        /\ Creatable(path[f])
        /\ \/ /\ fs' = WithDirectory(Needed(path[f]))
              /\ Goto(next)
           \/ /\ \E a \in Ancestors(Needed(path[f])) : fs' = WithDirectory(a)
              /\ Exit(EXIT_USAGE)
  /\ UNCHANGED inputs

PrepareMap == Prepare("map", "prepare map", "prepare his")
PrepareHis == Prepare("his", "prepare his", "load")

(* The NetCDF check, the mesh reader, Model::new and the time loop: only   *)
(* reads.  A failure comes after the directories were made.                *)
LoadAndRun ==
  /\ phase = "load"
  /\ Goto("write map") \/ Exit(EXIT_USAGE)
  /\ UNCHANGED <<inputs, fs>>

(* The file of family f is written when it is configured and, for the      *)
(* history, when there is something to observe.                            *)
WrittenWithoutHis(f) == f \in enabled /\ f = "map"
Written(f) == f \in enabled /\ (f = "his" => nobs > 0)

(* std::fs::write truncates the file, then fills it.                       *)
Write(f, at, filling, next, last) ==
  /\ phase = at
  /\ \/ /\ ~ Written(f)
        /\ IF last THEN Exit(0) ELSE Goto(next)
        /\ UNCHANGED fs
     \/ /\ Written(f)
        /\ ~ IsDir(path[f])
        /\ IsDir(Front(path[f]))
        /\ fs' = [fs EXCEPT ![path[f]] = "partial"]
        /\ Goto(filling)
     \/ /\ Written(f)
        /\ Exit(EXIT_USAGE)
        /\ UNCHANGED fs
  /\ UNCHANGED inputs

Fill(f, filling, next, last) ==
  /\ phase = filling
  /\ \/ /\ fs' = [fs EXCEPT ![path[f]] = f]
        /\ IF last THEN Exit(0) ELSE Goto(next)
     \/ /\ Exit(EXIT_USAGE)
        /\ UNCHANGED fs
  /\ UNCHANGED inputs

WriteMapUnfinished ==
  Write("map", "write map", "write his", "write his", FALSE)
WriteMap == Write("map", "write map", "fill map", "write his", FALSE)
FillMap == Fill("map", "fill map", "write his", FALSE)
WriteHis == Write("his", "write his", "fill his", "exit", TRUE)
FillHis == Fill("his", "fill his", "exit", TRUE)

(* Killed, or ended by a panic.                                            *)
Die ==
  /\ phase # "exit"
  /\ phase' = "exit"
  /\ UNCHANGED <<inputs, fs, code>>

Next ==
  \/ ReadInputs \/ PrepareMap \/ PrepareHis \/ LoadAndRun
  \/ WriteMap \/ FillMap \/ WriteHis \/ FillHis \/ Die

Spec == Init /\ [][Next]_vars
-----------------------------------------------------------------------------
AfterPrepare == {"load", "write map", "fill map", "write his", "fill his"}

TypeOK ==
  /\ enabled \subseteq Families
  /\ path \in [Families -> Paths]
  /\ nobs \in Nat
  /\ fs \in [Paths -> Entries]
  /\ Tree(fs)
  /\ phase \in AfterPrepare \union {"read", "prepare map", "prepare his", "exit"}
  /\ code \in {-1, 0, EXIT_USAGE}

(* prepare makes every output writable as far as directories go: once it   *)
(* has returned, the parent of every output is a directory, those of the   *)
(* map made before those of the history included.                          *)
ParentsReady ==
  phase \in AfterPrepare => \A f \in enabled : IsDir(Front(path[f]))

Writing == [map |-> {"write map", "fill map"}, his |-> {"write his", "fill his"}]

(* The results of an earlier run survive a run that fails, for whatever    *)
(* reason, before it has something to write in their place: a file is      *)
(* replaced only at the end, and only by the output configured there.      *)
ResultsSurviveUntilWriting ==
  [][\A p \in Paths : fs[p] \notin {"none", "dir"} /\ fs'[p] # fs[p] =>
       \E f \in enabled : path[f] = p /\ phase \in Writing[f]]_vars

(* Directories are never removed, and a run that made some needed them.    *)
OnlyNeededDirectories ==
  \A p \in Paths :
    /\ before[p] = "dir" => fs[p] = "dir"
    /\ before[p] # "dir" /\ fs[p] = "dir" =>
         \E f \in enabled : p \in Ancestors(Front(path[f]))

(* Exit code 0 means that every output asked for is on disk and whole.     *)
(* When both families name one path it is the history that stays.          *)
SuccessMeansWritten ==
  code = 0 =>
    /\ "his" \in enabled /\ nobs > 0 => fs[path["his"]] = "his"
    /\ "map" \in enabled =>
         fs[path["map"]] \in {"map"} \union
           (IF enabled = Families /\ nobs > 0 /\ path["his"] = path["map"]
            THEN {"his"} ELSE {})

(* A history written by this run never stands beside the map of an earlier *)
(* one, or beside half a map, however the run ended.                       *)
ResultsOfOneRun ==
  enabled = Families /\ path["map"] # path["his"] /\ fs[path["his"]] = "his" =>
    fs[path["map"]] = "map"

(* "reject an output path that already exists as a directory (the NetCDF   *)
(* writer would fail on it)": an output path that passed prepare is not a  *)
(* directory.                                                              *)
PreparedOutputsAreNoDirectories ==
  phase \in AfterPrepare => \A f \in enabled : ~ IsDir(path[f])
=============================================================================
