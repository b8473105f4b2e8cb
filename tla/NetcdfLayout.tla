---------------------------- MODULE NetcdfLayout ----------------------------
(***************************************************************************)
(* The classic-format file image of src_rust/netcdf.rs: Writer::build      *)
(* computes where every variable will begin in one pass and appends the    *)
(* data in another, and NetcdfFile finds the data again from the header    *)
(* alone.  Neither pass looks at the other's result.                       *)
(*                                                                         *)
(* The header is HeaderBytes long (names and attributes are left out, its  *)
(* pieces are all padded to four bytes); of its words the model keeps the  *)
(* dimension lengths, numrecs, vsize and begin, which the reader uses.     *)
(* The data is kept byte by byte: byte <<k, r, b>> is byte b of record r   *)
(* of variable k.  Header words are 32 bits in the code, Word here.        *)
(*                                                                         *)
(* LayoutUnpadded and BeginOfRecordAlone are faulty variants, used only to *)
(* show that the properties notice the mistake.                            *)
(***************************************************************************)
EXTENDS Integers, Sequences

CONSTANTS
  Files,        \* the Writers that build is called on, see FileType
  HeaderBytes,  \* length of the header
  Word          \* a header word holds 0 .. Word - 1

Unlimited == -1   \* None, the length of the unlimited dimension
NoCount == -1     \* numrecs before a record variable was seen
Pad == <<0, 0, 0>>          \* bytes that belong to no variable
HeaderByte == <<0, 0, 1>>
PastEnd == <<0, 0, 2>>      \* what is read there is an error

(* dims: the dimension lengths, none of them zero.  vars: the dimension    *)
(* numbers, the unlimited one only first, the bytes per element, whether   *)
(* the data comes as records (VarData::Record) and the number of bytes in  *)
(* each record, or in the one payload.                                     *)
VarType(f) ==
  [dims : Seq(DOMAIN f.dims), width : {1, 2, 4, 8}, records : BOOLEAN, slabs : Seq(Nat)]
FileType(f) ==
  /\ f.dims \in Seq({Unlimited} \union (Nat \ {0}))
  /\ f.vars \in Seq(VarType(f))
  /\ \A k \in DOMAIN f.vars :
       /\ \A j \in DOMAIN f.vars[k].dims : j > 1 => f.dims[f.vars[k].dims[j]] # Unlimited
       /\ f.vars[k].records \/ Len(f.vars[k].slabs) = 1

ASSUME FilesAssumption == \A f \in Files : FileType(f)
ASSUME HeaderAssumption == HeaderBytes \in Nat \ {0} /\ HeaderBytes % 4 = 0
ASSUME WordAssumption == Word \in Nat /\ Word % 4 = 0 /\ HeaderBytes < Word

VARIABLES
  file,           \* the Writer
  stage,          \* what build is doing, see Stages
  i,              \* the variable it is at
  rec,            \* the record it is at, from 0
  numrecs,        \* records of every record variable
  begins, vsizes, \* header words of each variable
  fixed_total,    \* bytes of the fixed variables laid out so far
  record_offset,  \* bytes of one record laid out so far
  out             \* the data appended behind the header

writerVars == <<file, stage, i, rec, numrecs, begins, vsizes, fixed_total, record_offset, out>>

Stages == {"check", "layoutFixed", "layoutRecords", "fixed", "records",
           "built", "refused", "panicked"}

Vars == DOMAIN file.vars
Var(k) == file.vars[k]
Pad4(n) == ((n + 3) \div 4) * 4

IsRecord(k) == Var(k).dims # <<>> /\ file.dims[Head(Var(k).dims)] = Unlimited
SliceDims(k) == IF IsRecord(k) THEN Tail(Var(k).dims) ELSE Var(k).dims
Product(s) ==
  LET P[n \in 0 .. Len(s)] == IF n = 0 THEN 1 ELSE P[n - 1] * s[n] IN P[Len(s)]
Length(d) == IF file.dims[d] = Unlimited THEN 0 ELSE file.dims[d]
SlabSize(k) ==
  Product([j \in DOMAIN SliceDims(k) |-> Length(SliceDims(k)[j])]) * Var(k).width

(* The next stage starts at the first variable again.                      *)
Enter(s) == stage' = s /\ i' = 1
Past(s) == stage = s /\ i > Len(file.vars)
At(s) == stage = s /\ i \in Vars

BuildInit ==
  /\ file \in Files
  /\ stage = "check" /\ i = 1 /\ rec = 0 /\ numrecs = NoCount
  /\ begins = [k \in Vars |-> 0] /\ vsizes = [k \in Vars |-> 0]
  /\ fixed_total = 0 /\ record_offset = 0 /\ out = <<>>

Layout == <<begins, vsizes, fixed_total, record_offset>>

(* A variable is refused when its data is of the wrong kind or size, or    *)
(* when it has not the records of those before it.                         *)
Acceptable(k) ==
  /\ Var(k).records = IsRecord(k)
  /\ \A r \in DOMAIN Var(k).slabs : Var(k).slabs[r] = SlabSize(k)
  /\ IsRecord(k) => numrecs \in {NoCount, Len(Var(k).slabs)}

OneUnlimited == \A d, e \in DOMAIN file.dims :
                  file.dims[d] = Unlimited /\ file.dims[e] = Unlimited => d = e

Check ==
  /\ At("check") /\ OneUnlimited /\ Acceptable(i)
  /\ i' = i + 1
  /\ numrecs' = IF IsRecord(i) THEN Len(Var(i).slabs) ELSE numrecs
  /\ UNCHANGED <<file, stage, rec, Layout, out>>

Refuse ==
  /\ \/ stage = "check" /\ ~OneUnlimited
     \/ At("check") /\ ~Acceptable(i)
  /\ stage' = "refused"
  /\ UNCHANGED <<file, i, rec, numrecs, Layout, out>>

Checked ==
  /\ Past("check") /\ OneUnlimited /\ Enter("layoutFixed")
  /\ numrecs' = IF numrecs = NoCount THEN 0 ELSE numrecs
  /\ UNCHANGED <<file, rec, Layout, out>>

(* `as u32` keeps the low bits; the additions of the truncated words wrap  *)
(* in a release build and panic in a debug build.                          *)
FixedBegin == HeaderBytes + (fixed_total % Word)
BeginOfRecordAlone == HeaderBytes + (record_offset % Word)
RecordBegin == HeaderBytes + (fixed_total % Word) + (record_offset % Word)

LayOut(begin) ==
  /\ begins' = [begins EXCEPT ![i] = begin % Word]
  /\ vsizes' = [vsizes EXCEPT ![i] = Pad4(SlabSize(i)) % Word]

Skip == i' = i + 1 /\ UNCHANGED <<file, stage, rec, numrecs, out>>

LayoutUnpadded ==
  /\ At("layoutFixed") /\ ~IsRecord(i)
  /\ LayOut(FixedBegin)
  /\ fixed_total' = fixed_total + SlabSize(i)
  /\ Skip /\ UNCHANGED record_offset
LayoutFixed ==
  /\ At("layoutFixed") /\ ~IsRecord(i)
  /\ LayOut(FixedBegin)
  /\ fixed_total' = fixed_total + Pad4(SlabSize(i))
  /\ Skip /\ UNCHANGED record_offset

LayoutRecord ==
  /\ At("layoutRecords") /\ IsRecord(i)
  /\ LayOut(RecordBegin)
  /\ record_offset' = record_offset + Pad4(SlabSize(i))
  /\ Skip /\ UNCHANGED fixed_total

(* A debug build stops at the first sum that does not fit.                 *)
Overflow ==
  /\ \/ At("layoutFixed") /\ ~IsRecord(i) /\ FixedBegin >= Word
     \/ At("layoutRecords") /\ IsRecord(i) /\ RecordBegin >= Word
  /\ stage' = "panicked"
  /\ UNCHANGED <<file, i, rec, numrecs, Layout, out>>

(* `continue` over the variables of the other kind.                        *)
Continue ==
  /\ \/ (At("layoutFixed") \/ At("fixed")) /\ IsRecord(i)
     \/ (At("layoutRecords") \/ At("records")) /\ ~IsRecord(i)
  /\ Skip /\ UNCHANGED Layout

(* The data of record r of variable k, padded.                             *)
Slab(k, r) ==
  LET n == Var(k).slabs[r + 1] IN
  [b \in 1 .. Pad4(n) |-> IF b <= n THEN <<k, r, b>> ELSE Pad]

Appending ==
  \/ At("fixed") /\ ~IsRecord(i)
  \/ At("records") /\ IsRecord(i)

AppendSlab ==
  /\ Appending
  /\ out' = out \o Slab(i, rec)
  /\ i' = i + 1
  /\ UNCHANGED <<file, stage, rec, numrecs, Layout>>

NextPass ==
  /\ \/ Past("layoutFixed") /\ Enter("layoutRecords")
     \/ Past("layoutRecords") /\ Enter("fixed")
     \/ Past("fixed") /\ Enter(IF numrecs = 0 THEN "built" ELSE "records")
  /\ UNCHANGED <<file, rec, numrecs, Layout, out>>

(* The records are interleaved: all variables of one, then of the next.    *)
NextRecord ==
  /\ Past("records")
  /\ rec' = rec + 1
  /\ Enter(IF rec + 1 = numrecs THEN "built" ELSE "records")
  /\ UNCHANGED <<file, numrecs, Layout, out>>

BuildNext ==
  \/ Check \/ Refuse \/ Checked \/ LayoutFixed \/ LayoutRecord
  \/ Overflow \/ Continue \/ AppendSlab \/ NextPass \/ NextRecord

BuildSpec == BuildInit /\ [][BuildNext]_writerVars
-----------------------------------------------------------------------------
(* The reader.  The unlimited dimension has length 0 in the header, and a  *)
(* dimension of length 0 is what it takes for the unlimited one.           *)
ReadAsRecord(k) == Var(k).dims # <<>> /\ Length(Head(Var(k).dims)) = 0
ReadDims(k) == IF ReadAsRecord(k) THEN Tail(Var(k).dims) ELSE Var(k).dims
AtLeastOne(n) == IF n = 0 THEN 1 ELSE n
PerSlice(k) ==
  Product([j \in DOMAIN ReadDims(k) |-> AtLeastOne(Length(ReadDims(k)[j]))])
Slices(k) == IF ReadAsRecord(k) THEN numrecs ELSE 1
PartialSums(s) ==
  LET S[n \in 0 .. Len(s)] == IF n = 0 THEN 0 ELSE S[n - 1] + s[n] IN S
Recsize ==
  PartialSums([k \in Vars |-> IF ReadAsRecord(k) THEN vsizes[k] ELSE 0])[Len(file.vars)]
Base(k, s) == IF ReadAsRecord(k) THEN begins[k] + s * Recsize ELSE begins[k]

(* Byte o of the file, from 0; a read beyond the end is an error.          *)
Byte(o) ==
  IF o < HeaderBytes THEN HeaderByte
  ELSE IF o - HeaderBytes < Len(out) THEN out[o - HeaderBytes + 1] ELSE PastEnd

ReadBack(k) ==
  [s \in 0 .. Slices(k) - 1 |->
     [b \in 1 .. PerSlice(k) * Var(k).width |-> Byte(Base(k, s) + b - 1)]]
-----------------------------------------------------------------------------
ImageTypeOK ==
  /\ file \in Files /\ stage \in Stages
  /\ i \in 1 .. Len(file.vars) + 1 /\ rec \in Nat /\ numrecs \in {NoCount} \union Nat
  /\ begins \in [Vars -> 0 .. Word - 1] /\ vsizes \in [Vars -> 0 .. Word - 1]
  /\ fixed_total \in Nat /\ record_offset \in Nat
  /\ out \in Seq(Nat \X Nat \X Nat)

(* The whole image can be addressed by the words of the header.            *)
Fits == HeaderBytes + fixed_total + numrecs * record_offset <= Word

(* While the data is appended, the header names the place it goes to, a    *)
(* multiple of four: the layout pass and the writing pass of build, which  *)
(* run over the variables in different orders, agree on every slab.        *)
AppendsWhereDeclared ==
  Appending /\ Fits =>
    LET place == HeaderBytes + Len(out) IN Base(i, rec) = place /\ place % 4 = 0

(* A file that was built and that its header can address is read back as   *)
(* it was given: every record of every variable, with nothing of another   *)
(* variable, of the padding or of the header in it.                        *)
ReadsBackWhatWasGiven ==
  stage = "built" /\ Fits =>
    \A k \in Vars :
      ReadBack(k) = [s \in 0 .. Len(Var(k).slabs) - 1 |->
                       [b \in 1 .. Var(k).slabs[s + 1] |-> <<k, s, b>>]]
=============================================================================
