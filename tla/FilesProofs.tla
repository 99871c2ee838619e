----------------------------- MODULE FilesProofs -----------------------------
(***************************************************************************)
(* Proofs about the files/ of the library for every value of their         *)
(* constants: DzlFileTransfer, whose names are used as they are, and       *)
(* DzlDirectoryModel, whose names have a DM! before them.                  *)
(***************************************************************************)
EXTENDS DzlFileTransfer, FiniteSetTheorems, WellFoundedInduction, SequenceTheorems, TLAPS

(* The directory model: its constants and variables, as DzlDirectoryModel  *)
(* names them; Folder is its Directory.                                    *)
CONSTANTS Folder, File, None, MaxChunk, MaxChanges, Weather, Reentrant
VARIABLES weather, exists, changes, directory, visible, listings, events, items, seen

DM == INSTANCE DzlDirectoryModel WITH Directory <- Folder

-----------------------------------------------------------------------------
(* The file transfer, for every tree of files and every set of pairs.      *)

(* Only what is a directory has anything in it.                            *)
IsTree == \A p, q \in Path : Inside(p, q) /\ fs[q] # NoFile => fs[p] = Directory

(* The worker has not begun, or the array is gone.                         *)
Stages ==
  /\ opers # NULL => phase = "none"
  /\ phase = "none" => fs = Start /\ task = <<>> /\ cur = 0 /\ ~error
  /\ phase # "copy" => pending = {}
  /\ phase \in {"removal", "reap"} /\ ~error => cur = Len(task)
  /\ phase = "reap" => ~error

(* A walk stays in the source it is about.                                 *)
Walks == pending # {} => cur # 0 /\ \A r \in pending : Below(task[cur].src, r)

(* The sources hold what they held at first, or nothing.                   *)
SourcesIntact == \A i \in DOMAIN task, p \in Path :
  Below(task[i].src, p) => fs[p] \in {NoFile, Start[p]}

(* Of the sources that have been walked, what is still there has been      *)
(* copied, or an entry above it is still to come.                          *)
Copied(i, p) == fs[p] = p => fs[Counterpart(task[i], p)] = p
ToCome(i, p) == i = cur /\ \E r \in pending : Below(r, p)
Walked == ~error /\ (cancelled => phase = "reap") => \A i \in 1..cur, p \in Path :
  Below(task[i].src, p) /\ IsFile(Start[p]) => Copied(i, p) \/ ToCome(i, p)

Present(p) == \/ fs[p] = p
              \/ \E i \in DOMAIN task : /\ Below(task[i].src, p)
                                        /\ fs[Counterpart(task[i], p)] = p
AllPresent == \A p \in Path : IsFile(Start[p]) => Present(p)

Kept == Disjoint /\ ~unlisted => SourcesIntact /\ Walked /\ AllPresent
IInv == TypeOK /\ IsTree /\ Stages /\ Walks /\ Kept
----------------------------------------------------------------------------
(* Facts about the tree that the steps need, one at a time.                *)
LEMMA Trees ==
  ASSUME WellFormed
  PROVE  /\ \A p, q, r \in Path : Below(p, q) /\ Below(q, r) => Below(p, r)
         /\ \A p, q \in Path : Below(p, q) /\ Below(q, p) => p = q
         /\ \A p, q, r \in Path : Below(p, r) /\ Below(q, r) => Below(p, q) \/ Below(q, p)
         /\ \A p \in Path : Below(p, p)
BY DEF WellFormed

LEMMA Pairs ==
  ASSUME WellFormed, NEW o \in Pair
  PROVE  /\ o.src \in Path /\ o.dst \in Path
         /\ \A p \in Path : Below(o.src, p) => /\ Counterpart(o, p) \in Path
                                               /\ Below(o.dst, Counterpart(o, p))
BY DEF WellFormed

LEMMA Starts ==
  ASSUME WellFormed
  PROVE  /\ NoFile # Directory /\ NoFile \notin Path /\ Directory \notin Path
         /\ NULL \notin Seq(Pair) /\ NULL # "true"
         /\ \A p \in Path : Start[p] \in {NoFile, Directory, p}
         /\ \A p, q \in Path : Inside(p, q) /\ Start[q] # NoFile => Start[p] = Directory
         /\ Start \in [Path -> {NoFile, Directory} \cup Path]
BY DEF WellFormed

----------------------------------------------------------------------------
(* What a step that copies a file does to the files: nothing, or it fills  *)
(* the free counterpart and may empty the original.                        *)
Filled(p, dst) ==
  /\ dst \in Path /\ dst # p /\ fs[dst] = NoFile /\ HasParent(dst)
  /\ fs'[dst] = fs[p] /\ fs'[p] \in {fs[p], NoFile}
  /\ \A q \in Path \ {p, dst} : fs'[q] = fs[q]
  /\ fs' \in [Path -> {NoFile, Directory} \cup Path]

LEMMA CopyFileSteps ==
  ASSUME TypeOK, NEW p \in Path, CopyFile(p), Counterpart(task[cur], p) \in Path
  PROVE  \/ UNCHANGED fs /\ error' = TRUE
         \/ Filled(p, Counterpart(task[cur], p))
<1> DEFINE dst == Counterpart(task[cur], p)
<1>1. fs \in [Path -> {NoFile, Directory} \cup Path] /\ IsFile(fs[p]) BY DEF TypeOK, CopyFile
<1>2. CASE UNCHANGED fs /\ error' = TRUE BY <1>2
<1>3. CASE /\ fs[dst] = NoFile /\ HasParent(dst)
           /\ \/ fs' = [fs EXCEPT ![dst] = fs[p], ![p] = IF flags THEN NoFile ELSE @]
              \/ fs' = [fs EXCEPT ![dst] = fs[p]]
  <2>1. dst # p BY <1>1, <1>3 DEF IsFile
  <2>2. /\ fs'[dst] = fs[p] /\ fs'[p] \in {fs[p], NoFile}
        /\ \A q \in Path \ {p, dst} : fs'[q] = fs[q]
        /\ fs' \in [Path -> {NoFile, Directory} \cup Path]
    BY <1>1, <1>3, <2>1
  <2> QED BY <1>3, <2>1, <2>2 DEF Filled
<1> QED BY <1>2, <1>3 DEF CopyFile

LEMMA TypeStep == ASSUME WellFormed, TypeOK, Stages, Walks, [Next]_vars PROVE TypeOK'
<1> USE Starts DEF TypeOK, priv, walk, reaper, outcome
<1>1. ASSUME NEW o \in Pair, Add(o) PROVE TypeOK' BY <1>1 DEF Add
<1>2. CASE SetFlags BY <1>2 DEF SetFlags
<1>3. CASE Cancel BY <1>3 DEF Cancel
<1>4. ASSUME NEW async \in BOOLEAN, Execute(async) PROVE TypeOK'
  <2>1. CASE opers = <<>> BY <1>4, <2>1 DEF Execute
  <2>2. CASE opers # <<>>
    <3>1. /\ opers' = NULL /\ task' = opers /\ cur' = 0 /\ phase' = "copy" /\ executed' = async
          /\ answer' \in {answer, "cancelled"}
          /\ UNCHANGED <<fs, flags, pending, error, pattern, skipped, cancelled, returned, unlisted>>
      BY <1>4, <2>2 DEF Execute
    <3>2. opers \in Seq(Pair) BY <1>4 DEF Execute
    <3>3. pattern' \in [oper : 1..Len(task') + 1, type : {"glob", "file"}]
      <4>1. task = <<>> BY <1>4 DEF Stages, Execute
      <4>2. pattern.oper = 1 /\ pattern.type \in {"glob", "file"} BY <4>1
      <4>3. 1 \in 1..Len(task') + 1 BY <3>1, <3>2
      <4> QED BY <3>1, <4>2, <4>3
    <3> QED BY <3>1, <3>2, <3>3
  <2> QED BY <2>1, <2>2
<1>5. CASE NextOper
  <2>1. pending' \subseteq Path
    <3>1. CASE error \/ cur = Len(task) BY <1>5, <3>1 DEF NextOper
    <3>2. CASE ~(error \/ cur = Len(task))
      <4>1. task[cur + 1] \in Pair BY <3>2
      <4>2. task[cur + 1].src \in Path BY <4>1, Pairs
      <4> QED BY <1>5, <3>2, <4>2 DEF NextOper
    <3> QED BY <3>1, <3>2
  <2>2. cur' \in 0..Len(task) BY <1>5 DEF NextOper
  <2> QED BY <1>5, <2>1, <2>2 DEF NextOper
<1>6. CASE WalkEnds BY <1>6 DEF WalkEnds
<1>7. ASSUME NEW p \in Path, CopyFile(p) PROVE TypeOK'
  <2>1. Below(task[cur].src, p) /\ task[cur] \in Pair BY <1>7 DEF CopyFile, Walks
  <2>2. Counterpart(task[cur], p) \in Path BY <2>1, Pairs
  <2>3. fs' \in [Path -> {NoFile, Directory} \cup Path] BY <1>7, <2>2, CopyFileSteps DEF Filled
  <2>4. error' \in BOOLEAN /\ pending' \subseteq Path BY <1>7 DEF CopyFile
  <2> QED BY <1>7, <2>3, <2>4 DEF CopyFile
<1>8. ASSUME NEW p \in Path, CopyDirectory(p) PROVE TypeOK'
  <2>1. fs' \in [Path -> {NoFile, Directory} \cup Path] BY <1>8 DEF CopyDirectory
  <2>2. pending' \subseteq Path BY <1>8 DEF CopyDirectory, Children
  <2>3. error' \in BOOLEAN /\ unlisted' \in BOOLEAN BY <1>8 DEF CopyDirectory
  <2> QED BY <1>8, <2>1, <2>2, <2>3 DEF CopyDirectory
<1>9. ASSUME NEW p \in Path, FileDelete(p) PROVE TypeOK' BY <1>9 DEF FileDelete
<1>10. ASSUME NEW p \in Path, DeleteFails(p) PROVE TypeOK' BY <1>10 DEF DeleteFails
<1>11. CASE HandleRemoval BY <1>11 DEF HandleRemoval
<1>12. CASE PatternDone
  <2>1. pattern' \in [oper : 1..Len(task) + 1, type : {"glob", "file"}]
    BY <1>12 DEF PatternDone, PatternAfter, Reaping
  <2> QED BY <1>12, <2>1 DEF PatternDone
<1>13. CASE ReaperDone BY <1>13 DEF ReaperDone
<1>14. CASE WorkerReturns BY <1>14 DEF WorkerReturns
<1>15. CASE Finish BY <1>15 DEF Finish
<1>16. CASE UNCHANGED vars BY <1>16 DEF vars
<1> QED BY <1>1, <1>2, <1>3, <1>4, <1>5, <1>6, <1>7, <1>8, <1>9, <1>10, <1>11, <1>12, <1>13,
           <1>14, <1>15, <1>16 DEF Next

(* Five kinds of steps: those that touch neither files nor the walk, the   *)
(* start, and those of the walk and the reaper.                            *)
Aside ==
  /\ UNCHANGED <<fs, task, cur, pending, error, unlisted>>
  /\ cancelled => cancelled'
  /\ \/ UNCHANGED <<phase, opers>>
     \/ phase = "none" /\ UNCHANGED <<phase, cancelled>> /\ opers' # NULL
     \/ phase = "removal" /\ phase' \in {"reap", "return"} /\ UNCHANGED <<opers, cancelled>>
        /\ (phase' = "reap" => ~error /\ ~cancelled)
     \/ phase \in {"reap", "return"} /\ phase' \in {"return", "done"} /\ UNCHANGED <<opers, cancelled>>

LEMMA Steps ==
  ASSUME WellFormed, TypeOK, Stages, [Next]_vars
  PROVE  \/ Aside
         \/ \E async \in BOOLEAN : Execute(async) /\ opers # <<>>
         \/ NextOper \/ WalkEnds
         \/ \E p \in Path : CopyFile(p) \/ CopyDirectory(p) \/ FileDelete(p)
<1> USE DEF Aside, priv, walk, reaper, outcome
<1>1. ASSUME NEW o \in Pair, Add(o) PROVE Aside
  <2>1. Append(opers, o) \in Seq(Pair) BY <1>1 DEF Add, TypeOK
  <2> QED BY <1>1, <2>1, Starts DEF Add, Stages
<1>2. CASE SetFlags \/ Cancel \/ HandleRemoval \/ PatternDone \/ ReaperDone \/ WorkerReturns \/ Finish
  BY <1>2 DEF SetFlags, Cancel, HandleRemoval, PatternDone, ReaperDone, WorkerReturns, Finish
<1>3. ASSUME NEW async \in BOOLEAN, Execute(async), opers = <<>> PROVE Aside
  BY <1>3 DEF Execute
<1>4. ASSUME NEW p \in Path, DeleteFails(p) PROVE Aside BY <1>4 DEF DeleteFails
<1>5. CASE UNCHANGED vars BY <1>5 DEF vars
<1> QED BY <1>1, <1>2, <1>3, <1>4, <1>5 DEF Next
----------------------------------------------------------------------------
LEMMA StagesStep ==
  ASSUME WellFormed, TypeOK, Stages, Walks, [Next]_vars
  PROVE  Stages' /\ Walks'
<1> USE DEF Stages, Walks, priv, walk, reaper, outcome
<1>1. CASE Aside BY <1>1 DEF Aside
<1>2. ASSUME NEW async \in BOOLEAN, Execute(async), opers # <<>> PROVE Stages' /\ Walks'
  BY <1>2, Starts DEF Execute
<1>3. CASE NextOper
  <2>1. CASE error \/ cur = Len(task) BY <1>3, <2>1 DEF NextOper
  <2>2. CASE ~(error \/ cur = Len(task))
    <3>1. task[cur + 1] \in Pair /\ cur + 1 # 0 BY <2>2 DEF TypeOK
    <3>2. Below(task[cur + 1].src, task[cur + 1].src) BY <3>1, Pairs, Trees
    <3> QED BY <1>3, <2>2, <3>1, <3>2 DEF NextOper
  <2> QED BY <2>1, <2>2
<1>4. CASE WalkEnds BY <1>4 DEF WalkEnds
<1>5. ASSUME NEW p \in Path, CopyFile(p) PROVE Stages' /\ Walks'
  BY <1>5 DEF CopyFile, Walking
<1>6. ASSUME NEW p \in Path, CopyDirectory(p) PROVE Stages' /\ Walks'
  <2>1. cur # 0 /\ task[cur] \in Pair /\ Below(task[cur].src, p) BY <1>6 DEF CopyDirectory, TypeOK
  <2>2. \A r \in Children(p) : Below(task[cur].src, r) BY <2>1, Pairs, Trees DEF Children, Inside
  <2> QED BY <1>6, <2>1, <2>2 DEF CopyDirectory, Walking
<1>7. ASSUME NEW p \in Path, FileDelete(p) PROVE Stages' /\ Walks'
  BY <1>7 DEF FileDelete, Victims, Reaping
<1> QED BY <1>1, <1>2, <1>3, <1>4, <1>5, <1>6, <1>7, Steps

(* What a step that makes a directory does to the files: some that were    *)
(* not there, above the new one, are directories now.                      *)
Made(dst) == \A q \in Path : \/ fs'[q] = fs[q]
                             \/ fs[q] = NoFile /\ fs'[q] = Directory /\ Below(q, dst)

LEMMA TreeStep ==
  ASSUME WellFormed, TypeOK, IsTree, Stages, Walks, [Next]_vars
  PROVE  IsTree'
<1> USE Starts DEF IsTree
<1>1. CASE UNCHANGED fs BY <1>1
<1>2. ASSUME NEW p \in Path, CopyFile(p) PROVE IsTree'
  <2> DEFINE dst == Counterpart(task[cur], p)
  <2>1. Below(task[cur].src, p) /\ task[cur] \in Pair BY <1>2 DEF CopyFile, Walks, TypeOK
  <2>2. dst \in Path BY <2>1, Pairs
  <2>3. CASE Filled(p, dst)
    <3>1. IsFile(fs[p]) BY <1>2 DEF CopyFile
    <3> SUFFICES ASSUME NEW q \in Path, NEW r \in Path, Inside(q, r), fs'[r] # NoFile PROVE fs'[q] = Directory
      BY DEF Inside
    <3>2. CASE r = dst
      <4>1. fs[q] = Directory BY <3>2, <2>3 DEF Filled, HasParent
      <4> QED BY <4>1, <3>1, <3>2, <2>3 DEF Filled, IsFile, Inside
    <3>3. CASE r # dst
      <4>1. fs[r] # NoFile BY <3>3, <2>3 DEF Filled
      <4>2. fs[q] = Directory BY <4>1
      <4> QED BY <4>2, <3>1, <2>3 DEF Filled, IsFile
    <3> QED BY <3>2, <3>3
  <2> QED BY <1>1, <1>2, <2>2, <2>3, CopyFileSteps
<1>3. ASSUME NEW p \in Path, CopyDirectory(p) PROVE IsTree'
  <2> DEFINE dst == Counterpart(task[cur], p)
  <2>1. Below(task[cur].src, p) /\ task[cur] \in Pair BY <1>3 DEF CopyDirectory, Walks, TypeOK
  <2>2. dst \in Path BY <2>1, Pairs
  <2>3. CASE ~UNCHANGED fs
    <3>1. /\ \A q \in Path : Below(q, dst) => ~IsFile(fs[q])
          /\ fs' = [q \in Path |-> IF Below(q, dst) /\ fs[q] = NoFile THEN Directory ELSE fs[q]]
      BY <1>3, <2>3 DEF CopyDirectory
    <3> SUFFICES ASSUME NEW q \in Path, NEW r \in Path, Inside(q, r), fs'[r] # NoFile PROVE fs'[q] = Directory
      BY DEF Inside
    <3>2. CASE fs[r] = NoFile
      <4>1. Below(r, dst) BY <3>1, <3>2
      <4>2. Below(q, dst) BY <4>1, <2>2, Trees DEF Inside
      <4> QED BY <4>2, <3>1 DEF IsFile
    <3>3. CASE fs[r] # NoFile BY <3>1, <3>3
    <3> QED BY <3>2, <3>3
  <2> QED BY <1>1, <2>3
<1>4. ASSUME NEW p \in Path, FileDelete(p) PROVE IsTree'
  <2>1. fs' = [fs EXCEPT ![p] = NoFile] /\ IsEmpty(p) BY <1>4 DEF FileDelete, Victims
  <2> QED BY <2>1 DEF IsEmpty, TypeOK
<1> QED BY <1>1, <1>2, <1>3, <1>4, Steps DEF Aside, Execute, NextOper, WalkEnds
----------------------------------------------------------------------------
(* Nothing below a destination is below a source.                          *)
LEMMA Apart ==
  ASSUME WellFormed, TypeOK, Disjoint, NEW i \in DOMAIN task, NEW j \in DOMAIN task, NEW p \in Path,
         Below(task[j].src, p)
  PROVE  Counterpart(task[j], p) \in Path /\ ~Below(task[i].src, Counterpart(task[j], p))
<1>1. task[i] \in Pair /\ task[j] \in Pair BY DEF TypeOK
<1>2. Counterpart(task[j], p) \in Path /\ Below(task[j].dst, Counterpart(task[j], p)) BY <1>1, Pairs
<1>3. ~Below(task[i].src, task[j].dst) /\ ~Below(task[j].dst, task[i].src) BY DEF Disjoint
<1> QED BY <1>1, <1>2, <1>3, Pairs, Trees

LEMMA KeptFile ==
  ASSUME WellFormed, TypeOK, IsTree, Stages, Walks, Disjoint,
         SourcesIntact, Walked, AllPresent, NEW p \in Path, CopyFile(p)
  PROVE  SourcesIntact' /\ Walked' /\ AllPresent'
<1> DEFINE dst == Counterpart(task[cur], p)
<1>1. UNCHANGED <<task, cur, phase, cancelled>> /\ pending' = pending \ {p} /\ p \in pending /\ ~error /\ ~cancelled
  BY DEF CopyFile, Walking, walk
<1>2. cur \in DOMAIN task /\ cur \in 1..cur /\ Below(task[cur].src, p) BY <1>1 DEF Walks, TypeOK
<1>3. dst \in Path /\ \A i \in DOMAIN task : ~Below(task[i].src, dst) BY <1>2, Apart
<1>4. CASE UNCHANGED fs /\ error' = TRUE
  BY <1>1, <1>4 DEF SourcesIntact, Walked, AllPresent, Present
<1>5. CASE Filled(p, dst)
  <2>1. fs[p] = p /\ IsFile(Start[p]) /\ p # NoFile
    BY <1>2, Starts DEF CopyFile, SourcesIntact, IsFile
  <2>2. \A i \in DOMAIN task, q \in Path : Below(task[i].src, q) => fs'[q] \in {fs[q], NoFile}
    BY <1>3, <1>5 DEF Filled
  <2>3. SourcesIntact' BY <1>1, <2>2 DEF SourcesIntact
  <2>4. ASSUME NEW i \in DOMAIN task, NEW q \in Path, Below(task[i].src, q), fs[Counterpart(task[i], q)] = q
        PROVE  fs'[Counterpart(task[i], q)] = q
    <3>1. Counterpart(task[i], q) \in Path /\ Counterpart(task[i], q) # p BY <1>2, <2>4, Apart
    <3>2. Counterpart(task[i], q) # dst BY <1>5, <2>4, Starts DEF Filled
    <3> QED BY <1>5, <2>4, <3>1, <3>2 DEF Filled
  <2>5. AllPresent'
    <3> SUFFICES ASSUME NEW q \in Path, IsFile(Start[q]) PROVE Present(q)' BY DEF AllPresent
    <3>1. Present(q) BY DEF AllPresent
    <3>2. CASE fs[q] = q /\ q = p BY <1>1, <1>2, <1>5, <3>2 DEF Present, Filled
    <3>3. CASE fs[q] = q /\ q # p
      <4>1. q # dst BY <1>5, <3>3, Starts DEF Filled
      <4> QED BY <1>5, <3>3, <4>1 DEF Present, Filled
    <3>4. CASE \E i \in DOMAIN task : Below(task[i].src, q) /\ fs[Counterpart(task[i], q)] = q
      BY <1>1, <2>4, <3>4 DEF Present
    <3> QED BY <3>1, <3>2, <3>3, <3>4 DEF Present
  <2>6. Walked'
    <3> SUFFICES ASSUME NEW i \in 1..cur, NEW q \in Path, Below(task[i].src, q), IsFile(Start[q]),
                        fs'[q] = q
                 PROVE  fs'[Counterpart(task[i], q)] = q \/ (i = cur /\ \E r \in pending' : Below(r, q))
      BY <1>1 DEF Walked, Copied, ToCome
    <3>1. i \in DOMAIN task BY DEF TypeOK
    <3>2. fs[q] = q BY <2>2, <3>1, Starts
    <3>3. CASE fs[Counterpart(task[i], q)] = q BY <2>4, <3>1, <3>3
    <3>4. CASE i = cur /\ \E r \in pending : Below(r, q)
      <4>1. PICK r \in pending : Below(r, q) BY <3>4
      <4>2. CASE r # p BY <1>1, <3>4, <4>1, <4>2
      <4>3. CASE r = p /\ q = p BY <1>5, <2>1, <3>4, <4>3 DEF Filled
      <4>4. CASE r = p /\ q # p
        BY <2>1, <3>2, <4>1, <4>4, Starts DEF IsTree, Inside
      <4> QED BY <4>2, <4>3, <4>4
    <3> QED BY <1>1, <3>2, <3>3, <3>4 DEF Walked, Copied, ToCome
  <2> QED BY <2>3, <2>5, <2>6
<1> QED BY <1>3, <1>4, <1>5, CopyFileSteps

LEMMA KeptDirectory ==
  ASSUME WellFormed, TypeOK, IsTree, Stages, Walks, Disjoint, ~unlisted',
         SourcesIntact, Walked, AllPresent, NEW p \in Path, CopyDirectory(p)
  PROVE  SourcesIntact' /\ Walked' /\ AllPresent'
<1> DEFINE dst == Counterpart(task[cur], p)
<1>1. /\ UNCHANGED <<task, cur, phase, cancelled>> /\ p \in pending /\ ~error /\ ~cancelled
      /\ pending' = (pending \ {p}) \cup Children(p) /\ fs[p] = Directory
  BY DEF CopyDirectory, Walking, walk
<1>2. cur \in DOMAIN task /\ cur \in 1..cur /\ Below(task[cur].src, p) BY <1>1 DEF Walks, TypeOK
<1>3. dst \in Path /\ \A i \in DOMAIN task : ~Below(task[i].src, dst) BY <1>2, Apart
<1>4. Made(dst) BY DEF CopyDirectory, Made, TypeOK
<1>5. ASSUME NEW i \in DOMAIN task, NEW q \in Path, Below(task[i].src, q) PROVE fs'[q] = fs[q]
  <2>1. task[i].src \in Path BY Pairs DEF TypeOK
  <2> QED BY <1>3, <1>4, <1>5, <2>1, Trees DEF Made
<1>6. ASSUME NEW x \in Path, NEW q \in Path, fs[x] = q PROVE fs'[x] = q BY <1>4, <1>6, Starts DEF Made
<1>7. ASSUME NEW i \in DOMAIN task, NEW q \in Path, Below(task[i].src, q), fs[Counterpart(task[i], q)] = q
      PROVE  fs'[Counterpart(task[i], q)] = q
  <2>1. Counterpart(task[i], q) \in Path BY <1>7, Apart
  <2> QED BY <1>6, <1>7, <2>1
<1>8. SourcesIntact' BY <1>1, <1>5 DEF SourcesIntact
<1>9. AllPresent'
  <2> SUFFICES ASSUME NEW q \in Path, IsFile(Start[q]) PROVE Present(q)' BY DEF AllPresent
  <2>1. Present(q) BY DEF AllPresent
  <2>2. CASE fs[q] = q BY <1>6, <2>2 DEF Present
  <2>3. CASE \E i \in DOMAIN task : Below(task[i].src, q) /\ fs[Counterpart(task[i], q)] = q
    BY <1>1, <1>7, <2>3 DEF Present
  <2> QED BY <2>1, <2>2, <2>3 DEF Present
<1>10. Walked'
  <2> SUFFICES ASSUME NEW i \in 1..cur, NEW q \in Path, Below(task[i].src, q), IsFile(Start[q]), fs'[q] = q
               PROVE  fs'[Counterpart(task[i], q)] = q \/ (i = cur /\ \E r \in pending' : Below(r, q))
    BY <1>1 DEF Walked, Copied, ToCome
  <2>1. i \in DOMAIN task BY DEF TypeOK
  <2>2. fs[q] = q BY <1>5, <2>1
  <2>3. CASE fs[Counterpart(task[i], q)] = q BY <1>7, <2>1, <2>3
  <2>4. CASE i = cur /\ \E r \in pending : Below(r, q)
    <3>1. PICK r \in pending : Below(r, q) BY <2>4
    <3>2. CASE r # p BY <1>1, <2>4, <3>1, <3>2
    <3>3. CASE r = p
      <4>1. Inside(p, q) BY <1>1, <2>2, <3>1, <3>3, Starts DEF Inside
      <4>2. PICK c \in Path : Inside(p, c) /\ Below(c, q) /\ \A x \in Path : Inside(p, x) => ~Inside(x, c)
        BY <4>1 DEF WellFormed
      <4>3. fs[c] # NoFile BY <2>2, <4>2, Starts DEF IsTree, Inside
      <4>4. c \in pending' BY <1>1, <4>2, <4>3 DEF Children
      <4> QED BY <2>4, <4>2, <4>4
    <3> QED BY <3>2, <3>3
  <2> QED BY <1>1, <2>2, <2>3, <2>4 DEF Walked, Copied, ToCome
<1> QED BY <1>8, <1>9, <1>10

LEMMA KeptDelete ==
  ASSUME WellFormed, TypeOK, Stages, Walks, Disjoint,
         SourcesIntact, Walked, AllPresent, NEW p \in Path, FileDelete(p)
  PROVE  SourcesIntact' /\ Walked' /\ AllPresent'
<1>1. /\ UNCHANGED <<task, cur, pending, error, phase, cancelled>> /\ phase = "reap" /\ ~error
      /\ fs' = [fs EXCEPT ![p] = NoFile] /\ fs \in [Path -> {NoFile, Directory} \cup Path]
  BY DEF FileDelete, Victims, Reaping, Stages, walk, TypeOK
<1>2. PICK k \in DOMAIN task : Below(task[k].src, p)
  <2>1. pattern.oper \in DOMAIN task /\ task[pattern.oper].src \in Path
    BY Pairs DEF FileDelete, Victims, Reaping, TypeOK
  <2>2. Below(task[pattern.oper].src, p)
    BY <2>1, Trees DEF FileDelete, Victims, Source, Inside
  <2> QED BY <2>1, <2>2
<1>3. cur = Len(task) /\ pending = {} BY <1>1 DEF Stages
<1>4. ASSUME NEW i \in DOMAIN task, NEW q \in Path, Below(task[i].src, q), fs[Counterpart(task[i], q)] = q
      PROVE  fs'[Counterpart(task[i], q)] = q
  <2>1. Counterpart(task[i], q) \in Path /\ Counterpart(task[i], q) # p BY <1>2, <1>4, Apart
  <2> QED BY <1>1, <1>4, <2>1
<1>5. ASSUME NEW i \in DOMAIN task, NEW q \in Path, Below(task[i].src, q), IsFile(Start[q]), fs[q] = q
      PROVE  fs[Counterpart(task[i], q)] = q
  <2>1. i \in 1..cur BY <1>3 DEF TypeOK
  <2> QED BY <1>1, <1>3, <1>5, <2>1 DEF Walked, Copied, ToCome
<1>6. SourcesIntact' BY <1>1 DEF SourcesIntact
<1>7. Walked'
  <2> SUFFICES ASSUME NEW i \in 1..cur, NEW q \in Path, Below(task[i].src, q), IsFile(Start[q]), fs'[q] = q
               PROVE  fs'[Counterpart(task[i], q)] = q
    BY <1>1 DEF Walked, Copied, ToCome
  <2>1. i \in DOMAIN task /\ fs[q] = q BY <1>1, Starts DEF TypeOK
  <2> QED BY <1>4, <1>5, <2>1
<1>8. AllPresent'
  <2> SUFFICES ASSUME NEW q \in Path, IsFile(Start[q]) PROVE Present(q)' BY DEF AllPresent
  <2>1. Present(q) BY DEF AllPresent
  <2>2. CASE fs[q] = q /\ q = p
    <3>1. fs[Counterpart(task[k], p)] = p BY <1>2, <1>5, <2>2
    <3> QED BY <1>1, <1>2, <1>4, <2>2, <3>1 DEF Present
  <2>3. CASE fs[q] = q /\ q # p BY <1>1, <2>3 DEF Present
  <2>4. CASE \E i \in DOMAIN task : Below(task[i].src, q) /\ fs[Counterpart(task[i], q)] = q
    BY <1>1, <1>4, <2>4 DEF Present
  <2> QED BY <2>1, <2>2, <2>3, <2>4 DEF Present
<1> QED BY <1>6, <1>7, <1>8

LEMMA KeptNextOper ==
  ASSUME WellFormed, TypeOK, IsTree, Stages, Walks, Disjoint, ~unlisted',
         SourcesIntact, Walked, AllPresent, NextOper
  PROVE  SourcesIntact' /\ Walked' /\ AllPresent'
<1>1. /\ UNCHANGED <<fs, task, error, cancelled>> /\ pending = {} /\ phase = "copy" /\ phase' \in {"copy", "removal"}
  BY DEF NextOper, walk
<1>2. SourcesIntact' /\ AllPresent' BY <1>1 DEF SourcesIntact, AllPresent, Present
<1>3. CASE error \/ cur = Len(task)
  <2>1. UNCHANGED <<cur, pending>> BY <1>3 DEF NextOper
  <2> QED BY <1>1, <1>2, <2>1 DEF Walked, Copied, ToCome
<1>4. CASE ~(error \/ cur = Len(task))
  <2> DEFINE src == task[cur + 1].src
  <2>1. cur' = cur + 1 /\ cur \in Nat /\ src \in Path BY <1>4, Pairs DEF NextOper, TypeOK
  <2>2. ~cancelled /\ fs[src] # NoFile => pending' = {src} BY <1>4, <2>1 DEF NextOper
  <2>3. Walked'
    <3> SUFFICES ASSUME ~error, ~cancelled, NEW i \in 1..cur + 1, NEW q \in Path, Below(task[i].src, q),
                        IsFile(Start[q]), fs[q] = q
                 PROVE  fs[Counterpart(task[i], q)] = q \/ (i = cur + 1 /\ \E r \in pending' : Below(r, q))
      BY <1>1, <2>1 DEF Walked, Copied, ToCome
    <3>1. CASE i \in 1..cur BY <1>1, <3>1 DEF Walked, Copied, ToCome
    <3>2. CASE i = cur + 1
      <4>1. fs[src] # NoFile BY <2>1, <3>2, Starts DEF IsTree, Inside
      <4> QED BY <2>2, <3>2, <4>1
    <3> QED BY <2>1, <3>1, <3>2
  <2> QED BY <1>2, <2>3
<1> QED BY <1>3, <1>4

LEMMA KeptStep ==
  ASSUME WellFormed, IInv, [Next]_vars
  PROVE  Kept'
<1> USE DEF IInv
<1> SUFFICES ASSUME Disjoint', ~unlisted' PROVE SourcesIntact' /\ Walked' /\ AllPresent'
  BY DEF Kept
<1>1. ASSUME NEW async \in BOOLEAN, Execute(async), opers # <<>>
      PROVE  SourcesIntact' /\ Walked' /\ AllPresent'
  <2>1. fs' = Start /\ cur' = 0 BY <1>1 DEF Execute, Stages
  <2>2. SourcesIntact' BY <2>1 DEF SourcesIntact
  <2>3. Walked' BY <2>1 DEF Walked
  <2>4. AllPresent' BY <2>1, Starts DEF AllPresent, Present, IsFile
  <2> QED BY <2>2, <2>3, <2>4
<1>2. ASSUME UNCHANGED task, unlisted => unlisted'
      PROVE  Disjoint /\ SourcesIntact /\ Walked /\ AllPresent
  BY <1>2 DEF Kept, Disjoint
<1>3. CASE Aside
  <2>1. SourcesIntact /\ Walked /\ AllPresent BY <1>2, <1>3 DEF Aside
  <2>2. SourcesIntact' /\ AllPresent' BY <1>3, <2>1 DEF Aside, SourcesIntact, AllPresent, Present
  <2>3. ~error' /\ (cancelled' => phase' = "reap") => ~error /\ (cancelled => phase = "reap")
    BY <1>3 DEF Aside
  <2>4. Walked' BY <1>3, <2>1, <2>3 DEF Aside, Walked, Copied, ToCome
  <2> QED BY <2>2, <2>4
<1>4. CASE NextOper
  <2>1. UNCHANGED task /\ (unlisted => unlisted') BY <1>4 DEF NextOper
  <2> QED BY <1>2, <1>4, <2>1, KeptNextOper
<1>5. CASE WalkEnds
  <2>1. /\ UNCHANGED <<fs, task, error, cancelled, phase, unlisted>> /\ phase = "copy" /\ (cancelled \/ error)
    BY <1>5 DEF WalkEnds
  <2>2. SourcesIntact /\ AllPresent BY <1>2, <2>1
  <2> QED BY <2>1, <2>2 DEF SourcesIntact, AllPresent, Present, Walked
<1>6. ASSUME NEW p \in Path, CopyFile(p) PROVE SourcesIntact' /\ Walked' /\ AllPresent'
  <2>1. UNCHANGED <<task, unlisted>> BY <1>6 DEF CopyFile
  <2> QED BY <1>2, <1>6, <2>1, KeptFile
<1>7. ASSUME NEW p \in Path, CopyDirectory(p) PROVE SourcesIntact' /\ Walked' /\ AllPresent'
  <2>1. UNCHANGED task /\ (unlisted => unlisted') BY <1>7 DEF CopyDirectory
  <2> QED BY <1>2, <1>7, <2>1, KeptDirectory
<1>8. ASSUME NEW p \in Path, FileDelete(p) PROVE SourcesIntact' /\ Walked' /\ AllPresent'
  <2>1. UNCHANGED <<task, unlisted>> BY <1>8 DEF FileDelete, walk
  <2> QED BY <1>2, <1>8, <2>1, KeptDelete
<1> QED BY <1>1, <1>3, <1>4, <1>5, <1>6, <1>7, <1>8, Steps

(* The strengthening NothingLost rests on holds in every state.            *)
LEMMA Invariance == ASSUME WellFormed PROVE Spec => []IInv
<1>1. ASSUME Init PROVE IInv
  <2>1. TypeOK
    <3>1. task \in Seq(Pair) /\ opers \in Seq(Pair) /\ Len(task) = 0 BY <1>1 DEF Init
    <3>2. pattern \in [oper : 1..Len(task) + 1, type : {"glob", "file"}] BY <1>1, <3>1 DEF Init
    <3>3. cur \in 0..Len(task) BY <1>1, <3>1 DEF Init
    <3>4. fs \in [Path -> {NoFile, Directory} \cup Path] BY <1>1, Starts DEF Init
    <3> QED BY <1>1, <3>1, <3>2, <3>3, <3>4 DEF Init, TypeOK
  <2>2. IsTree BY <1>1, Starts DEF Init, IsTree
  <2>3. Stages /\ Walks BY <1>1 DEF Init, Stages, Walks
  <2>4. Kept
    <3>1. SourcesIntact /\ Walked BY <1>1 DEF Init, SourcesIntact, Walked
    <3>2. AllPresent BY <1>1, Starts DEF Init, AllPresent, Present, IsFile
    <3> QED BY <3>1, <3>2 DEF Kept
  <2> QED BY <2>1, <2>2, <2>3, <2>4 DEF IInv
<1>2. IInv /\ [Next]_vars => IInv' BY TypeStep, StagesStep, TreeStep, KeptStep DEF IInv
<1> QED BY <1>1, <1>2, PTL DEF Spec

(* For every tree, every set of pairs and every fault: the contents of a   *)
(* file are somewhere at all times, if pairs do not meet and listings      *)
(* succeed (handle_removal deletes sources after handle_copy).             *)
THEOREM SourcesOutlived == ASSUME WellFormed PROVE Spec => []NothingLost
<1>1. ASSUME IInv PROVE NothingLost
  <2> SUFFICES ASSUME Disjoint, ~unlisted, NEW p \in Path, IsFile(Start[p])
               PROVE  \E q \in Path : fs[q] = Start[p]
    BY DEF NothingLost
  <2>1. Present(p) /\ Start[p] = p BY <1>1, Starts DEF IInv, Kept, AllPresent, IsFile
  <2>2. CASE fs[p] = p BY <2>1, <2>2
  <2>3. CASE \E i \in DOMAIN task : Below(task[i].src, p) /\ fs[Counterpart(task[i], p)] = p
    BY <1>1, <2>1, <2>3, Apart DEF IInv
  <2> QED BY <2>1, <2>2, <2>3 DEF Present
<1> QED BY <1>1, Invariance, PTL

(* The variables keep to their types.                                      *)
THEOREM TypeSafe == ASSUME WellFormed PROVE Spec => []TypeOK
<1>1. IInv => TypeOK BY DEF IInv
<1> QED BY <1>1, Invariance, PTL
----------------------------------------------------------------------------
(* What a caller that is told TRUE may rely on, and why: the worker        *)
(* returned TRUE without an error, and nobody had cancelled by then.       *)
Arrived == \A i \in DOMAIN task, p \in Path : Below(task[i].src, p) /\ IsFile(Start[p]) =>
  \E j \in DOMAIN task : Below(task[j].src, p) /\ fs[Counterpart(task[j], p)] = Start[p]
Told ==
  /\ phase \in {"return", "done"} /\ ~error => cur = Len(task)
  /\ returned = "true" => phase = "done" /\ ~error
  /\ answer = "true" => phase = "done" /\ (Disjoint /\ ~unlisted => Arrived)

LEMMA ToldStep ==
  ASSUME WellFormed, IInv, Told, [Next]_vars
  PROVE  Told'
<1> USE DEF IInv, Told, priv, walk, reaper, outcome
<1>1. CASE Finish
  <2>1. UNCHANGED <<fs, task, cur, error, phase, cancelled, unlisted, returned, pending>> /\ phase = "done"
    BY <1>1 DEF Finish
  <2>2. ASSUME answer' = "true", Disjoint, ~unlisted PROVE Arrived
    <3>1. ~cancelled /\ ~error /\ cur = Len(task) /\ pending = {}
      BY <1>1, <2>1, <2>2 DEF Finish, Stages
    <3> SUFFICES ASSUME NEW i \in DOMAIN task, NEW p \in Path, Below(task[i].src, p), IsFile(Start[p])
                 PROVE  \E j \in DOMAIN task : Below(task[j].src, p) /\ fs[Counterpart(task[j], p)] = p
      BY Starts DEF Arrived, IsFile
    <3>2. i \in 1..cur BY <3>1 DEF TypeOK
    <3>3. Copied(i, p) /\ Present(p)
      BY <2>2, <3>1, <3>2 DEF Kept, Walked, ToCome, AllPresent
    <3> QED BY <3>3 DEF Copied, Present
  <2> QED BY <2>1, <2>2 DEF Disjoint, Arrived
<1>2. CASE phase = "done" /\ UNCHANGED <<fs, task, cur, error, phase, unlisted, outcome>>
  BY <1>2 DEF Disjoint, Arrived
<1>3. CASE phase # "done" /\ answer' # "true" /\ returned' # "true"
           /\ (phase' \in {"return", "done"} /\ ~error' => cur' = Len(task'))
  BY <1>3
<1>4. CASE WorkerReturns BY <1>4 DEF WorkerReturns
<1>5. CASE Cancel BY <1>5 DEF Cancel, Disjoint, Arrived
<1>6. ASSUME NEW o \in Pair, Add(o) PROVE Told' BY <1>6 DEF Add, Stages
<1>7. ASSUME NEW async \in BOOLEAN, Execute(async) PROVE Told' BY <1>7, Starts DEF Execute, Stages
<1>8. CASE UNCHANGED vars BY <1>8 DEF vars, Disjoint, Arrived
<1>9. ASSUME NEW p \in Path, CopyFile(p) \/ CopyDirectory(p) \/ FileDelete(p) \/ DeleteFails(p)
      PROVE  Told'
  <2>1. phase \in {"copy", "reap"} /\ phase' = phase /\ UNCHANGED outcome
    BY <1>9 DEF CopyFile, CopyDirectory, FileDelete, DeleteFails, Victims, Reaping, Walking
  <2> QED BY <2>1
<1>10. CASE SetFlags \/ NextOper \/ WalkEnds \/ HandleRemoval \/ PatternDone \/ ReaperDone
  BY <1>10, <1>3 DEF SetFlags, NextOper, WalkEnds, HandleRemoval, PatternDone, ReaperDone, Reaping, Stages
<1> QED BY <1>1, <1>4, <1>5, <1>6, <1>7, <1>8, <1>9, <1>10 DEF Next

(* For every tree, every set of pairs that do not meet, and every fault    *)
(* but a directory that cannot be listed: a caller that is told TRUE by    *)
(* dzl_file_transfer_execute_finish finds every file at a destination.     *)
(* After a failed listing TRUE is answered with files missing              *)
(* (dzl-file-transfer.c:311-313, 656).                                     *)
THEOREM TrueMeansArrived == ASSUME WellFormed PROVE Spec => []SuccessIsComplete
<1>1. Init => Told BY Starts DEF Init, Told
<1>2. IInv /\ Told /\ [Next]_vars => Told' BY ToldStep
<1>3. Told => SuccessIsComplete BY DEF Told, SuccessIsComplete, Arrived
<1> QED BY <1>1, <1>2, <1>3, Invariance, PTL DEF Spec

-----------------------------------------------------------------------------
(* The directory model, for any directories, files, lengths of chunks and  *)
(* number of changes.                                                      *)

LEMMA SameCardinality == ASSUME NEW S PROVE DM!Cardinality(S) = Cardinality(S)
BY DEF DM!Cardinality, Cardinality

(* Files are numbers, in any number of directories; the list is not        *)
(* changed from within one of its own signals.                             *)
Ordinary ==
  /\ File \subseteq Nat /\ None \notin Folder
  /\ MaxChunk \in Nat \ {0} /\ MaxChanges \in Nat
  /\ Reentrant = FALSE

(* The listing that counts is of the directory that is shown.              *)
OneListing ==
  /\ \A l, m \in listings : ~l.cancelled /\ ~m.cancelled => l = m
  /\ \A l \in listings : ~l.cancelled => l.of = directory

(* What a listing has in hand and what it has still to look at.            *)
InHand ==
  \A l \in listings :
    /\ l.step = "taking" => ~l.cancelled
    /\ l.step \in {"open", "asked"} => l.chunk = {}
    /\ l.step = "open" => l.left = {}
    /\ l.step = "answered" /\ l.chunk = {} => l.left = {}

Increasing(s) == \A i, j \in DOMAIN s : i < j => s[i] < s[j]

(* None of it has a row yet.                                               *)
NotTwice ==
  \A l \in listings : ~l.cancelled =>
    /\ l.step = "open" => items = <<>>
    /\ l.left \cap l.chunk = {}
    /\ DM!ToSet(items) \cap (l.left \cup l.chunk) = {}

Rows ==
  /\ seen = items /\ Increasing(items)
  /\ DM!ToSet(items) \subseteq visible
  /\ directory = None => items = <<>> /\ events = <<>>

(* Everything is listed again soon.                                        *)
Coming == \E i \in DOMAIN events : events[i].event = "CREATED"

(* A visible file that has no row is one that will be listed.              *)
Covered ==
  \/ Coming
  \/ \E l \in listings : ~l.cancelled /\ l.step = "open"
  \/ \A f \in DM!Shown :
       \/ f \in DM!ToSet(items)
       \/ \E l \in listings : ~l.cancelled /\ (f \in l.left \/ f \in l.chunk)

(* A deletion that is still to be handled, of a file that is there again,  *)
(* is followed by the creation.                                            *)
MadeAgain ==
  directory # None =>
    \A i \in DOMAIN events :
      events[i].event = "DELETED" /\ events[i].file \in exists[directory] =>
        \E j \in DOMAIN events : j > i /\ events[j].event = "CREATED"

(* In calm weather a listing sees the directory as it is, and a row whose  *)
(* file has gone will be taken out.                                        *)
Calm ==
  weather = "calm" =>
    /\ \A l \in listings : ~l.cancelled =>
         events = <<>> /\ l.left \subseteq exists[l.of] /\ l.chunk \subseteq exists[l.of]
    /\ \/ Coming
       \/ \A f \in DM!ToSet(items) :
            \/ f \in exists[directory]
            \/ \E j \in DOMAIN events : events[j].event = "DELETED" /\ events[j].file = f

ListIInv ==
  /\ DM!TypeOK /\ OneListing /\ InHand /\ NotTwice /\ Rows /\ Covered /\ MadeAgain /\ Calm

-----------------------------------------------------------------------------
(* Induction-free: an initial segment of the positions is 1..k.            *)
LEMMA Segment ==
  ASSUME NEW n \in Nat, NEW S \in SUBSET (1..n), \A i \in S, j \in 1..n : j < i => j \in S
  PROVE  \E k \in 0..n : S = 1..k
<1> DEFINE lt == OpToRel(<, Nat)
           rest == (1..(n + 1)) \ S
<1>1. IsWellFoundedOn(lt, Nat)
  BY NatLessThanWellFounded DEF OpToRel
<1>2. \A i, j \in Nat : j < i => <<j, i>> \in lt
  BY DEF OpToRel
<1> HIDE DEF lt
<1>3. rest \subseteq Nat /\ n + 1 \in rest
  OBVIOUS
<1> HIDE DEF rest
<1>4. PICK m \in rest : \A j \in rest : ~(<<j, m>> \in lt)
  BY <1>1, <1>3, WFMin
<1>5. \A j \in rest : ~(j < m)
  BY <1>2, <1>3, <1>4
<1> USE DEF rest
<1>6. m \in 1..(n + 1) /\ m \notin S
  BY <1>4
<1>7. \A j \in 1..n : j < m => j \in S
  BY <1>5, <1>6
<1>8. \A j \in S : j < m
  BY <1>6
<1>9. S = 1..(m - 1)
  <2>1. \A j \in S : j \in 1..(m - 1)
    BY <1>6, <1>8
  <2>2. \A j \in 1..(m - 1) : j \in S
    BY <1>6, <1>7
  <2>3. QED BY <2>1, <2>2
<1>10. m - 1 \in 0..n
  BY <1>6
<1>11. QED BY <1>9, <1>10

-----------------------------------------------------------------------------
(* A row put in after k others.                                            *)
LEMMA Inserted ==
  ASSUME NEW S, NEW s \in Seq(S), NEW k \in 0..Len(s), NEW x \in S
  PROVE  /\ DM!With(s, k, <<x>>) \in Seq(S) /\ Len(DM!With(s, k, <<x>>)) = Len(s) + 1
         /\ \A i \in 1..(Len(s) + 1) :
              DM!With(s, k, <<x>>)[i] = IF i <= k THEN s[i] ELSE IF i = k + 1 THEN x ELSE s[i - 1]
<1> DEFINE a == SubSeq(s, 1, k)
           b == SubSeq(s, k + 1, Len(s))
<1>1. Len(s) \in Nat /\ \A i \in 1..Len(s) : s[i] \in S
  OBVIOUS
<1>2. a \in Seq(S) /\ Len(a) = k /\ \A i \in 1..k : a[i] = s[i]
  BY <1>1, SubSeqProperties
<1>3. b \in Seq(S) /\ Len(b) = Len(s) - k /\ \A i \in 1..(Len(s) - k) : b[i] = s[k + i]
  BY <1>1, SubSeqProperties
<1> HIDE DEF a, b
<1>4. <<x>> \in Seq(S) /\ Len(<<x>>) = 1 /\ <<x>>[1] = x
  OBVIOUS
<1>5. /\ a \o <<x>> \in Seq(S) /\ Len(a \o <<x>>) = k + 1
      /\ \A i \in 1..(k + 1) : (a \o <<x>>)[i] = IF i <= k THEN s[i] ELSE x
  BY <1>2, <1>4, ConcatProperties
<1> PICK c \in Seq(S) : c = a \o <<x>>
  BY <1>5
<1>6. /\ c \o b \in Seq(S) /\ Len(c \o b) = Len(s) + 1
      /\ \A i \in 1..(Len(s) + 1) : (c \o b)[i] = IF i <= k + 1 THEN c[i] ELSE b[i - (k + 1)]
  BY <1>3, <1>5, ConcatProperties
<1>7. \A i \in 1..(Len(s) + 1) :
         (c \o b)[i] = IF i <= k THEN s[i] ELSE IF i = k + 1 THEN x ELSE s[i - 1]
  <2> TAKE i \in 1..(Len(s) + 1)
  <2>1. CASE i <= k + 1
    BY <1>5, <1>6, <2>1
  <2>2. CASE i > k + 1
    <3>1. i - (k + 1) \in 1..(Len(s) - k) /\ k + (i - (k + 1)) = i - 1
      BY <1>1, <2>2
    <3>2. b[i - (k + 1)] = s[i - 1]
      BY <1>3, <3>1
    <3>3. i > k + 1 /\ i - 1 >= k + 1 /\ ~(i <= k) /\ i # k + 1
      BY <1>1, <2>2
    <3>4. (c \o b)[i] = b[i - (k + 1)]
      BY <1>6, <3>3
    <3>5. QED BY <3>2, <3>3, <3>4
  <2>3. i <= k + 1 \/ i > k + 1
    BY <1>1
  <2>4. QED BY <2>1, <2>2, <2>3
<1> DEFINE w == c \o b
<1>8. DM!With(s, k, <<x>>) = w
  BY DEF DM!With, a, b
<1>9. /\ w \in Seq(S) /\ Len(w) = Len(s) + 1
      /\ \A i \in 1..(Len(s) + 1) : w[i] = IF i <= k THEN s[i] ELSE IF i = k + 1 THEN x ELSE s[i - 1]
  BY <1>6, <1>7
<1> HIDE DEF w
<1>10. QED BY <1>8, <1>9

(* A row taken out after k others.                                         *)
LEMMA TakenOut ==
  ASSUME NEW S, NEW s \in Seq(S), NEW k \in 0..(Len(s) - 1)
  PROVE  /\ DM!Without(s, k, 1) \in Seq(S) /\ Len(DM!Without(s, k, 1)) = Len(s) - 1
         /\ \A i \in 1..(Len(s) - 1) :
              DM!Without(s, k, 1)[i] = IF i <= k THEN s[i] ELSE s[i + 1]
<1> DEFINE a == SubSeq(s, 1, k)
           b == SubSeq(s, k + 1 + 1, Len(s))
<1>1. Len(s) \in Nat /\ \A i \in 1..Len(s) : s[i] \in S
  OBVIOUS
<1>2. a \in Seq(S) /\ Len(a) = k /\ \A i \in 1..k : a[i] = s[i]
  BY <1>1, SubSeqProperties
<1>3. b \in Seq(S) /\ Len(b) = Len(s) - k - 1 /\ \A i \in 1..(Len(s) - k - 1) : b[i] = s[k + 1 + i]
  BY <1>1, SubSeqProperties
<1> HIDE DEF a, b
<1> DEFINE w == a \o b
<1>4. /\ w \in Seq(S) /\ Len(w) = Len(a) + Len(b)
      /\ \A i \in 1..(Len(a) + Len(b)) : w[i] = IF i <= Len(a) THEN a[i] ELSE b[i - Len(a)]
  BY <1>2, <1>3, ConcatProperties
<1>5. DM!Without(s, k, 1) = w
  BY DEF DM!Without, a, b
<1> HIDE DEF w
<1>6. Len(w) = Len(s) - 1
  BY <1>1, <1>2, <1>3, <1>4
<1>7. ASSUME NEW i \in 1..(Len(s) - 1) PROVE w[i] = IF i <= k THEN s[i] ELSE s[i + 1]
  <2>1. i \in 1..(Len(a) + Len(b)) /\ k \in Nat
    BY <1>1, <1>2, <1>3
  <2>2. CASE i <= k
    BY <1>2, <1>4, <2>1, <2>2
  <2>3. CASE i > k
    <3>1. i - k \in 1..(Len(s) - k - 1) /\ k + 1 + (i - k) = i + 1 /\ ~(i <= k)
      BY <1>1, <2>1, <2>3
    <3>2. w[i] = b[i - k]
      BY <1>2, <1>4, <2>1, <3>1
    <3>3. QED BY <1>3, <3>1, <3>2
  <2>4. QED BY <2>1, <2>2, <2>3
<1>8. QED BY <1>4, <1>5, <1>6, <1>7

(* Nothing put in and nothing taken out.                                   *)
LEMMA NothingMoved ==
  ASSUME NEW S, NEW s \in Seq(S), NEW k \in 0..Len(s)
  PROVE  DM!Without(s, k, 0) = s /\ DM!With(s, k, <<>>) = s
<1>1. SubSeq(s, 1, k) \o SubSeq(s, k + 1, Len(s)) = s
  <2>1. Len(s) \in Nat
    OBVIOUS
  <2>2. 1 \in 1..Len(s) + 1 /\ k \in 1 - 1..Len(s) /\ Len(s) \in k..Len(s)
    BY <2>1
  <2>3. SubSeq(s, 1, k) \o SubSeq(s, k + 1, Len(s)) = SubSeq(s, 1, Len(s))
    BY <2>2, ConcatAdjacentSubSeq
  <2>4. QED BY <2>3, SubSeqFull
<1>2. DM!Without(s, k, 0) = s
  <2>1. k + 0 + 1 = k + 1
    OBVIOUS
  <2>2. QED BY <1>1, <2>1 DEF DM!Without
<1>3. SubSeq(s, 1, k) \in Seq(S)
  <2>1. Len(s) \in Nat /\ \A i \in 1..Len(s) : s[i] \in S
    OBVIOUS
  <2>2. QED BY <2>1, SubSeqProperties
<1>4. SubSeq(s, 1, k) \o <<>> = SubSeq(s, 1, k)
  BY <1>3, ConcatEmptySeq
<1>5. DM!With(s, k, <<>>) = s
  BY <1>1, <1>4 DEF DM!With
<1>6. QED BY <1>2, <1>5

(* Whoever has followed so far and is told of it follows.                  *)
LEMMA ToldOfInsertion ==
  ASSUME NEW S, NEW s \in Seq(S), NEW k \in 0..Len(s), NEW x \in S
  PROVE  DM!Told(s, DM!With(s, k, <<x>>), k, 0, 1) = DM!With(s, k, <<x>>)
<1> PICK t : t = DM!With(s, k, <<x>>)
  OBVIOUS
<1>1. t \in Seq(S) /\ k + 1 \in 1..Len(t) /\ t[k + 1] = x
  BY Inserted
<1>2. SubSeq(t, k + 1, k + 1) = <<x>>
  <2>1. k + 1 \in Int /\ \A i \in (k + 1)..(k + 1) : t[i] \in S
    BY <1>1
  <2>2. /\ SubSeq(t, k + 1, k + 1) \in Seq(S) /\ Len(SubSeq(t, k + 1, k + 1)) = 1
        /\ SubSeq(t, k + 1, k + 1)[1] = t[k + 1]
    BY <2>1, SubSeqProperties
  <2> PICK u : u = SubSeq(t, k + 1, k + 1)
    OBVIOUS
  <2>3. u \in Seq(S) /\ Len(u) = 1 /\ u[1] = x
    BY <1>1, <2>2
  <2>4. <<x>> \in Seq(S) /\ Len(<<x>>) = 1 /\ <<x>>[1] = x
    OBVIOUS
  <2> PICK v : v = <<x>>
    OBVIOUS
  <2>5. v \in Seq(S) /\ Len(v) = 1 /\ v[1] = x
    BY <2>4
  <2>6. \A i \in 1..Len(u) : u[i] = v[i]
    BY <2>3, <2>5
  <2>7. u = v
    BY <2>3, <2>5, <2>6, SeqEqual
  <2>8. QED BY <2>7
<1>3. QED BY <1>2, NothingMoved DEF DM!Told

LEMMA ToldOfRemoval ==
  ASSUME NEW S, NEW s \in Seq(S), NEW k \in 0..(Len(s) - 1)
  PROVE  DM!Told(s, DM!Without(s, k, 1), k, 1, 0) = DM!Without(s, k, 1)
<1> PICK t : t = DM!Without(s, k, 1)
  OBVIOUS
<1>1. t \in Seq(S) /\ k \in 0..Len(t)
  BY TakenOut
<1>2. SubSeq(t, k + 1, k + 0) = <<>>
  BY SubSeqEmpty
<1>3. QED BY <1>1, <1>2, NothingMoved DEF DM!Told

LEMMA ToldOfAll ==
  ASSUME NEW S, NEW s \in Seq(S)
  PROVE  DM!Told(s, <<>>, 0, Len(s), 0) = <<>>
<1>1. Len(s) \in Nat
  OBVIOUS
<1>2. SubSeq(s, 1, 0) = <<>> /\ SubSeq(s, 0 + Len(s) + 1, Len(s)) = <<>>
  BY <1>1, SubSeqEmpty
<1>3. DM!Without(s, 0, Len(s)) = <<>>
  BY <1>2, ConcatEmptySeq, EmptySeq DEF DM!Without
<1>4. SubSeq(<<>>, 1, 0) = <<>> /\ SubSeq(<<>>, 0 + 1, 0 + 0) = <<>>
      /\ SubSeq(<<>>, 0 + 1, Len(<<>>)) = <<>>
  BY SubSeqEmpty, EmptySeq
<1>5. QED BY <1>3, <1>4, ConcatEmptySeq, EmptySeq DEF DM!Told, DM!With

-----------------------------------------------------------------------------
(* What becomes of the rows when one is put in where it belongs, ...       *)
LEMMA AddedRow ==
  ASSUME File \subseteq Nat, NEW s \in Seq(File), Increasing(s), NEW f \in File, f \notin DM!ToSet(s),
         NEW k \in 0..Len(s), \A i \in 1..Len(s) : s[i] <= f <=> i <= k
  PROVE  /\ Increasing(DM!With(s, k, <<f>>))
         /\ DM!ToSet(DM!With(s, k, <<f>>)) = DM!ToSet(s) \cup {f}
<1> PICK t \in Seq(File) : t = DM!With(s, k, <<f>>)
  BY Inserted
<1>1. /\ Len(t) = Len(s) + 1
      /\ \A i \in 1..(Len(s) + 1) : t[i] = IF i <= k THEN s[i] ELSE IF i = k + 1 THEN f ELSE s[i - 1]
  BY Inserted
<1>2. /\ Len(s) \in Nat /\ k \in Nat /\ k <= Len(s)
      /\ DOMAIN s = 1..Len(s) /\ DOMAIN t = 1..(Len(s) + 1)
  BY <1>1, LenProperties
<1>3. \A i \in DOMAIN s : s[i] \in Nat /\ s[i] # f /\ f \in Nat
  <2>1. \A i \in DOMAIN s : s[i] \in File
    BY <1>2, ElementOfSeq
  <2>2. QED BY <2>1 DEF DM!ToSet
<1>4. \A i \in DOMAIN t : i <= k => i \in DOMAIN s /\ t[i] = s[i]
  BY <1>1, <1>2
<1>5. k + 1 \in DOMAIN t /\ t[k + 1] = f
  BY <1>1, <1>2
<1>6. \A i \in DOMAIN t : i > k + 1 => i - 1 \in DOMAIN s /\ t[i] = s[i - 1]
  <2> TAKE i \in DOMAIN t
  <2> HAVE i > k + 1
  <2>1. i \in 1..(Len(s) + 1) /\ i - 1 \in 1..Len(s) /\ ~(i <= k) /\ i # k + 1
    BY <1>2
  <2>2. QED BY <1>1, <1>2, <2>1
<1>7. \A i \in DOMAIN t : i \in Nat /\ (i <= k \/ i = k + 1 \/ i > k + 1)
  BY <1>2
<1>8. \A i \in DOMAIN s : i <= k => s[i] < f
  BY <1>2, <1>3
<1>9. \A i \in DOMAIN s : i > k => f < s[i]
  BY <1>2, <1>3
<1>10. Increasing(t)
  <2> SUFFICES ASSUME NEW i \in DOMAIN t, NEW j \in DOMAIN t, i < j
               PROVE  t[i] < t[j]
    BY DEF Increasing
  <2>1. CASE j <= k
    <3>1. i <= k
      BY <1>2, <1>7, <2>1
    <3>2. QED BY <1>4, <2>1, <3>1 DEF Increasing
  <2>2. CASE j = k + 1
    <3>1. i <= k
      BY <1>2, <1>7, <2>2
    <3>2. QED BY <1>4, <1>5, <1>8, <2>2, <3>1
  <2>3. CASE j > k + 1
    <3>1. j - 1 \in DOMAIN s /\ j - 1 > k /\ t[j] = s[j - 1]
      BY <1>2, <1>6, <1>7, <2>3
    <3>2. f < t[j] /\ f \in Nat /\ t[j] \in Nat
      BY <1>3, <1>9, <3>1
    <3>3. CASE i <= k
      <4>1. t[i] < f /\ t[i] \in Nat
        BY <1>3, <1>4, <1>8, <3>3
      <4>2. QED BY <3>2, <4>1
    <3>4. CASE i = k + 1
      BY <1>5, <3>2, <3>4
    <3>5. CASE i > k + 1
      <4>1. i - 1 \in DOMAIN s /\ t[i] = s[i - 1] /\ i - 1 < j - 1
        BY <1>6, <1>7, <3>5
      <4>2. QED BY <3>1, <4>1 DEF Increasing
    <3>6. QED BY <1>7, <3>3, <3>4, <3>5
  <2>4. QED BY <1>7, <2>1, <2>2, <2>3
<1>11. ASSUME NEW i \in DOMAIN t PROVE t[i] \in DM!ToSet(s) \cup {f}
  BY <1>4, <1>5, <1>6, <1>7 DEF DM!ToSet
<1>12. ASSUME NEW i \in DOMAIN s PROVE s[i] \in DM!ToSet(t)
  <2>1. CASE i <= k
    <3>1. i \in DOMAIN t
      BY <1>2
    <3>2. QED BY <1>4, <2>1, <3>1 DEF DM!ToSet
  <2>2. CASE i > k
    <3>1. i + 1 \in DOMAIN t /\ i + 1 > k + 1 /\ (i + 1) - 1 = i
      BY <1>2, <2>2
    <3>2. t[i + 1] = s[i]
      BY <1>6, <3>1
    <3>3. QED BY <3>1, <3>2 DEF DM!ToSet
  <2>3. i <= k \/ i > k
    BY <1>2
  <2>4. QED BY <2>1, <2>2, <2>3
<1>13. f \in DM!ToSet(t)
  BY <1>5 DEF DM!ToSet
<1>14. DM!ToSet(t) = DM!ToSet(s) \cup {f}
  BY <1>11, <1>12, <1>13 DEF DM!ToSet
<1>15. QED BY <1>10, <1>14

(* ... and when one is taken out.                                          *)
LEMMA RemovedRow ==
  ASSUME File \subseteq Nat, NEW s \in Seq(File), Increasing(s), NEW k \in 0..(Len(s) - 1)
  PROVE  /\ Increasing(DM!Without(s, k, 1))
         /\ DM!ToSet(DM!Without(s, k, 1)) = DM!ToSet(s) \ {s[k + 1]}
<1> PICK t \in Seq(File) : t = DM!Without(s, k, 1)
  BY TakenOut
<1>1. /\ Len(t) = Len(s) - 1
      /\ \A i \in 1..(Len(s) - 1) : t[i] = IF i <= k THEN s[i] ELSE s[i + 1]
  BY TakenOut
<1>2. /\ Len(s) \in Nat /\ k \in Nat /\ k < Len(s)
      /\ DOMAIN s = 1..Len(s) /\ DOMAIN t = 1..(Len(s) - 1)
  BY <1>1, LenProperties
<1>3. ASSUME NEW i \in 1..(Len(s) - 1), i <= k PROVE i \in 1..Len(s) /\ t[i] = s[i]
  <2>1. i \in 1..Len(s)
    BY <1>2
  <2>2. QED BY <1>1, <1>3, <2>1
<1>4. ASSUME NEW i \in 1..(Len(s) - 1), i > k PROVE i + 1 \in 1..Len(s) /\ t[i] = s[i + 1]
  <2>1. i + 1 \in 1..Len(s) /\ ~(i <= k)
    BY <1>2, <1>4
  <2>2. QED BY <1>1, <2>1
<1>5. Increasing(t)
  <2> SUFFICES ASSUME NEW i \in 1..(Len(s) - 1), NEW j \in 1..(Len(s) - 1), i < j
               PROVE  t[i] < t[j]
    BY <1>2 DEF Increasing
  <2>1. \A m, n \in 1..Len(s) : m < n => s[m] < s[n]
    BY <1>2 DEF Increasing
  <2>2. CASE j <= k
    BY <1>2, <1>3, <2>1, <2>2
  <2>3. CASE j > k /\ i <= k
    <3>1. i < j + 1
      BY <1>2
    <3>2. QED BY <1>3, <1>4, <2>1, <2>3, <3>1
  <2>4. CASE i > k
    <3>1. j > k /\ i + 1 < j + 1
      BY <1>2, <2>4
    <3>2. QED BY <1>4, <2>1, <2>4, <3>1
  <2>5. QED BY <1>2, <2>2, <2>3, <2>4
<1>6. \A i, j \in 1..Len(s) : i # j => s[i] # s[j]
  <2> SUFFICES ASSUME NEW i \in 1..Len(s), NEW j \in 1..Len(s), i # j
               PROVE  s[i] # s[j]
    OBVIOUS
  <2>1. s[i] \in Nat /\ s[j] \in Nat
    BY ElementOfSeq
  <2>2. i < j \/ j < i
    BY <1>2
  <2>3. QED BY <1>2, <2>1, <2>2 DEF Increasing
<1>7. ASSUME NEW i \in DOMAIN t PROVE t[i] \in DM!ToSet(s) \ {s[k + 1]}
  <2>0. k + 1 \in 1..Len(s)
    BY <1>2
  <2>1. CASE i <= k
    <3>1. i # k + 1
      BY <1>2, <2>1
    <3>2. QED BY <1>2, <1>3, <1>6, <2>0, <2>1, <3>1 DEF DM!ToSet
  <2>2. CASE i > k
    <3>1. i + 1 # k + 1
      BY <1>2, <2>2
    <3>2. i + 1 \in 1..Len(s) /\ t[i] = s[i + 1]
      BY <1>2, <1>4, <2>2
    <3>3. s[i + 1] # s[k + 1]
      BY <1>6, <2>0, <3>1, <3>2
    <3>4. s[i + 1] \in DM!ToSet(s)
      BY <1>2, <3>2 DEF DM!ToSet
    <3>5. QED BY <3>2, <3>3, <3>4
  <2>3. QED BY <1>2, <2>1, <2>2
<1>8. ASSUME NEW i \in DOMAIN s, s[i] # s[k + 1] PROVE s[i] \in DM!ToSet(t)
  <2>1. CASE i <= k
    <3>1. i \in 1..(Len(s) - 1)
      BY <1>2, <2>1
    <3>2. QED BY <1>2, <1>3, <2>1, <3>1 DEF DM!ToSet
  <2>2. CASE i > k + 1
    <3>1. i - 1 \in 1..(Len(s) - 1) /\ i - 1 > k /\ (i - 1) + 1 = i
      BY <1>2, <2>2
    <3>2. t[i - 1] = s[i]
      BY <1>4, <3>1
    <3>3. QED BY <1>2, <3>1, <3>2 DEF DM!ToSet
  <2>3. QED BY <1>2, <1>8, <2>1, <2>2
<1>9. DM!ToSet(t) = DM!ToSet(s) \ {s[k + 1]}
  BY <1>7, <1>8 DEF DM!ToSet
<1>10. QED BY <1>5, <1>9

LEMMA NoRows == DM!ToSet(<<>>) = {}
<1>1. DOMAIN <<>> = {}
  BY EmptySeq
<1>2. QED BY <1>1 DEF DM!ToSet

(* Where a new row goes: after the rows of the files before it.            *)
LEMMA RankOfFile ==
  ASSUME File \subseteq Nat, items \in Seq(File), Increasing(items), NEW f \in File
  PROVE  /\ DM!Rank(f) \in 0..Len(items)
         /\ \A i \in 1..Len(items) : items[i] <= f <=> i <= DM!Rank(f)
<1> DEFINE Before == {i \in DOMAIN items : items[i] <= f}
<1>1. Len(items) \in Nat /\ DOMAIN items = 1..Len(items) /\ \A i \in 1..Len(items) : items[i] \in Nat
  <2>1. Len(items) \in Nat /\ DOMAIN items = 1..Len(items) /\ \A i \in 1..Len(items) : items[i] \in File
    BY ElementOfSeq, LenProperties
  <2>2. QED BY <2>1
<1>2. Before \in SUBSET (1..Len(items))
  BY <1>1
<1>3. ASSUME NEW i \in Before, NEW j \in 1..Len(items), j < i PROVE j \in Before
  <2>1. items[j] < items[i] /\ items[i] <= f
    BY <1>1, <1>3 DEF Increasing
  <2>2. QED BY <1>1, <2>1
<1>4. PICK k \in 0..Len(items) : Before = 1..k
  <2> HIDE DEF Before
  <2>1. QED BY <1>1, <1>2, <1>3, Segment
<1>5. k \in Nat /\ Cardinality(1..k) = k
  <2>1. k \in Int /\ 1 \in Int /\ (1 > k <=> k = 0)
    BY <1>1
  <2>2. Cardinality(1..k) = IF 1 > k THEN 0 ELSE k - 1 + 1
    BY <2>1, FS_Interval
  <2>3. QED BY <1>1, <2>1, <2>2
<1>6. DM!Rank(f) = k
  BY <1>4, <1>5, SameCardinality DEF DM!Rank
<1>7. \A i \in 1..Len(items) : items[i] <= f <=> i \in 1..k
  BY <1>1, <1>4
<1>8. QED BY <1>1, <1>6, <1>7

(* Where the row of a file is: SelectInSeq is the first place, less one.   *)
LEMMA PlaceOfFile ==
  ASSUME NEW s \in Seq(File), NEW f \in DM!ToSet(s)
  PROVE  /\ DM!SelectInSeq(s, LAMBDA i : i = f) - 1 \in 0..(Len(s) - 1)
         /\ s[(DM!SelectInSeq(s, LAMBDA i : i = f) - 1) + 1] = f
<1> DEFINE I == {i \in 1..Len(s) : s[i] = f}
<1>1. Len(s) \in Nat /\ I \subseteq 1..Len(s) /\ I \subseteq Nat /\ I # {}
  BY DEF DM!ToSet
<1>2. DM!SelectInSeq(s, LAMBDA i : i = f) = DM!Min(I)
  BY <1>1 DEF DM!SelectInSeq
<1>3. PICK n \in I : \A j \in I : n <= j
  <2> DEFINE lt == OpToRel(<, Nat)
  <2>1. IsWellFoundedOn(lt, Nat)
    BY NatLessThanWellFounded DEF OpToRel
  <2>2. \A i, j \in Nat : j < i => <<j, i>> \in lt
    BY DEF OpToRel
  <2> HIDE DEF lt, I
  <2>3. PICK m \in I : \A j \in I : ~(<<j, m>> \in lt)
    BY <1>1, <2>1, WFMin
  <2>4. ASSUME NEW j \in I PROVE m <= j
    <3>1. j \in Nat /\ m \in Nat /\ ~(j < m)
      BY <1>1, <2>2, <2>3
    <3>2. QED BY <3>1
  <2>5. QED BY <2>4
<1>4. DM!Min(I) \in I
  BY <1>3 DEF DM!Min
<1>5. DM!Min(I) \in 1..Len(s) /\ s[DM!Min(I)] = f
  BY <1>4
<1>6. QED BY <1>1, <1>2, <1>5

-----------------------------------------------------------------------------
(* The inductive invariant. *)
LEMMA ListInit == ASSUME Ordinary, DM!Init PROVE ListIInv
<1>1. listings = {} /\ events = <<>> /\ items = <<>> /\ seen = <<>> /\ DOMAIN events = {}
  BY EmptySeq DEF DM!Init
<1>2. DM!ToSet(items) = {} /\ DOMAIN items = {}
  BY <1>1, EmptySeq, NoRows
<1>3. DM!TypeOK
  <2>1. exists \in [Folder -> SUBSET File]
    BY DEF DM!Init
  <2>2. 0 \in 0..MaxChanges
    BY DEF Ordinary
  <2>3. items \in Seq(File) /\ seen \in Seq(File)
    BY <1>1, EmptySeq
  <2>4. QED BY <1>1, <2>1, <2>2, <2>3 DEF DM!Init, DM!TypeOK
<1>4. OneListing /\ InHand /\ NotTwice
  BY <1>1 DEF OneListing, InHand, NotTwice
<1>5. Rows
  BY <1>1, <1>2 DEF Rows, Increasing
<1>6. directory = None /\ DM!Shown = {}
  BY DEF DM!Init, DM!Shown
<1>7. Covered /\ MadeAgain /\ Calm
  BY <1>1, <1>2, <1>6 DEF Covered, MadeAgain, Calm
<1>8. QED BY <1>3, <1>4, <1>5, <1>7 DEF ListIInv

(* Reload: the list starts again, and so does what is said of it.          *)
LEMMA ReloadRight ==
  ASSUME Ordinary, ListIInv, DM!Reload, UNCHANGED DM!fs, ~DM!Busy,
         directory' \in Folder \cup {None}, visible' \in SUBSET File, changes' \in 0..MaxChanges
  PROVE  ListIInv'
<1>1. /\ items' = <<>> /\ events' = <<>> /\ DOMAIN items' = {} /\ DOMAIN events' = {}
      /\ DM!ToSet(items') = {}
  BY EmptySeq, NoRows DEF DM!Reload
<1>2. seen' = <<>>
  <2>1. items \in Seq(File) /\ seen = items
    BY DEF ListIInv, DM!TypeOK, Rows
  <2>2. QED BY <2>1, ToldOfAll DEF DM!Reload
<1>3. \A l \in listings : [l EXCEPT !.cancelled = TRUE] \in DM!Listing
      /\ [l EXCEPT !.cancelled = TRUE].cancelled
      /\ [l EXCEPT !.cancelled = TRUE].step = l.step
      /\ [l EXCEPT !.cancelled = TRUE].left = l.left
      /\ [l EXCEPT !.cancelled = TRUE].chunk = l.chunk
  BY DEF ListIInv, DM!TypeOK, DM!Listing
<1>4. ASSUME directory' # None
      PROVE  /\ DM!Opened(directory') \in DM!Listing
             /\ DM!Opened(directory').of = directory' /\ DM!Opened(directory').step = "open"
             /\ DM!Opened(directory').left = {} /\ DM!Opened(directory').chunk = {}
             /\ DM!Opened(directory').cancelled = FALSE
  BY <1>4 DEF DM!Opened, DM!Listing
<1>5. ASSUME NEW l \in listings'
      PROVE  \/ l.cancelled /\ \E m \in listings : l = [m EXCEPT !.cancelled = TRUE]
             \/ directory' # None /\ l = DM!Opened(directory')
  BY <1>3 DEF DM!Reload
<1>6. ASSUME NEW l \in listings', ~l.cancelled
      PROVE  directory' # None /\ l = DM!Opened(directory')
  BY <1>5, <1>6
<1>7. DM!TypeOK'
  <2>1. listings' \subseteq DM!Listing
    BY <1>3, <1>4, <1>5
  <2>2. items' \in Seq(File) /\ seen' \in Seq(File)
    BY <1>1, <1>2, EmptySeq
  <2>3. QED BY <1>1, <2>1, <2>2 DEF ListIInv, DM!TypeOK, DM!fs
<1>8. OneListing'
  <2> USE DEF OneListing
  <2>1. QED BY <1>4, <1>6
<1>9. InHand'
  <2> SUFFICES ASSUME NEW l \in listings'
               PROVE  /\ l.step = "taking" => ~l.cancelled
                      /\ l.step \in {"open", "asked"} => l.chunk = {}
                      /\ l.step = "open" => l.left = {}
                      /\ l.step = "answered" /\ l.chunk = {} => l.left = {}
    BY DEF InHand
  <2>1. CASE directory' # None /\ l = DM!Opened(directory')
    BY <1>4, <2>1
  <2>2. ASSUME NEW m \in listings, l = [m EXCEPT !.cancelled = TRUE]
        PROVE  /\ l.step = "taking" => ~l.cancelled
               /\ l.step \in {"open", "asked"} => l.chunk = {}
               /\ l.step = "open" => l.left = {}
               /\ l.step = "answered" /\ l.chunk = {} => l.left = {}
    <3>1. m.step # "taking" /\ l.step = m.step /\ l.left = m.left /\ l.chunk = m.chunk
      BY <1>3, <2>2 DEF DM!Busy
    <3>2. QED BY <3>1 DEF ListIInv, InHand
  <2>3. QED BY <1>5, <2>1, <2>2
<1>10. NotTwice'
  <2> SUFFICES ASSUME NEW l \in listings', ~l.cancelled
               PROVE  /\ l.step = "open" => items' = <<>>
                      /\ l.left \cap l.chunk = {}
                      /\ DM!ToSet(items') \cap (l.left \cup l.chunk) = {}
    BY DEF NotTwice
  <2>1. QED BY <1>1, <1>4, <1>6
<1>11. Rows'
  BY <1>1, <1>2 DEF Rows, Increasing
<1>12. Covered'
  <2>1. CASE directory' = None
    BY <2>1 DEF Covered, DM!Shown
  <2>2. CASE directory' # None
    <3>1. DM!Opened(directory') \in listings'
      BY <2>2 DEF DM!Reload
    <3>2. QED BY <1>4, <2>2, <3>1 DEF Covered
  <2>3. QED BY <2>1, <2>2
<1>13. MadeAgain'
  BY <1>1 DEF MadeAgain
<1>14. Calm'
  <2> SUFFICES ASSUME NEW l \in listings', ~l.cancelled
               PROVE  /\ events' = <<>> /\ l.left \subseteq exists'[l.of]
                      /\ l.chunk \subseteq exists'[l.of]
    BY <1>1 DEF Calm
  <2>1. QED BY <1>1, <1>4, <1>6
<1>15. QED BY <1>7, <1>8, <1>9, <1>10, <1>11, <1>12, <1>13, <1>14 DEF ListIInv

LEMMA SetterRight ==
  ASSUME Ordinary, ListIInv,
         \/ \E d \in Folder \cup {None} : DM!SetDirectory(d)
         \/ \E files \in SUBSET File : DM!SetVisibleFunc(files)
         \/ DM!ChangedCreated
  PROVE  ListIInv'
<1>1. changes' \in 0..MaxChanges
  BY DEF Ordinary, ListIInv, DM!TypeOK, DM!SetDirectory, DM!SetVisibleFunc, DM!ChangedCreated, DM!Change
<1>2. ~DM!Busy
  BY DEF Ordinary, DM!SetDirectory, DM!SetVisibleFunc, DM!ChangedCreated, DM!Callable
<1>3. DM!Reload /\ UNCHANGED DM!fs
  BY DEF DM!SetDirectory, DM!SetVisibleFunc, DM!ChangedCreated
<1>4. directory' \in Folder \cup {None} /\ visible' \in SUBSET File
  BY DEF ListIInv, DM!TypeOK, DM!SetDirectory, DM!SetVisibleFunc, DM!ChangedCreated
<1>5. QED BY <1>1, <1>2, <1>3, <1>4, ReloadRight

(* What is told of a file comes after everything told before.              *)
FileEvent == [event : {"CREATED", "DELETED"}, file : File]

LEMMA OneMoreEvent ==
  ASSUME NEW q \in Seq(FileEvent), NEW e \in FileEvent
  PROVE  /\ \A i \in DOMAIN q : i \in DOMAIN Append(q, e) /\ Append(q, e)[i] = q[i]
         /\ \E n \in DOMAIN Append(q, e) :
              /\ Append(q, e)[n] = e
              /\ \A i \in DOMAIN Append(q, e) : i = n \/ (i \in DOMAIN q /\ i < n)
         /\ Append(q, e) \in Seq(FileEvent)
<1>1. /\ Append(q, e) \in Seq(FileEvent) /\ Len(Append(q, e)) = Len(q) + 1
      /\ \A i \in 1..Len(q) : Append(q, e)[i] = q[i]
      /\ Append(q, e)[Len(q) + 1] = e
  BY AppendProperties
<1>2. Len(q) \in Nat /\ DOMAIN q = 1..Len(q) /\ DOMAIN Append(q, e) = 1..(Len(q) + 1)
  BY <1>1, LenProperties
<1>3. /\ Len(q) + 1 \in DOMAIN Append(q, e)
      /\ \A i \in DOMAIN Append(q, e) : i = Len(q) + 1 \/ (i \in DOMAIN q /\ i < Len(q) + 1)
  BY <1>2
<1>4. QED BY <1>1, <1>2, <1>3

LEMMA FirstEvent ==
  ASSUME NEW q \in Seq(FileEvent), q # <<>>
  PROVE  /\ Tail(q) \in Seq(FileEvent) /\ 1 \in DOMAIN q /\ Head(q) = q[1] /\ Head(q) \in FileEvent
         /\ \A i \in DOMAIN q : i = 1 \/ (i - 1 \in DOMAIN Tail(q) /\ Tail(q)[i - 1] = q[i])
         /\ \A i \in DOMAIN Tail(q) : i + 1 \in DOMAIN q /\ i + 1 > 1 /\ Tail(q)[i] = q[i + 1]
<1>1. /\ Len(q) \in Nat /\ Len(q) # 0 /\ DOMAIN q = 1..Len(q)
      /\ \A i \in 1..Len(q) : q[i] \in FileEvent
  BY LenProperties, EmptySeq, ElementOfSeq
<1>2. /\ Tail(q) \in Seq(FileEvent) /\ Len(Tail(q)) = Len(q) - 1
      /\ \A i \in 1..(Len(q) - 1) : Tail(q)[i] = q[i + 1] /\ Head(q) = q[1]
  BY <1>1, HeadTailProperties
<1>3. DOMAIN Tail(q) = 1..(Len(q) - 1)
  BY <1>1, <1>2, LenProperties
<1>4. Head(q) = q[1]
  BY <1>1
<1>5. \A i \in DOMAIN q : i = 1 \/ (i - 1 \in DOMAIN Tail(q) /\ Tail(q)[i - 1] = q[i])
  <2> SUFFICES ASSUME NEW i \in DOMAIN q, i # 1
               PROVE  i - 1 \in DOMAIN Tail(q) /\ Tail(q)[i - 1] = q[i]
    OBVIOUS
  <2>1. i - 1 \in 1..(Len(q) - 1) /\ (i - 1) + 1 = i
    BY <1>1
  <2>2. QED BY <1>2, <1>3, <2>1
<1>6. \A i \in DOMAIN Tail(q) : i + 1 \in DOMAIN q /\ i + 1 > 1 /\ Tail(q)[i] = q[i + 1]
  BY <1>1, <1>2, <1>3
<1>7. QED BY <1>1, <1>2, <1>4, <1>5, <1>6

(* A file is made or deleted; the monitor of its directory tells of it.    *)
LEMMA FileChangeRight ==
  ASSUME Ordinary, ListIInv, NEW d \in Folder, NEW f \in File, DM!Created(d, f) \/ DM!Deleted(d, f)
  PROVE  ListIInv'
<1>1. /\ exists \in [Folder -> SUBSET File] /\ events \in Seq(FileEvent)
      /\ UNCHANGED <<weather, directory, visible, listings, items, seen>>
      /\ weather = "calm" => \A l \in listings : l.cancelled
      /\ changes' \in 0..MaxChanges
  BY DEF ListIInv, DM!TypeOK, FileEvent, DM!Created, DM!Deleted, DM!FileChanges, Ordinary, DM!Change
<1>2. ASSUME DM!Created(d, f)
      PROVE  /\ exists' = [exists EXCEPT ![d] = exists[d] \cup {f}]
             /\ events' = IF d = directory
                          THEN Append(events, [event |-> "CREATED", file |-> f]) ELSE events
  BY <1>2 DEF DM!Created, DM!FileChanges
<1>3. ASSUME DM!Deleted(d, f)
      PROVE  /\ exists' = [exists EXCEPT ![d] = exists[d] \ {f}]
             /\ events' = IF d = directory
                          THEN Append(events, [event |-> "DELETED", file |-> f]) ELSE events
  BY <1>3 DEF DM!Deleted, DM!FileChanges
<1>4. PICK e \in FileEvent : /\ e.file = f /\ events' = IF d = directory THEN Append(events, e) ELSE events
                             /\ DM!Created(d, f) => e.event = "CREATED"
                             /\ ~DM!Created(d, f) => e.event = "DELETED"
  BY <1>2, <1>3 DEF FileEvent
<1>5. /\ \A i \in DOMAIN events : i \in DOMAIN Append(events, e) /\ Append(events, e)[i] = events[i]
      /\ \E n \in DOMAIN Append(events, e) :
           /\ Append(events, e)[n] = e
           /\ \A i \in DOMAIN Append(events, e) : i = n \/ (i \in DOMAIN events /\ i < n)
      /\ Append(events, e) \in Seq(FileEvent)
  BY <1>1, OneMoreEvent
<1>6. events' \in Seq(FileEvent) /\ \A i \in DOMAIN events : i \in DOMAIN events' /\ events'[i] = events[i]
  BY <1>1, <1>4, <1>5
<1>7. ASSUME d = directory
      PROVE  \E n \in DOMAIN events' :
               /\ events'[n] = e
               /\ \A i \in DOMAIN events' : i = n \/ (i \in DOMAIN events /\ i < n)
  BY <1>4, <1>5, <1>7
<1>8. /\ exists' \in [Folder -> SUBSET File]
      /\ \A x \in Folder : x # d => exists'[x] = exists[x]
      /\ DM!Created(d, f) => exists'[d] = exists[d] \cup {f}
      /\ ~DM!Created(d, f) => exists'[d] = exists[d] \ {f}
  BY <1>1, <1>2, <1>3
<1>9. directory # None => directory \in Folder
  BY DEF ListIInv, DM!TypeOK
<1>10. DM!TypeOK'
  BY <1>1, <1>6, <1>8 DEF ListIInv, DM!TypeOK, FileEvent
<1>11. OneListing' /\ InHand' /\ NotTwice'
  BY <1>1 DEF ListIInv, OneListing, InHand, NotTwice
<1>12. Rows'
  <2>1. directory = None => events' = events
    BY <1>4, <1>9 DEF Ordinary
  <2>2. QED BY <1>1, <2>1 DEF ListIInv, Rows, Increasing
<1>13. Coming => Coming'
  BY <1>6 DEF Coming
<1>14. d = directory /\ DM!Created(d, f) => Coming'
  BY <1>4, <1>7 DEF Coming
<1>15. Covered'
  <2>1. CASE Coming \/ (d = directory /\ DM!Created(d, f))
    BY <1>13, <1>14, <2>1 DEF Covered
  <2>2. CASE ~Coming /\ ~(d = directory /\ DM!Created(d, f))
    <3>1. DM!Shown' \subseteq DM!Shown
      BY <1>1, <1>8, <1>9, <2>2 DEF DM!Shown
    <3>2. QED BY <1>1, <2>2, <3>1 DEF ListIInv, Covered
  <2>3. QED BY <2>1, <2>2
<1>16. MadeAgain'
  <2>1. CASE d = directory
    <3>1. PICK n \in DOMAIN events' :
             /\ events'[n] = e
             /\ \A i \in DOMAIN events' : i = n \/ (i \in DOMAIN events /\ i < n)
      BY <1>7, <2>1
    <3>2. CASE DM!Created(d, f)
      BY <1>4, <3>1, <3>2 DEF MadeAgain, FileEvent
    <3>3. CASE ~DM!Created(d, f)
      <4> SUFFICES ASSUME directory # None, NEW i \in DOMAIN events',
                          events'[i].event = "DELETED", events'[i].file \in exists'[directory]
                   PROVE  \E j \in DOMAIN events' : j > i /\ events'[j].event = "CREATED"
        BY <1>1 DEF MadeAgain
      <4>1. i # n
        BY <1>4, <1>8, <2>1, <3>1, <3>3
      <4>2. i \in DOMAIN events /\ events[i] = events'[i]
        BY <1>6, <3>1, <4>1
      <4>3. events[i].file \in exists[directory]
        BY <1>8, <2>1, <3>3, <4>2
      <4>4. PICK j \in DOMAIN events : j > i /\ events[j].event = "CREATED"
        BY <4>2, <4>3 DEF ListIInv, MadeAgain
      <4>5. QED BY <1>6, <4>4
    <3>4. QED BY <3>2, <3>3
  <2>2. CASE d # directory
    BY <1>1, <1>4, <1>8, <1>9, <2>2 DEF ListIInv, MadeAgain
  <2>3. QED BY <2>1, <2>2
<1>17. Calm'
  <2> SUFFICES ASSUME weather = "calm"
               PROVE  /\ \A l \in listings : l.cancelled
                      /\ \/ Coming'
                         \/ \A g \in DM!ToSet(items) :
                              \/ g \in exists'[directory]
                              \/ \E j \in DOMAIN events' : events'[j].event = "DELETED" /\ events'[j].file = g
    BY <1>1 DEF Calm
  <2>1. CASE Coming \/ (d = directory /\ DM!Created(d, f))
    BY <1>1, <1>13, <1>14, <2>1
  <2>2. CASE ~Coming /\ ~(d = directory /\ DM!Created(d, f))
    <3> SUFFICES ASSUME NEW g \in DM!ToSet(items)
                 PROVE  \/ g \in exists'[directory]
                        \/ \E j \in DOMAIN events' : events'[j].event = "DELETED" /\ events'[j].file = g
      BY <1>1
    <3>1. directory \in Folder
      BY <1>9, NoRows DEF ListIInv, Rows
    <3>2. CASE g \in exists[directory]
      <4>1. CASE g \in exists'[directory]
        BY <4>1
      <4>2. CASE g \notin exists'[directory]
        <5>1. d = directory /\ g = f
          BY <1>8, <2>2, <3>1, <3>2, <4>2
        <5>2. QED BY <1>4, <1>7, <2>2, <5>1
      <4>3. QED BY <4>1, <4>2
    <3>3. CASE \E j \in DOMAIN events : events[j].event = "DELETED" /\ events[j].file = g
      BY <1>6, <3>3
    <3>4. QED BY <2>2, <3>2, <3>3 DEF ListIInv, Calm
  <2>3. QED BY <2>1, <2>2
<1>18. QED BY <1>10, <1>11, <1>12, <1>15, <1>16, <1>17 DEF ListIInv

-----------------------------------------------------------------------------
(* A listing that is cancelled, or has looked at everything, ends, ...     *)
LEMMA ListingEnds ==
  ASSUME ListIInv, NEW l \in listings,
         l.cancelled \/ (l.left = {} /\ l.chunk = {} /\ l.step # "open"),
         listings' = DM!Replace(l, {}),
         UNCHANGED <<DM!fs, changes, directory, visible, events, items, seen>>
  PROVE  ListIInv'
<1>1. listings' \subseteq listings /\ \A m \in listings : m # l => m \in listings'
  BY DEF DM!Replace
<1>2. DM!TypeOK'
  BY <1>1 DEF ListIInv, DM!TypeOK, DM!fs
<1>3. OneListing' /\ InHand' /\ NotTwice'
  BY <1>1 DEF ListIInv, OneListing, InHand, NotTwice
<1>4. Rows' /\ MadeAgain'
  BY DEF ListIInv, Rows, Increasing, MadeAgain, DM!fs
<1>5. Covered'
  <2>1. Coming' = Coming /\ DM!Shown' = DM!Shown
    BY DEF Coming, DM!Shown, DM!fs
  <2>2. QED BY <1>1, <2>1 DEF ListIInv, Covered
<1>6. Calm'
  BY <1>1 DEF ListIInv, Calm, Coming, DM!fs
<1>7. QED BY <1>2, <1>3, <1>4, <1>5, <1>6 DEF ListIInv

(* ... any other goes on, and loses no file that is there and visible.     *)
LEMMA ListingGoesOn ==
  ASSUME ListIInv, NEW l \in listings, NEW m \in DM!Listing,
         listings' = DM!Replace(l, {m}), m.of = l.of, m.cancelled = l.cancelled, m.step # "open",
         m.step = "taking" => ~m.cancelled,
         m.step = "asked" => m.chunk = {},
         m.step = "answered" /\ m.chunk = {} => m.left = {},
         m.left \cap m.chunk = {},
         l.step = "open" => m.left = exists[l.of] /\ m.chunk = {},
         l.step # "open" => m.left \subseteq l.left /\ m.chunk \subseteq l.left \cup l.chunk,
         l.step # "open" =>
           \A f \in (l.left \cup l.chunk) \cap exists[l.of] \cap visible : f \in m.left \cup m.chunk,
         UNCHANGED <<DM!fs, changes, directory, visible, events, items, seen>>
  PROVE  ListIInv'
<1>1. /\ \A x \in listings' : x = m \/ (x \in listings /\ x # l)
      /\ \A x \in listings : x = l \/ x \in listings'
      /\ m \in listings'
  BY DEF DM!Replace
<1>2. DM!TypeOK'
  <2>1. listings' \subseteq DM!Listing
    BY <1>1 DEF ListIInv, DM!TypeOK
  <2>2. QED BY <2>1 DEF ListIInv, DM!TypeOK, DM!fs
<1>3. OneListing'
  BY <1>1 DEF ListIInv, OneListing
<1>4. InHand'
  BY <1>1 DEF ListIInv, InHand
<1>5. ~l.cancelled => l.of = directory /\ (l.step = "open" => DM!ToSet(items) = {})
  BY NoRows DEF ListIInv, OneListing, NotTwice
<1>6. NotTwice'
  <2> SUFFICES ASSUME NEW x \in listings', ~x.cancelled
               PROVE  /\ x.step = "open" => items = <<>>
                      /\ x.left \cap x.chunk = {}
                      /\ DM!ToSet(items) \cap (x.left \cup x.chunk) = {}
    BY DEF NotTwice
  <2>1. CASE x = m
    <3>1. CASE l.step = "open"
      BY <1>5, <2>1, <3>1
    <3>2. CASE l.step # "open"
      <4>1. DM!ToSet(items) \cap (l.left \cup l.chunk) = {}
        BY <2>1 DEF ListIInv, NotTwice
      <4>2. QED BY <2>1, <3>2, <4>1
    <3>3. QED BY <3>1, <3>2
  <2>2. CASE x \in listings
    BY <2>2 DEF ListIInv, NotTwice
  <2>3. QED BY <1>1, <2>1, <2>2
<1>7. Rows' /\ MadeAgain'
  BY DEF ListIInv, Rows, Increasing, MadeAgain, DM!fs
<1>8. Covered'
  <2>1. Coming' = Coming /\ DM!Shown' = DM!Shown
    BY DEF Coming, DM!Shown, DM!fs
  <2>2. CASE Coming
    BY <2>1, <2>2 DEF Covered
  <2>3. CASE \E x \in listings : ~x.cancelled /\ x.step = "open" /\ x # l
    BY <1>1, <2>3 DEF Covered
  <2>4. CASE ~l.cancelled /\ l.step = "open"
    <3>1. \A f \in DM!Shown : f \in m.left
      BY <1>5, <2>4 DEF DM!Shown
    <3>2. QED BY <1>1, <2>1, <2>4, <3>1 DEF Covered
  <2>5. CASE /\ \A f \in DM!Shown : \/ f \in DM!ToSet(items)
                                    \/ \E x \in listings : ~x.cancelled /\ (f \in x.left \/ f \in x.chunk)
             /\ l.cancelled \/ l.step # "open"
    <3> SUFFICES ASSUME NEW f \in DM!Shown, f \notin DM!ToSet(items)
                 PROVE  \E x \in listings' : ~x.cancelled /\ (f \in x.left \/ f \in x.chunk)
      BY <2>1 DEF Covered
    <3>1. PICK x \in listings : ~x.cancelled /\ (f \in x.left \/ f \in x.chunk)
      BY <2>5
    <3>2. CASE x = l
      <4>1. f \in exists[l.of] \cap visible
        BY <1>5, <3>1, <3>2 DEF DM!Shown
      <4>2. QED BY <1>1, <2>5, <3>1, <3>2, <4>1
    <3>3. QED BY <1>1, <3>1, <3>2
  <2>6. QED BY <2>2, <2>3, <2>4, <2>5 DEF ListIInv, Covered
<1>9. Calm'
  <2> SUFFICES ASSUME weather = "calm"
               PROVE  /\ \A x \in listings' : ~x.cancelled =>
                           events = <<>> /\ x.left \subseteq exists[x.of] /\ x.chunk \subseteq exists[x.of]
                      /\ \/ Coming
                         \/ \A f \in DM!ToSet(items) :
                              \/ f \in exists[directory]
                              \/ \E j \in DOMAIN events : events[j].event = "DELETED" /\ events[j].file = f
    BY DEF Calm, Coming, DM!fs
  <2>1. \A x \in listings : ~x.cancelled =>
           events = <<>> /\ x.left \subseteq exists[x.of] /\ x.chunk \subseteq exists[x.of]
    BY DEF ListIInv, Calm
  <2>2. ~m.cancelled => events = <<>> /\ m.left \subseteq exists[m.of] /\ m.chunk \subseteq exists[m.of]
    BY <2>1
  <2>3. QED BY <1>1, <2>1, <2>2 DEF ListIInv, Calm
<1>10. QED BY <1>2, <1>3, <1>4, <1>6, <1>7, <1>8, <1>9 DEF ListIInv

LEMMA EnumerateChildrenCbRight ==
  ASSUME ListIInv, NEW l \in listings, DM!EnumerateChildrenCb(l) PROVE ListIInv'
<1>1. l \in DM!Listing /\ l.step = "open" /\ l.chunk = {}
  BY DEF ListIInv, DM!TypeOK, InHand, DM!EnumerateChildrenCb
<1>2. CASE l.cancelled
  BY <1>2, ListingEnds DEF DM!EnumerateChildrenCb
<1>3. CASE ~l.cancelled
  <2> DEFINE m == [l EXCEPT !.step = "asked", !.left = exists[l.of]]
  <2>1. exists[l.of] \subseteq File
    BY <1>1 DEF ListIInv, DM!TypeOK, DM!Listing
  <2>2. /\ m \in DM!Listing /\ m.of = l.of /\ m.cancelled = l.cancelled /\ m.step = "asked"
        /\ m.chunk = {} /\ m.left = exists[l.of]
    BY <1>1, <2>1 DEF DM!Listing
  <2>3. listings' = DM!Replace(l, {m})
    BY <1>3 DEF DM!EnumerateChildrenCb
  <2> HIDE DEF m
  <2>4. QED BY <1>1, <2>2, <2>3, ListingGoesOn DEF DM!EnumerateChildrenCb
<1>4. QED BY <1>2, <1>3

LEMMA NextFilesRight ==
  ASSUME Ordinary, ListIInv, NEW l \in listings, DM!NextFiles(l) PROVE ListIInv'
<1>1. l \in DM!Listing /\ l.step = "asked" /\ l.chunk = {}
  BY DEF ListIInv, DM!TypeOK, InHand, DM!NextFiles
<1>2. PICK passed \in SUBSET l.left :
        /\ Cardinality(passed \cap exists[l.of]) = MaxChunk \/ passed = l.left
        /\ listings' = DM!Replace(l, {[l EXCEPT !.step = "answered", !.left = @ \ passed,
                                             !.chunk = passed \cap exists[l.of]]})
  BY SameCardinality DEF DM!NextFiles
<1> DEFINE m == [l EXCEPT !.step = "answered", !.left = l.left \ passed,
                          !.chunk = passed \cap exists[l.of]]
<1>3. /\ m \in DM!Listing /\ m.of = l.of /\ m.cancelled = l.cancelled /\ m.step = "answered"
      /\ m.chunk = passed \cap exists[l.of] /\ m.left = l.left \ passed
  BY <1>1 DEF DM!Listing
<1>4. listings' = DM!Replace(l, {m})
  BY <1>2
<1> HIDE DEF m
<1>5. m.chunk = {} => m.left = {}
  <2>1. Cardinality({}) # MaxChunk
    BY FS_EmptySet DEF Ordinary
  <2>2. QED BY <1>2, <1>3, <2>1
<1>6. QED BY <1>1, <1>3, <1>4, <1>5, ListingGoesOn DEF DM!NextFiles

LEMMA NextFilesCbRight ==
  ASSUME ListIInv, NEW l \in listings, DM!NextFilesCb(l) PROVE ListIInv'
<1>1. l \in DM!Listing /\ l.step = "answered" /\ (l.chunk = {} => l.left = {})
  BY DEF ListIInv, DM!TypeOK, InHand, DM!NextFilesCb
<1>2. CASE l.cancelled \/ l.chunk = {}
  BY <1>1, <1>2, ListingEnds DEF DM!NextFilesCb
<1>3. CASE ~l.cancelled /\ l.chunk # {}
  <2> DEFINE m == [l EXCEPT !.step = "taking"]
  <2>1. /\ m \in DM!Listing /\ m.of = l.of /\ m.cancelled = l.cancelled /\ m.step = "taking"
        /\ m.chunk = l.chunk /\ m.left = l.left
    BY <1>1 DEF DM!Listing
  <2>2. listings' = DM!Replace(l, {m})
    BY <1>3 DEF DM!NextFilesCb
  <2> HIDE DEF m
  <2>3. l.left \cap l.chunk = {}
    BY <1>3 DEF ListIInv, NotTwice
  <2>4. QED BY <1>1, <1>3, <2>1, <2>2, <2>3, ListingGoesOn DEF DM!NextFilesCb
<1>4. QED BY <1>2, <1>3

(* A file that was listed gets its row where it belongs.                   *)
LEMMA TakeItemRight ==
  ASSUME Ordinary, ListIInv, NEW l \in listings, NEW f \in l.chunk, DM!TakeItem(l, f) PROVE ListIInv'
<1>1. l \in DM!Listing /\ f \in File /\ l.step = "taking" /\ ~l.cancelled /\ l.of = directory
  BY DEF ListIInv, DM!TypeOK, InHand, OneListing, DM!TakeItem, DM!Listing
<1> DEFINE m == [l EXCEPT !.chunk = l.chunk \ {f}, !.step = IF l.chunk = {f} THEN "asked" ELSE l.step]
<1>2. /\ m \in DM!Listing /\ m.of = l.of /\ m.cancelled = l.cancelled /\ m.step \in {"asked", "taking"}
      /\ m.chunk = l.chunk \ {f} /\ m.left = l.left /\ (m.step = "asked" => m.chunk = {})
  BY <1>1 DEF DM!Listing
<1>3. listings' = DM!Replace(l, {m})
  BY DEF DM!TakeItem
<1> HIDE DEF m
<1>4. l.left \cap l.chunk = {} /\ DM!ToSet(items) \cap (l.left \cup l.chunk) = {}
  BY <1>1 DEF ListIInv, NotTwice
<1>5. CASE f \notin visible
  <2>1. UNCHANGED <<DM!fs, changes, directory, visible, events, items, seen>>
    BY <1>5 DEF DM!TakeItem
  <2>2. QED BY <1>1, <1>2, <1>3, <1>4, <1>5, <2>1, ListingGoesOn
<1>6. CASE f \in visible
  <2>1. /\ File \subseteq Nat /\ items \in Seq(File) /\ Increasing(items) /\ seen = items
        /\ f \notin DM!ToSet(items)
    BY <1>4 DEF Ordinary, ListIInv, DM!TypeOK, Rows
  <2>2. PICK k \in 0..Len(items) :
          /\ \A i \in 1..Len(items) : items[i] <= f <=> i <= k
          /\ items' = DM!With(items, k, <<f>>) /\ seen' = DM!Told(seen, items', k, 0, 1)
    BY <1>1, <1>6, <2>1, RankOfFile DEF DM!TakeItem
  <2>3. items' \in Seq(File) /\ Increasing(items)' /\ DM!ToSet(items') = DM!ToSet(items) \cup {f}
    <3>1. DM!With(items, k, <<f>>) \in Seq(File)
      BY <1>1, <2>1, Inserted
    <3>2. Increasing(DM!With(items, k, <<f>>)) /\ DM!ToSet(DM!With(items, k, <<f>>)) = DM!ToSet(items) \cup {f}
      BY <1>1, <2>1, <2>2, AddedRow
    <3>3. QED BY <2>2, <3>1, <3>2 DEF Increasing
  <2>4. seen' = items'
    BY <1>1, <2>1, <2>2, ToldOfInsertion
  <2>5. UNCHANGED <<DM!fs, changes, directory, visible, events>>
    BY DEF DM!TakeItem
  <2>6. /\ \A x \in listings' : ~x.cancelled => x = m
        /\ \A x \in listings' : x = m \/ x \in listings
        /\ \A x \in listings : ~x.cancelled => x = l
        /\ m \in listings'
    BY <1>1, <1>3 DEF DM!Replace, ListIInv, OneListing
  <2>7. DM!TypeOK'
    <3>1. listings' \subseteq DM!Listing
      BY <1>2, <2>6 DEF ListIInv, DM!TypeOK
    <3>2. QED BY <2>3, <2>4, <2>5, <3>1 DEF ListIInv, DM!TypeOK, DM!fs
  <2>8. OneListing' /\ InHand'
    BY <1>1, <1>2, <2>5, <2>6 DEF ListIInv, OneListing, InHand
  <2>9. NotTwice'
    <3> SUFFICES /\ m.left \cap m.chunk = {}
                 /\ DM!ToSet(items') \cap (m.left \cup m.chunk) = {}
      BY <1>2, <2>6 DEF NotTwice
    <3>1. QED BY <1>2, <1>4, <2>3
  <2>10. Rows'
    <3>1. directory # None
      BY <1>1 DEF Ordinary, DM!Listing
    <3>2. QED BY <1>6, <2>3, <2>4, <2>5, <3>1 DEF ListIInv, Rows
  <2>11. Covered'
    <3>1. Coming' = Coming /\ DM!Shown' = DM!Shown
      BY <2>5 DEF Coming, DM!Shown, DM!fs
    <3>2. CASE Coming
      BY <3>1, <3>2 DEF Covered
    <3>3. CASE ~Coming
      <4> SUFFICES ASSUME NEW g \in DM!Shown, g \notin DM!ToSet(items')
                   PROVE  \E x \in listings' : ~x.cancelled /\ (g \in x.left \/ g \in x.chunk)
        BY <3>1 DEF Covered
      <4>1. ~\E x \in listings : ~x.cancelled /\ x.step = "open"
        BY <1>1, <2>6
      <4>2. g \in l.left \/ g \in l.chunk
        BY <2>3, <2>6, <3>3, <4>1 DEF ListIInv, Covered
      <4>3. QED BY <1>1, <1>2, <2>3, <2>6, <4>2
    <3>4. QED BY <3>2, <3>3
  <2>12. MadeAgain'
    BY <2>5 DEF ListIInv, MadeAgain, DM!fs
  <2>13. Calm'
    <3> SUFFICES ASSUME weather = "calm"
                 PROVE  /\ events = <<>> /\ m.left \subseteq exists[m.of] /\ m.chunk \subseteq exists[m.of]
                        /\ \/ Coming
                           \/ \A g \in DM!ToSet(items') :
                                \/ g \in exists[directory]
                                \/ \E j \in DOMAIN events : events[j].event = "DELETED" /\ events[j].file = g
      BY <2>5, <2>6 DEF Calm, Coming, DM!fs
    <3>1. events = <<>> /\ l.left \subseteq exists[l.of] /\ l.chunk \subseteq exists[l.of]
      BY <1>1 DEF ListIInv, Calm
    <3>2. f \in exists[directory]
      BY <1>1, <3>1
    <3>3. QED BY <1>2, <2>3, <3>1, <3>2 DEF ListIInv, Calm
  <2>14. QED BY <2>7, <2>8, <2>9, <2>10, <2>11, <2>12, <2>13 DEF ListIInv
<1>7. QED BY <1>5, <1>6

(* A deletion takes the row of the file out, if it has one.                *)
LEMMA ChangedDeletedRight == ASSUME Ordinary, ListIInv, DM!ChangedDeleted PROVE ListIInv'
<1>1. /\ events \in Seq(FileEvent) /\ events # <<>> /\ events' = Tail(events)
      /\ Head(events).event = "DELETED"
      /\ UNCHANGED <<DM!fs, changes, directory, visible, listings>>
  BY DEF ListIInv, DM!TypeOK, FileEvent, DM!ChangedDeleted
<1>2. PICK f \in File : f = Head(events).file
  BY <1>1, FirstEvent DEF FileEvent
<1>3. /\ Tail(events) \in Seq(FileEvent) /\ 1 \in DOMAIN events /\ Head(events) = events[1]
      /\ \A i \in DOMAIN events : i = 1 \/ (i - 1 \in DOMAIN events' /\ events'[i - 1] = events[i])
      /\ \A i \in DOMAIN events' : i + 1 \in DOMAIN events /\ i + 1 > 1 /\ events'[i] = events[i + 1]
  BY <1>1, FirstEvent
<1>4. /\ File \subseteq Nat /\ items \in Seq(File) /\ Increasing(items) /\ seen = items
      /\ DM!ToSet(items) \subseteq visible
  BY DEF Ordinary, ListIInv, DM!TypeOK, Rows
<1>5. /\ items' \in Seq(File) /\ Increasing(items)' /\ seen' = items'
      /\ DM!ToSet(items') = DM!ToSet(items) \ {f}
      /\ items = <<>> => items' = <<>>
  <2>1. CASE f \notin DM!ToSet(items)
    BY <1>2, <1>4, <2>1 DEF DM!ChangedDeleted, Increasing
  <2>2. CASE f \in DM!ToSet(items)
    <3>1. PICK k \in 0..(Len(items) - 1) :
            items[k + 1] = f /\ items' = DM!Without(items, k, 1) /\ seen' = DM!Told(seen, items', k, 1, 0)
      BY <1>2, <1>4, <2>2, PlaceOfFile DEF DM!ChangedDeleted
    <3>2. DM!Without(items, k, 1) \in Seq(File)
      BY <1>4, TakenOut
    <3>3. /\ Increasing(DM!Without(items, k, 1))
          /\ DM!ToSet(DM!Without(items, k, 1)) = DM!ToSet(items) \ {items[k + 1]}
      BY <1>4, RemovedRow
    <3>4. DM!Told(items, DM!Without(items, k, 1), k, 1, 0) = DM!Without(items, k, 1)
      BY <1>4, ToldOfRemoval
    <3>5. items # <<>>
      BY <2>2, NoRows
    <3>6. QED BY <1>4, <3>1, <3>2, <3>3, <3>4, <3>5 DEF Increasing
  <2>3. QED BY <2>1, <2>2
<1>6. DM!TypeOK'
  BY <1>1, <1>3, <1>5 DEF ListIInv, DM!TypeOK, DM!fs, FileEvent
<1>7. OneListing' /\ InHand'
  BY <1>1 DEF ListIInv, OneListing, InHand
<1>8. NotTwice'
  <2> SUFFICES ASSUME NEW l \in listings, ~l.cancelled
               PROVE  /\ l.step = "open" => items' = <<>>
                      /\ l.left \cap l.chunk = {}
                      /\ DM!ToSet(items') \cap (l.left \cup l.chunk) = {}
    BY <1>1 DEF NotTwice
  <2>1. QED BY <1>5 DEF ListIInv, NotTwice
<1>9. directory # None
  BY <1>1 DEF ListIInv, Rows
<1>10. Rows'
  BY <1>1, <1>4, <1>5, <1>9 DEF Rows
<1>11. Coming => Coming'
  BY <1>1, <1>3 DEF Coming
<1>12. f \in exists[directory] => Coming'
  <2> SUFFICES ASSUME f \in exists[directory]
               PROVE  Coming'
    OBVIOUS
  <2>1. PICK j \in DOMAIN events : j > 1 /\ events[j].event = "CREATED"
    BY <1>1, <1>2, <1>3, <1>9 DEF ListIInv, MadeAgain
  <2>2. j # 1
    BY <2>1
  <2>3. QED BY <1>3, <2>1, <2>2 DEF Coming
<1>13. Covered'
  <2>1. CASE Coming'
    BY <2>1 DEF Covered
  <2>2. CASE ~Coming'
    <3>1. DM!Shown' = DM!Shown /\ ~Coming /\ f \notin DM!Shown
      BY <1>1, <1>11, <1>12, <2>2 DEF DM!Shown, DM!fs
    <3>2. CASE \E l \in listings : ~l.cancelled /\ l.step = "open"
      BY <1>1, <3>2 DEF Covered
    <3>3. CASE ~\E l \in listings : ~l.cancelled /\ l.step = "open"
      <4>1. \A g \in DM!Shown : \/ g \in DM!ToSet(items)
                                \/ \E l \in listings : ~l.cancelled /\ (g \in l.left \/ g \in l.chunk)
        BY <3>1, <3>3 DEF ListIInv, Covered
      <4>2. \A g \in DM!Shown : g # f
        BY <3>1
      <4>3. QED BY <1>1, <1>5, <3>1, <4>1, <4>2 DEF Covered
    <3>4. QED BY <3>2, <3>3
  <2>3. QED BY <2>1, <2>2
<1>14. MadeAgain'
  <2> SUFFICES ASSUME NEW i \in DOMAIN events', events'[i].event = "DELETED",
                      events'[i].file \in exists[directory]
               PROVE  \E j \in DOMAIN events' : j > i /\ events'[j].event = "CREATED"
    BY <1>1 DEF MadeAgain, DM!fs
  <2>1. i \in Nat /\ i + 1 \in DOMAIN events /\ events'[i] = events[i + 1]
    <3>1. i \in Nat
      BY <1>1, <1>3, LenProperties
    <3>2. QED BY <1>3, <3>1
  <2>2. PICK j \in DOMAIN events : j > i + 1 /\ events[j].event = "CREATED"
    BY <1>9, <2>1 DEF ListIInv, MadeAgain
  <2>3. j \in Nat
    BY <1>1, LenProperties
  <2>4. j # 1 /\ j - 1 > i
    BY <2>1, <2>2, <2>3
  <2>5. QED BY <1>3, <2>2, <2>4
<1>15. Calm'
  <2> SUFFICES ASSUME weather = "calm"
               PROVE  /\ \A l \in listings : l.cancelled
                      /\ \/ Coming'
                         \/ \A g \in DM!ToSet(items') :
                              \/ g \in exists[directory]
                              \/ \E j \in DOMAIN events' : events'[j].event = "DELETED" /\ events'[j].file = g
    BY <1>1 DEF Calm, DM!fs
  <2>1. \A l \in listings : l.cancelled
    BY <1>1 DEF ListIInv, Calm
  <2>2. CASE Coming
    BY <1>11, <2>1, <2>2
  <2>3. CASE ~Coming
    <3> SUFFICES ASSUME NEW g \in DM!ToSet(items'), g \notin exists[directory]
                 PROVE  \E j \in DOMAIN events' : events'[j].event = "DELETED" /\ events'[j].file = g
      BY <2>1
    <3>1. g \in DM!ToSet(items) /\ g # f
      BY <1>5
    <3>2. PICK j \in DOMAIN events : events[j].event = "DELETED" /\ events[j].file = g
      BY <2>3, <3>1 DEF ListIInv, Calm
    <3>3. j # 1
      BY <1>2, <1>3, <3>1, <3>2
    <3>4. QED BY <1>3, <3>2, <3>3
  <2>4. QED BY <2>2, <2>3
<1>16. QED BY <1>6, <1>7, <1>8, <1>10, <1>13, <1>14, <1>15 DEF ListIInv

-----------------------------------------------------------------------------
LEMMA ListStep == ASSUME Ordinary, ListIInv, [DM!Next]_(DM!vars) PROVE ListIInv'
<1>1. CASE UNCHANGED DM!vars
  BY <1>1 DEF ListIInv, DM!TypeOK, OneListing, InHand, NotTwice, Rows, Increasing, Covered, DM!Shown, Coming,
              MadeAgain, Calm, DM!vars, DM!fs
<1>2. CASE \E d \in Folder, f \in File : DM!Created(d, f) \/ DM!Deleted(d, f)
  BY <1>2, FileChangeRight
<1>3. CASE \/ \E d \in Folder \cup {None} : DM!SetDirectory(d)
           \/ \E files \in SUBSET File : DM!SetVisibleFunc(files)
           \/ DM!ChangedCreated
  BY <1>3, SetterRight
<1>4. ASSUME NEW l \in listings,
             \/ DM!EnumerateChildrenCb(l) \/ DM!NextFiles(l) \/ DM!NextFilesCb(l)
             \/ \E f \in l.chunk : DM!TakeItem(l, f)
      PROVE  ListIInv'
  BY <1>4, EnumerateChildrenCbRight, NextFilesRight, NextFilesCbRight, TakeItemRight
<1>5. CASE DM!ChangedDeleted
  BY <1>5, ChangedDeletedRight
<1>6. QED BY <1>1, <1>2, <1>3, <1>4, <1>5 DEF DM!Next

LEMMA ShownRight == ASSUME ListIInv PROVE DM!ShowsDirectory
<1>1. seen = items /\ \A i, j \in DOMAIN items : i < j => items[i] < items[j]
  BY DEF ListIInv, Rows, Increasing
<1>2. ASSUME listings = {}, events = <<>>
      PROVE  /\ DM!Shown \subseteq DM!ToSet(items)
             /\ weather = "calm" => DM!ToSet(items) = DM!Shown
  <2>1. DOMAIN events = {} /\ ~Coming
    BY <1>2, EmptySeq DEF Coming
  <2>2. DM!Shown \subseteq DM!ToSet(items)
    BY <1>2, <2>1 DEF ListIInv, Covered
  <2>3. ASSUME weather = "calm" PROVE DM!ToSet(items) \subseteq DM!Shown
    <3>1. directory = None => DM!ToSet(items) = {}
      BY NoRows DEF ListIInv, Rows
    <3>2. \A f \in DM!ToSet(items) : f \in exists[directory] /\ f \in visible
      BY <2>1, <2>3 DEF ListIInv, Calm, Rows
    <3>3. QED BY <3>1, <3>2 DEF DM!Shown
  <2>4. QED BY <2>2, <2>3
<1>3. QED BY <1>1, <1>2 DEF DM!ShowsDirectory

(* Whatever files are made and deleted while the directory is listed, and  *)
(* whatever directory and visible_func are set: the rows are in order and  *)
(* once each, the followers of items-changed have them, and when all is    *)
(* quiet every visible file has one; and, if no file changed during a      *)
(* listing, nothing else has.  Listeners of items-changed call no setter.  *)
THEOREM DirectoryIsShown == ASSUME Ordinary PROVE DM!Spec => [](DM!TypeOK /\ DM!ShowsDirectory)
<1>1. DM!Init => ListIInv
  BY ListInit
<1>2. ListIInv /\ [DM!Next]_(DM!vars) => ListIInv'
  BY ListStep
<1>3. ListIInv => DM!TypeOK /\ DM!ShowsDirectory
  BY ShownRight DEF ListIInv
<1>4. QED BY <1>1, <1>2, <1>3, PTL DEF DM!Spec
==============================================================================
