------------------- MODULE DzlRecursiveFileMonitorProofs -------------------
(* Proofs about DzlRecursiveFileMonitor, for every tree of directories,    *)
(* whatever is ignored and however many changes there are.                 *)
EXTENDS DzlRecursiveFileMonitor, SequenceTheorems, FiniteSetTheorems, TLAPS

Report == [event : {"CREATED", "DELETED"}, file : Dir]
Listing == [by : {"start", "changed"}, step : {"list", "attach"},
            about : Dir, todo : Seq(Dir), dirs : Seq(Dir)]

NothingWatched == \A m \in Monitor : files_by_monitor[m] = None

(* What may run, and whether anything may be watched, in each stage of the *)
(* start.                                                                  *)
Phase ==
  \/ start = "none" /\ job = NoJob /\ NothingWatched
  \/ start = "running" /\ job.by = "start" /\ job.step = "list" /\ NothingWatched
  \/ start = "running" /\ job.by = "start" /\ job.step = "attach" /\ job.todo = <<>> /\ ~cancelled
  \/ start = "answered" /\ job = NoJob
  \/ start = "answered" /\ job.by = "changed" /\ job.step = "list" /\ ~cancelled
  \/ start = "answered" /\ job.by = "changed" /\ job.step = "attach" /\ job.todo = <<>> /\ ~cancelled

CancelledIsEmpty == cancelled => NothingWatched

(* A directory is in one that exists.                                      *)
Tree == \A d \in exists \ {Root} : Parent[d] \in exists

Event(kind, d) == [event |-> kind, file |-> d]
Relevant(d) == ({d} \cup Ancestors[d]) \cap Ignored = {}
Has(m) == ToSet(events[m])
Dirs == ToSet(job.dirs)
Todo == ToSet(job.todo)

(* What follows is said of the directories that are not untold.  What is   *)
(* to be watched exists, and what is told to be removed was.               *)
Known == Root \notin untold /\ Dirs \ untold \subseteq exists
Gone ==
  \A m \in Monitor, d \in Dir \ untold : Event("DELETED", d) \in Has(m) => d \notin exists

(* The monitor a name leads to gets events as long as the directory is     *)
(* there, and then has the news of its end in its queue.                   *)
Current ==
  \A d \in exists \ untold : monitors_by_file[d] # None => watch[monitors_by_file[d]] = d
Farewell ==
  \A d \in Dir \ (exists \cup Ignored \cup untold) :
    monitors_by_file[d] # None => Event("DELETED", d) \in Has(monitors_by_file[d])

(* What is in a directory that was listed, or is watched, is watched, or   *)
(* will be by what runs, or its parent's monitor has the news.             *)
Covered(d) == monitors_by_file[d] # None \/ d \in Dirs \cup Todo
RootWatched == start # "none" => monitors_by_file[Root] # None \/ Root \in Dirs
Entries == exists \ ({Root} \cup untold)
Listed == \A d \in Entries : Relevant(d) /\ Parent[d] \in Dirs => Covered(d)
Reports(d) == Parent[d] \notin untold /\ monitors_by_file[Parent[d]] # None
Noticed ==
  \A d \in Entries : Relevant(d) /\ Reports(d) =>
    Covered(d) \/ Event("CREATED", d) \in Has(monitors_by_file[Parent[d]])

Followed == Known /\ Gone /\ Current /\ Farewell /\ RootWatched /\ Listed /\ Noticed
StillFollowed == ~cancelled => Followed

IInv == TypeOK /\ TablesAgree /\ Phase /\ CancelledIsEmpty /\ Tree /\ StillFollowed

(* What is in a sequence, as it grows and as it is used up.                *)
LEMMA Grown ==
  ASSUME NEW S, NEW s \in Seq(S), NEW x \in S
  PROVE  Append(s, x) \in Seq(S) /\ ToSet(Append(s, x)) = ToSet(s) \cup {x}
<1>1. /\ Append(s, x) \in Seq(S) /\ Len(Append(s, x)) = Len(s) + 1 /\ Len(s) \in Nat
      /\ \A i \in 1..Len(s) : Append(s, x)[i] = s[i]
      /\ Append(s, x)[Len(s) + 1] = x
  BY AppendProperties, LenProperties
<1>2. DOMAIN s = 1..Len(s) /\ DOMAIN Append(s, x) = 1..Len(s) + 1
  BY <1>1, LenProperties
<1>3. \A i : i \in 1..Len(s) + 1 <=> i \in 1..Len(s) \/ i = Len(s) + 1
  BY <1>1
<1>4. QED BY <1>1, <1>2, <1>3 DEF ToSet

LEMMA Joined ==
  ASSUME NEW S, NEW s \in Seq(S), NEW t \in Seq(S)
  PROVE  s \o t \in Seq(S) /\ ToSet(s \o t) = ToSet(s) \cup ToSet(t)
<1>1. ToSet(s \o t) = Range(s \o t) /\ ToSet(s) = Range(s) /\ ToSet(t) = Range(t)
  BY DEF ToSet, Range
<1>2. Range(s \o t) = Range(s) \cup Range(t)
  BY RangeConcatenation
<1>3. s \o t \in Seq(S)
  BY ConcatProperties
<1>4. QED BY <1>1, <1>2, <1>3

LEMMA UsedUp ==
  ASSUME NEW S, NEW s \in Seq(S), s # <<>>
  PROVE  /\ Head(s) \in S /\ Tail(s) \in Seq(S)
         /\ ToSet(s) = {Head(s)} \cup ToSet(Tail(s))
<1>1. /\ Head(s) \in S /\ Tail(s) \in Seq(S) /\ Len(Tail(s)) = Len(s) - 1
      /\ \A i \in 1..Len(Tail(s)) : Tail(s)[i] = s[i + 1]
      /\ Len(s) \in Nat \ {0} /\ Head(s) = s[1]
  BY HeadTailProperties, EmptySeq
<1>2. DOMAIN s = 1..Len(s) /\ DOMAIN Tail(s) = 1..Len(s) - 1
  BY <1>1, LenProperties
<1>3. \A i \in 1..Len(s) : i = 1 \/ i - 1 \in 1..Len(s) - 1
  BY <1>1
<1>4. \A i \in 1..Len(s) - 1 : i + 1 \in 1..Len(s)
  BY <1>1
<1>5. ASSUME NEW x \in ToSet(s) PROVE x \in {Head(s)} \cup ToSet(Tail(s))
  <2>1. PICK i \in 1..Len(s) : x = s[i]
    BY <1>2 DEF ToSet
  <2>2. CASE i = 1
    BY <1>1, <2>1, <2>2
  <2>3. CASE i - 1 \in 1..Len(s) - 1
    <3>1. Tail(s)[i - 1] = s[(i - 1) + 1] /\ (i - 1) + 1 = i
      BY <1>1, <2>3
    <3>2. QED BY <1>2, <2>1, <2>3, <3>1 DEF ToSet
  <2>4. QED BY <1>3, <2>2, <2>3
<1>6. ASSUME NEW x \in {Head(s)} \cup ToSet(Tail(s)) PROVE x \in ToSet(s)
  <2>1. CASE x = Head(s)
    BY <1>1, <1>2, <2>1 DEF ToSet
  <2>2. CASE x \in ToSet(Tail(s))
    BY <1>1, <1>2, <1>4, <2>2 DEF ToSet
  <2>3. QED BY <2>1, <2>2
<1>7. QED BY <1>1, <1>5, <1>6

LEMMA Nothing == ToSet(<<>>) = {} /\ \A S : <<>> \in Seq(S)
BY EmptySeq DEF ToSet

(* An order of a finite set has all of it.                                 *)
LEMMA Orders ==
  ASSUME NEW S, IsFiniteSet(S), NEW order \in SetToSeqs(S)
  PROVE  order \in Seq(S) /\ ToSet(order) = S
<1>1. Cardinality(S) \in Nat
  BY FS_CardinalityType
<1>2. order \in [1..Cardinality(S) -> S] /\ order \in Injection(1..Cardinality(S), S)
  BY DEF SetToSeqs, Injection, IsInjective
<1>3. IsFiniteSet(1..Cardinality(S)) /\ Cardinality(1..Cardinality(S)) = Cardinality(S)
  BY <1>1, FS_Interval
<1>4. order \in Surjection(1..Cardinality(S), S)
  BY <1>2, <1>3, FS_Injection
<1>5. order \in Seq(S)
  BY <1>1, <1>2, SeqDef
<1>6. ToSet(order) = S
  BY <1>2, <1>4 DEF ToSet, Surjection
<1>7. QED BY <1>5, <1>6

Extends(s, t, S) == ToSet(s) = ToSet(t) \cup S

(* A directory that is gone into adds itself and what is in it.            *)
LEMMA Enter ==
  ASSUME ConstantsType, exists \subseteq Dir, NEW by \in {"start", "changed"},
         NEW about \in Dir, NEW d \in Dir, NEW found \in Seq(Dir), NEW rest \in Seq(Dir),
         NEW j \in Entered(by, about, d, found, rest)
  PROVE  /\ j \in Listing /\ j.by = by /\ j.step = "list" /\ j.about = about
         /\ Extends(j.dirs, found, {d}) /\ Extends(j.todo, rest, Children(d))
<1>1. PICK order \in SetToSeqs(Children(d)) :
        j = [by |-> by, step |-> "list", about |-> about, dirs |-> Append(found, d),
             todo |-> order \o rest]
  BY DEF Entered
<1>2. IsFiniteSet(Children(d)) /\ Children(d) \subseteq Dir
  BY FS_Subset DEF Children, ConstantsType
<1>3. order \in Seq(Dir) /\ ToSet(order) = Children(d)
  BY <1>2, Orders, SeqMonotonic
<1>4. order \o rest \in Seq(Dir) /\ ToSet(order \o rest) = Children(d) \cup ToSet(rest)
  BY <1>3, Joined
<1>5. Append(found, d) \in Seq(Dir) /\ ToSet(Append(found, d)) = ToSet(found) \cup {d}
  BY Grown
<1>6. QED BY <1>1, <1>4, <1>5 DEF Listing, Extends
-----------------------------------------------------------------------------
(* What a monitor delivers next.                                           *)
LEMMA FirstReport ==
  ASSUME TypeOK, NEW m \in Monitor, events[m] # <<>>
  PROVE  /\ Head(events[m]) \in Report /\ Tail(events[m]) \in Seq(Report)
         /\ Head(events[m]).file \in Dir
         /\ ToSet(events[m]) = {Head(events[m])} \cup ToSet(Tail(events[m]))
<1>1. events[m] \in Seq(Report)
  BY DEF TypeOK, Report
<1>2. /\ Head(events[m]) \in Report /\ Tail(events[m]) \in Seq(Report)
      /\ ToSet(events[m]) = {Head(events[m])} \cup ToSet(Tail(events[m]))
  BY <1>1, UsedUp
<1>3. QED BY <1>2 DEF Report

LEMMA TypeInit == ASSUME ConstantsType, Init PROVE TypeOK
<1>1. Root \in Dir /\ Root \in exists /\ exists \subseteq Dir /\ 0 \in 0..MaxChanges
  BY DEF Init, ConstantsType
<1>2. <<>> \in Seq(Report)
  BY Nothing
<1>3. QED BY <1>1, <1>2 DEF Init, TypeOK, Report

LEMMA TypeStep == ASSUME ConstantsType, TypeOK, [Next]_vars PROVE TypeOK'
<1>1. job \in {NoJob} \cup Listing /\ events \in [Monitor -> Seq(Report)]
  BY DEF TypeOK, Listing, Report
<1>2. Root \in Dir /\ None \notin Dir \cup Monitor /\ MaxChanges \in Nat
  BY DEF ConstantsType
<1>3. ASSUME MayChange, NEW d \in Dir, NEW kind \in {"CREATED", "DELETED"}, NEW ms,
             Reported(d, kind, ms)
      PROVE  events' \in [Monitor -> Seq(Report)] /\ changes' \in 0..MaxChanges
  <2>1. \A m \in Monitor : Append(events[m], [event |-> kind, file |-> d]) \in Seq(Report)
    BY <1>1, Grown DEF Report
  <2>2. changes' \in 0..MaxChanges
    BY <1>2, <1>3 DEF MayChange, TypeOK
  <2>3. QED BY <1>1, <1>3, <2>1, <2>2 DEF Reported
<1>4. ASSUME NEW d \in Dir, Mkdir(d) \/ Rmdir(d) PROVE TypeOK'
  <2>1. events' \in [Monitor -> Seq(Report)] /\ changes' \in 0..MaxChanges
    BY <1>3, <1>4 DEF Mkdir, Rmdir
  <2>2. watch' \in [Monitor -> Dir \cup {None}]
    BY <1>4 DEF Mkdir, Rmdir, TypeOK
  <2>3. Root \in exists' /\ exists' \subseteq Dir /\ untold' \subseteq Dir
    BY <1>4 DEF Mkdir, Rmdir, TypeOK
  <2>4. QED BY <1>4, <2>1, <2>2, <2>3 DEF TypeOK, Mkdir, Rmdir, MayChange, tables, Report, NoJob
<1>5. CASE StartAsync
  <2>1. job' \in Listing
    BY <1>2, <1>5, Enter, Nothing DEF StartAsync, TypeOK
  <2>2. QED BY <1>5, <2>1 DEF TypeOK, StartAsync, fs, gio, tables, Listing
<1>6. CASE Collect
  <2>0. job \in Listing
    BY <1>1, <1>6 DEF Collect, NoJob
  <2>1. Head(job.todo) \in Dir /\ Tail(job.todo) \in Seq(Dir) /\ job.dirs \in Seq(Dir)
    BY <1>6, <2>0, UsedUp DEF Collect, Listing
  <2>2. ASSUME Head(job.todo) \in exists PROVE job' \in Listing
    BY <1>6, <2>0, <2>1, <2>2, Enter DEF Collect, TypeOK, Listing
  <2>3. ASSUME Head(job.todo) \notin exists PROVE job' \in Listing
    BY <1>6, <2>0, <2>1, <2>3 DEF Collect, Listing
  <2>4. QED BY <1>6, <2>2, <2>3 DEF TypeOK, Collect, fs, gio, tables, Listing
<1>7. CASE StartCb \/ CreatedListed
  <2>0. job \in Listing
    BY <1>1, <1>7 DEF StartCb, CreatedListed, NoJob
  <2>1. job' \in {NoJob} \cup Listing
    BY <1>7, <2>0 DEF StartCb, CreatedListed, Listing
  <2>2. QED BY <1>7, <2>1 DEF TypeOK, StartCb, CreatedListed, fs, gio, tables, Listing
<1>8. CASE AttachNext
  <2>0. job \in Listing
    BY <1>1, <1>8 DEF AttachNext, NoJob
  <2>1. job' \in Listing /\ Head(job.dirs) \in Dir
    BY <1>8, <2>0, UsedUp DEF AttachNext, Listing
  <2>2. CASE Skipped(Head(job.dirs))
    BY <1>8, <2>1, <2>2 DEF TypeOK, AttachNext, fs, gio, tables, Listing
  <2>3. CASE ~Skipped(Head(job.dirs))
    <3> PICK d \in Dir : d = Head(job.dirs)
      BY <2>1
    <3>0. Track(d)
      BY <1>8, <2>3 DEF AttachNext
    <3>1. FreeMonitor \in Monitor
      BY <3>0 DEF Track, FreeMonitor
    <3>2. /\ monitors_by_file' \in [Dir -> Monitor \cup {None}]
          /\ files_by_monitor' \in [Monitor -> Dir \cup {None}]
          /\ watch' \in [Monitor -> Dir \cup {None}]
          /\ UNCHANGED events
      <4>1. /\ monitors_by_file \in [Dir -> Monitor \cup {None}]
            /\ files_by_monitor \in [Monitor -> Dir \cup {None}]
            /\ watch \in [Monitor -> Dir \cup {None}]
        BY DEF TypeOK
      <4> HIDE DEF TypeOK
      <4>2. QED BY <3>0, <3>1, <4>1 DEF Track
    <3>3. QED BY <1>8, <2>1, <3>2 DEF TypeOK, AttachNext, fs, Listing
  <2>4. QED BY <2>2, <2>3
<1>9. CASE Attached
  BY <1>9 DEF TypeOK, Attached, fs, gio, tables
<1>10. ASSUME NEW m \in Monitor, events[m] # <<>>
       PROVE  /\ Head(events[m]).file \in Dir /\ Tail(events[m]) \in Seq(Report)
              /\ <<>> \in Seq(Report)
  BY <1>10, FirstReport, Nothing
<1>11. ASSUME NEW m \in Monitor, ChangedDeleted(m) PROVE TypeOK'
  <2>1. events[m] # <<>>
    BY <1>11 DEF ChangedDeleted, DeletedReported, Deliver
  <2>2. events' \in [Monitor -> Seq(Report)]
    BY <1>1, <1>10, <1>11, <2>1 DEF ChangedDeleted, DropQueues
  <2>3. /\ monitors_by_file' \in [Dir -> Monitor \cup {None}]
        /\ files_by_monitor' \in [Monitor -> Dir \cup {None}]
        /\ watch' \in [Monitor -> Dir \cup {None}]
    BY <1>10, <1>11, <2>1 DEF TypeOK, ChangedDeleted, DropQueues
  <2>4. QED BY <1>11, <2>2, <2>3 DEF TypeOK, ChangedDeleted, DeletedReported, fs, Report
<1>12. ASSUME NEW m \in Monitor, ChangedCreated(m) \/ ChangedIgnored(m) PROVE TypeOK'
  <2>1. events[m] # <<>>
    BY <1>12 DEF ChangedCreated, ChangedIgnored, Deliver
  <2>2. events' \in [Monitor -> Seq(Report)]
    BY <1>1, <1>10, <1>12, <2>1 DEF ChangedCreated, ChangedIgnored
  <2>3. job' \in {NoJob} \cup Listing
    <3>1. job' # job => job' \in Entered("changed", Head(events[m]).file, Head(events[m]).file,
                                         <<>>, <<>>)
      BY <1>12 DEF ChangedCreated, ChangedIgnored
    <3>2. ASSUME NEW d \in Dir, NEW j \in Entered("changed", d, d, <<>>, <<>>) PROVE j \in Listing
      <4>1. exists \subseteq Dir /\ <<>> \in Seq(Dir) /\ "changed" \in {"start", "changed"}
        BY Nothing DEF TypeOK
      <4>2. QED BY <4>1, Enter
    <3>3. QED BY <1>1, <1>10, <2>1, <3>1, <3>2
  <2>4. QED BY <1>12, <2>2, <2>3
            DEF TypeOK, ChangedCreated, ChangedIgnored, fs, tables, Report, Listing
<1>13. CASE Cancel
  BY <1>13, Nothing DEF TypeOK, Cancel, fs
<1>14. CASE UNCHANGED vars
  BY <1>14 DEF TypeOK, vars, fs, gio, tables
<1>15. QED BY <1>4, <1>5, <1>6, <1>7, <1>8, <1>9, <1>11, <1>12, <1>13, <1>14 DEF Next
-----------------------------------------------------------------------------
(* A table entry that is made takes a monitor no name leads to; one that   *)
(* is dropped is the only one that leads to its monitor.                   *)
LEMMA TablesStep ==
  ASSUME ConstantsType, TypeOK, TablesAgree, [Next]_vars PROVE TablesAgree'
<1>1. None \notin Dir \cup Monitor
  BY DEF ConstantsType
<1>2. /\ monitors_by_file \in [Dir -> Monitor \cup {None}]
      /\ files_by_monitor \in [Monitor -> Dir \cup {None}]
  BY DEF TypeOK
<1>3. ASSUME UNCHANGED tables PROVE TablesAgree'
  BY <1>3 DEF TablesAgree, tables
<1>4. ASSUME NEW d \in Dir, Track(d) PROVE TablesAgree'
  <2>1. FreeMonitor \in Monitor /\ files_by_monitor[FreeMonitor] = None
    BY <1>4 DEF Track, FreeMonitor
  <2>2. QED BY <1>1, <1>2, <1>4, <2>1 DEF Track, TablesAgree
<1>5. ASSUME NEW m \in Monitor, ChangedDeleted(m) PROVE TablesAgree'
  <2>1. PICK f : f = Head(events[m]).file
    OBVIOUS
  <2>2. PICK gone : gone = {monitors_by_file[f]} \ {None}
    OBVIOUS
  <2>3. /\ monitors_by_file' = [monitors_by_file EXCEPT ![f] = None]
        /\ files_by_monitor' = [i \in Monitor |-> IF i \in gone THEN None ELSE files_by_monitor[i]]
    BY <1>5, <2>1, <2>2 DEF ChangedDeleted
  <2>4. f \in Dir
    BY <1>5, <2>1, FirstReport DEF ChangedDeleted, DeletedReported, Deliver
  <2>5. QED BY <1>1, <1>2, <2>2, <2>3, <2>4 DEF TablesAgree
<1>6. CASE AttachNext
  <2>1. Head(job.dirs) \in Dir
    BY <1>6, UsedUp DEF AttachNext, TypeOK, NoJob
  <2>2. QED BY <1>3, <1>4, <1>6, <2>1 DEF AttachNext
<1>7. CASE Cancel
  BY <1>7 DEF Cancel, TablesAgree
<1>8. ASSUME NEW d \in Dir, Mkdir(d) \/ Rmdir(d) PROVE UNCHANGED tables
  BY <1>8 DEF Mkdir, Rmdir
<1>9. ASSUME NEW m \in Monitor, ChangedCreated(m) \/ ChangedIgnored(m) PROVE UNCHANGED tables
  BY <1>9 DEF ChangedCreated, ChangedIgnored
<1>10. CASE StartAsync \/ Collect \/ StartCb \/ CreatedListed \/ Attached \/ UNCHANGED vars
  BY <1>3, <1>10 DEF StartAsync, Collect, StartCb, CreatedListed, Attached, vars
<1>11. QED BY <1>3, <1>5, <1>6, <1>7, <1>8, <1>9, <1>10 DEF Next

(* Only once the start is answered, and before the cancellation, does a    *)
(* monitor deliver anything, and nothing else runs then.                   *)
LEMMA Delivering ==
  ASSUME Phase, CancelledIsEmpty, NEW m \in Monitor, Deliver(m)
  PROVE  start = "answered" /\ job = NoJob /\ ~cancelled
BY DEF Phase, CancelledIsEmpty, NothingWatched, Deliver, Busy

LEMMA PhaseStep ==
  ASSUME ConstantsType, TypeOK, Phase, CancelledIsEmpty, [Next]_vars
  PROVE  Phase' /\ CancelledIsEmpty'
<1> DEFINE Goal == Phase' /\ CancelledIsEmpty'
<1> USE DEF NoJob
<1>1. ASSUME NEW d \in Dir, Mkdir(d) \/ Rmdir(d) PROVE Goal
  BY <1>1 DEF Phase, CancelledIsEmpty, NothingWatched, Mkdir, Rmdir, tables
<1>2. CASE StartAsync
  <2>1. job'.by = "start" /\ job'.step = "list"
    BY <1>2 DEF StartAsync, Entered
  <2>2. QED BY <1>2, <2>1 DEF Phase, CancelledIsEmpty, NothingWatched, StartAsync, tables
<1>3. CASE Collect
  <2>1. job.by \in {"start", "changed"}
    BY <1>3 DEF Phase, Collect
  <2>2. job'.by = job.by /\ job'.step = "list"
    <3>1. CASE Head(job.todo) \in exists
      BY <1>3, <3>1 DEF Collect, Entered
    <3>2. CASE Head(job.todo) \notin exists
      BY <1>3, <3>2 DEF Collect, TypeOK
    <3>3. QED BY <3>1, <3>2
  <2>3. QED BY <1>3, <2>1, <2>2 DEF Phase, CancelledIsEmpty, NothingWatched, Collect, tables
<1>4. CASE StartCb \/ CreatedListed
  BY <1>4 DEF Phase, CancelledIsEmpty, NothingWatched, StartCb, CreatedListed, tables, TypeOK
<1>5. CASE AttachNext
  <2>1. ~cancelled /\ job'.by = job.by /\ job'.step = "attach" /\ job'.todo = job.todo
    BY <1>5 DEF Phase, AttachNext, TypeOK
  <2>2. QED BY <1>5, <2>1 DEF Phase, CancelledIsEmpty, AttachNext
<1>6. CASE Attached
  BY <1>6 DEF Phase, CancelledIsEmpty, NothingWatched, Attached, tables
<1>7. ASSUME NEW m \in Monitor, ChangedDeleted(m) PROVE Goal
  <2>1. Deliver(m)
    BY <1>7 DEF ChangedDeleted, DeletedReported
  <2>2. QED BY <1>7, <2>1, Delivering
            DEF Phase, CancelledIsEmpty, ChangedDeleted, DeletedReported
<1>8. ASSUME NEW m \in Monitor, ChangedCreated(m) PROVE Goal
  <2>1. Deliver(m) /\ Head(events[m]).file \in Dir
    BY <1>8, FirstReport DEF ChangedCreated, Deliver
  <2>2. start = "answered" /\ job = NoJob /\ ~cancelled
    BY <2>1, Delivering
  <2>3. job' # job => job'.by = "changed" /\ job'.step = "list"
    <3>1. job' # job => job' \in Entered("changed", Head(events[m]).file, Head(events[m]).file,
                                         <<>>, <<>>)
      BY <1>8 DEF ChangedCreated
    <3>2. QED BY <3>1 DEF Entered
  <2>4. QED BY <1>8, <2>2, <2>3 DEF Phase, CancelledIsEmpty, ChangedCreated
<1>9. ASSUME NEW m \in Monitor, ChangedIgnored(m) PROVE Goal
  BY <1>9 DEF Phase, CancelledIsEmpty, NothingWatched, ChangedIgnored, tables
<1>10. CASE Cancel
  BY <1>10 DEF Phase, CancelledIsEmpty, NothingWatched, Cancel, Busy
<1>11. CASE UNCHANGED vars
  BY <1>11 DEF Phase, CancelledIsEmpty, NothingWatched, vars, tables
<1>12. QED BY <1>1, <1>2, <1>3, <1>4, <1>5, <1>6, <1>7, <1>8, <1>9, <1>10, <1>11 DEF Next

LEMMA SilentStep ==
  ASSUME Phase, CancelledIsEmpty, cancelled, [Next]_vars
  PROVE  UNCHANGED emitted
<1>1. \A m \in Monitor : ~Deliver(m)
  BY Delivering
<1>2. job.step # "attach"
  BY DEF Phase, NoJob
<1>3. QED BY <1>1, <1>2
          DEF Next, Mkdir, Rmdir, StartAsync, Collect, StartCb, CreatedListed, AttachNext, Attached,
              ChangedDeleted, DeletedReported, ChangedCreated, ChangedIgnored, Cancel, vars
-----------------------------------------------------------------------------
(* Ancestors is what its definition says: there is such a function.        *)
LEMMA AncestorsAre ==
  ASSUME ConstantsType
  PROVE  Ancestors = [d \in Dir |-> IF d = Root THEN {} ELSE {Parent[d]} \cup Ancestors[Parent[d]]]
<1> DEFINE Closed(S) == \A x \in S \ {Root} : Parent[x] \in S
           Above(d) == {a \in Dir : \A S \in SUBSET Dir : Parent[d] \in S /\ Closed(S) => a \in S}
           A == [d \in Dir |-> IF d = Root THEN {} ELSE Above(d)]
<1>1. Parent \in [Dir \ {Root} -> Dir] /\ Root \in Dir
  BY DEF ConstantsType
<1>2. ASSUME NEW d \in Dir \ {Root} PROVE Above(d) = {Parent[d]} \cup A[Parent[d]]
  <2>1. Parent[d] \in Dir
    BY <1>1
  <2>2. {Parent[d]} \cup A[Parent[d]] \subseteq Above(d)
    BY <1>1, <2>1
  <2>3. Closed({Parent[d]} \cup A[Parent[d]])
    BY <1>1, <2>1
  <2>4. {Parent[d]} \cup A[Parent[d]] \in SUBSET Dir
    BY <1>1, <2>1
  <2>5. Above(d) \subseteq {Parent[d]} \cup A[Parent[d]]
    BY <2>3, <2>4
  <2>6. QED BY <2>2, <2>5
<1>3. A = [d \in Dir |-> IF d = Root THEN {} ELSE {Parent[d]} \cup A[Parent[d]]]
  BY <1>2
<1>4. QED BY <1>3 DEF Ancestors

LEMMA Relevance ==
  ASSUME ConstantsType
  PROVE  /\ Relevant(Root)
         /\ \A d \in Dir : Relevant(d) => d \notin Ignored
         /\ \A d \in Dir \ {Root} : Relevant(d) => Relevant(Parent[d])
         /\ \A d \in Dir : Skipped(d) => ~Relevant(d)
<1>1. Parent \in [Dir \ {Root} -> Dir] /\ Root \in Dir /\ Root \notin Ignored
  BY DEF ConstantsType
<1>2. Ancestors[Root] = {}
  BY <1>1, AncestorsAre
<1>3. \A d \in Dir \ {Root} : Ancestors[d] = {Parent[d]} \cup Ancestors[Parent[d]]
  BY AncestorsAre
<1>4. QED BY <1>1, <1>2, <1>3 DEF Relevant, Skipped
-----------------------------------------------------------------------------
(* Each step in turn keeps what is followed, and the tree.                 *)
LEMMA Basics ==
  ASSUME ConstantsType, TypeOK
  PROVE  /\ Root \in Dir /\ None \notin Dir /\ None \notin Monitor
         /\ Parent \in [Dir \ {Root} -> Dir] /\ Root \notin Ignored
         /\ Root \in exists /\ exists \subseteq Dir /\ untold \subseteq Dir
         /\ watch \in [Monitor -> Dir \cup {None}]
         /\ events \in [Monitor -> Seq(Report)]
         /\ monitors_by_file \in [Dir -> Monitor \cup {None}]
         /\ files_by_monitor \in [Monitor -> Dir \cup {None}]
         /\ job \in {NoJob} \cup Listing
         /\ NoJob.todo = <<>> /\ NoJob.dirs = <<>>
BY DEF ConstantsType, TypeOK, Report, Listing, NoJob

(* A report that is queued is added to what is there.                      *)
LEMMA Queued ==
  ASSUME TypeOK, NEW d \in Dir, NEW kind \in {"CREATED", "DELETED"}, NEW ms, Reported(d, kind, ms)
  PROVE  \A m \in Monitor : Has(m)' = IF m \in ms THEN Has(m) \cup {Event(kind, d)} ELSE Has(m)
<1>1. events \in [Monitor -> Seq(Report)] /\ [event |-> kind, file |-> d] \in Report
  BY DEF TypeOK, Report
<1>2. ASSUME NEW m \in Monitor
      PROVE  ToSet(Append(events[m], [event |-> kind, file |-> d])) =
               ToSet(events[m]) \cup {[event |-> kind, file |-> d]}
  BY <1>1, Grown
<1>3. QED BY <1>2 DEF Reported, Has, Event

LEMMA MkdirStep ==
  ASSUME ConstantsType, TypeOK, Tree, Followed, NEW d \in Dir, Mkdir(d)
  PROVE  Followed'
<1>1. /\ d \notin exists /\ exists' = exists \cup {d}
      /\ UNCHANGED <<watch, monitors_by_file, files_by_monitor, start, job>>
  BY DEF Mkdir, tables
<1>2. \A m \in Monitor : Has(m)' = IF watch[m] = Parent[d] THEN Has(m) \cup {Event("CREATED", d)}
                                                           ELSE Has(m)
  BY Queued DEF Mkdir
<1>3. Dirs' = Dirs /\ Todo' = Todo
  BY <1>1 DEF Dirs, Todo
<1>4. Parent[d] \in exists /\ Parent[d] # d /\ d # Root
  BY <1>1, Basics DEF Mkdir
<1>5. \A e : e # d => (e \in untold' <=> e \in untold)
  BY DEF Mkdir
<1>6. d \notin untold' => /\ monitors_by_file[d] = None /\ d \notin Dirs /\ Parent[d] \notin Dirs
                         /\ \A m \in Monitor, kind \in {"CREATED", "DELETED"} :
                              Event(kind, d) \notin Has(m)
  BY DEF Mkdir, InUse, Dirs, Has, Event
<1>7. \A e \in exists \ {Root} : Parent[e] # d /\ Parent[e] \in Dir
  BY <1>1, Basics DEF Tree
<1>8. Known' /\ RootWatched' /\ Current'
  BY <1>1, <1>3, <1>4, <1>5, <1>6 DEF Followed, Known, Current, RootWatched
<1>9. Gone'
  <2>1. SUFFICES ASSUME NEW m \in Monitor, NEW e \in Dir \ untold', Event("DELETED", e) \in Has(m)'
                 PROVE  e \notin exists'
    BY DEF Gone
  <2>2. Event("DELETED", e) # Event("CREATED", d)
    BY DEF Event
  <2>3. Event("DELETED", e) \in Has(m)
    BY <1>2, <2>1, <2>2
  <2>4. e # d
    BY <1>6, <2>1, <2>3
  <2>5. QED BY <1>1, <1>5, <2>3, <2>4 DEF Followed, Gone
<1>10. Farewell'
  <2>1. SUFFICES ASSUME NEW e \in Dir \ (exists' \cup Ignored \cup untold'), monitors_by_file[e] # None
                 PROVE  Event("DELETED", e) \in Has(monitors_by_file[e])'
    BY <1>1 DEF Farewell
  <2>2. e # d /\ e \notin untold /\ monitors_by_file[e] \in Monitor
    BY <1>1, <1>5, <2>1, Basics
  <2>3. Event("DELETED", e) \in Has(monitors_by_file[e])
    BY <1>1, <2>1, <2>2 DEF Followed, Farewell
  <2>4. monitors_by_file'[e] = monitors_by_file[e]
    BY <1>1
  <2>5. QED BY <1>2, <2>2, <2>3, <2>4
<1>11. Listed'
  <2>1. SUFFICES ASSUME NEW e \in Entries', Relevant(e), Parent[e] \in Dirs PROVE Covered(e)
    BY <1>1, <1>3 DEF Listed, Relevant, Covered
  <2>2. e # d
    BY <1>6, <2>1 DEF Entries
  <2>3. e \in Entries
    BY <1>1, <1>5, <2>1, <2>2 DEF Entries
  <2>4. QED BY <2>1, <2>3 DEF Followed, Listed
<1>12. Noticed'
  <2>1. SUFFICES ASSUME NEW e \in Entries', Relevant(e), Parent[e] \notin untold',
                        monitors_by_file[Parent[e]] # None
                 PROVE  Covered(e) \/ Event("CREATED", e) \in Has(monitors_by_file[Parent[e]])'
    BY <1>1, <1>3 DEF Noticed, Relevant, Reports, Covered
  <2>2. UNCHANGED monitors_by_file
    BY <1>1
  <2>3. CASE e = d
    <3>1. Parent[d] \notin untold /\ Parent[d] \in Dir
      BY <1>4, <1>5, <2>1, <2>3, Basics
    <3>2. watch[monitors_by_file[Parent[d]]] = Parent[d] /\ monitors_by_file[Parent[d]] \in Monitor
      BY <1>4, <2>1, <2>3, <3>1, Basics DEF Followed, Current
    <3>3. QED BY <1>2, <2>2, <2>3, <3>2
  <2>4. CASE e # d
    <3>1. e \in Entries /\ Parent[e] # d /\ Parent[e] \in Dir
      BY <1>1, <1>5, <1>7, <2>1, <2>4 DEF Entries
    <3>2. Covered(e) \/ Event("CREATED", e) \in Has(monitors_by_file[Parent[e]])
      BY <1>5, <2>1, <3>1 DEF Followed, Noticed, Reports
    <3>3. monitors_by_file[Parent[e]] \in Monitor
      BY <2>1, <3>1, Basics
    <3>4. QED BY <1>2, <2>2, <3>2, <3>3
  <2>5. QED BY <2>3, <2>4
<1>13. QED BY <1>8, <1>9, <1>10, <1>11, <1>12 DEF Followed

LEMMA RmdirStep ==
  ASSUME ConstantsType, TypeOK, Tree, Followed, NEW d \in Dir, Rmdir(d)
  PROVE  Followed'
<1>1. /\ d \in exists \ {Root} /\ exists' = exists \ {d}
      /\ watch' = [m \in Monitor |-> IF watch[m] = d THEN None ELSE watch[m]]
      /\ UNCHANGED <<monitors_by_file, files_by_monitor, start, job>>
  BY DEF Rmdir, tables
<1>2. \A m \in Monitor : Has(m)' = IF watch[m] \in {Parent[d], d}
                                   THEN Has(m) \cup {Event("DELETED", d)} ELSE Has(m)
  BY Queued DEF Rmdir
<1>3. Dirs' = Dirs /\ Todo' = Todo
  BY <1>1 DEF Dirs, Todo
<1>4. untold \subseteq untold' /\ untold' \subseteq untold \cup {d} /\ (d \in Dirs => d \in untold')
  BY DEF Rmdir, Dirs
<1>5. Known' /\ RootWatched'
  BY <1>1, <1>3, <1>4 DEF Followed, Known, RootWatched
<1>6. Current'
  BY <1>1, <1>4, Basics DEF Followed, Current
<1>7. Gone'
  <2>1. SUFFICES ASSUME NEW m \in Monitor, NEW e \in Dir \ untold', Event("DELETED", e) \in Has(m)'
                 PROVE  e \notin exists'
    BY DEF Gone
  <2>2. CASE e = d
    BY <1>1, <2>2
  <2>3. CASE e # d
    <3>1. Event("DELETED", e) # Event("DELETED", d)
      BY <2>3 DEF Event
    <3>2. QED BY <1>1, <1>2, <1>4, <2>1, <3>1 DEF Followed, Gone
  <2>4. QED BY <2>2, <2>3
<1>8. Farewell'
  <2>1. SUFFICES ASSUME NEW e \in Dir \ (exists' \cup Ignored \cup untold'), monitors_by_file[e] # None
                 PROVE  Event("DELETED", e) \in Has(monitors_by_file[e])'
    BY <1>1 DEF Farewell
  <2>2. e \notin untold /\ monitors_by_file[e] \in Monitor /\ monitors_by_file'[e] = monitors_by_file[e]
    BY <1>1, <1>4, <2>1, Basics
  <2>3. CASE e = d
    BY <1>1, <1>2, <2>1, <2>2, <2>3 DEF Followed, Current
  <2>4. CASE e # d
    <3>1. Event("DELETED", e) \in Has(monitors_by_file[e])
      BY <1>1, <2>1, <2>2, <2>4 DEF Followed, Farewell
    <3>2. QED BY <1>2, <2>2, <3>1
  <2>5. QED BY <2>3, <2>4
<1>9. Entries' \subseteq Entries
  BY <1>1, <1>4 DEF Entries
<1>10. Listed'
  BY <1>1, <1>3, <1>9 DEF Followed, Listed, Covered, Relevant
<1>11. Noticed'
  <2>1. SUFFICES ASSUME NEW e \in Entries', Relevant(e), Parent[e] \notin untold',
                        monitors_by_file[Parent[e]] # None
                 PROVE  Covered(e) \/ Event("CREATED", e) \in Has(monitors_by_file[Parent[e]])'
    BY <1>1, <1>3 DEF Noticed, Relevant, Reports, Covered
  <2>2. e \in Entries /\ Parent[e] \in Dir
    BY <1>9, <2>1, Basics DEF Entries
  <2>3. monitors_by_file[Parent[e]] \in Monitor /\ UNCHANGED monitors_by_file
    BY <1>1, <2>1, <2>2, Basics
  <2>4. Covered(e) \/ Event("CREATED", e) \in Has(monitors_by_file[Parent[e]])
    BY <1>4, <2>1, <2>2 DEF Followed, Noticed, Reports
  <2>5. QED BY <1>2, <2>3, <2>4
<1>12. QED BY <1>5, <1>6, <1>7, <1>8, <1>10, <1>11 DEF Followed

LEMMA StartStep ==
  ASSUME ConstantsType, TypeOK, TablesAgree, Phase, Tree, Followed, StartAsync
  PROVE  Followed'
<1>1. \A d \in Dir : monitors_by_file[d] = None
  BY Basics DEF Phase, NothingWatched, TablesAgree, StartAsync
<1>2. Dirs' = {Root} /\ Todo' = Children(Root)
  <2>1. job' \in Entered("start", Root, Root, <<>>, <<>>) /\ <<>> \in Seq(Dir)
    BY Nothing DEF StartAsync
  <2>0. Root \in Dir /\ exists \subseteq Dir /\ "start" \in {"start", "changed"}
    BY Basics
  <2>2. Extends(job'.dirs, <<>>, {Root}) /\ Extends(job'.todo, <<>>, Children(Root))
    BY <2>0, <2>1, Enter
  <2>3. QED BY <2>2, Nothing DEF Dirs, Todo, Extends
<1>3. UNCHANGED <<exists, untold, watch, events, monitors_by_file>>
  BY DEF StartAsync, fs, gio, tables
<1>4. Known' /\ Gone'
  BY <1>1, <1>2, <1>3, Basics DEF Followed, Known, Gone, Has, Children
<1>5. Current' /\ Farewell' /\ RootWatched' /\ Noticed'
  BY <1>1, <1>2, <1>3, Basics DEF Current, Farewell, RootWatched, Noticed, Reports, Entries
<1>6. Listed'
  BY <1>2, <1>3, Basics DEF Listed, Covered, Children, Entries
<1>7. QED BY <1>4, <1>5, <1>6 DEF Followed

LEMMA CollectStep ==
  ASSUME ConstantsType, TypeOK, Phase, Tree, Followed, Collect
  PROVE  Followed'
<1>1. PICK h \in Dir : /\ h = Head(job.todo)
                       /\ Todo = {h} \cup ToSet(Tail(job.todo))
                       /\ Tail(job.todo) \in Seq(Dir) /\ job \in Listing
  <2>1. job \in Listing
    BY Basics DEF Collect, NoJob
  <2>2. /\ Head(job.todo) \in Dir /\ Tail(job.todo) \in Seq(Dir)
        /\ Todo = {Head(job.todo)} \cup ToSet(Tail(job.todo))
    BY <2>1, UsedUp DEF Collect, Listing, Todo
  <2>3. QED BY <2>1, <2>2
<1>2. \/ h \in exists /\ Dirs' = Dirs \cup {h} /\ Todo' = ToSet(Tail(job.todo)) \cup Children(h)
      \/ h \notin exists /\ Dirs' = Dirs /\ Todo' = ToSet(Tail(job.todo))
  <2>1. ASSUME h \in exists
        PROVE  Dirs' = Dirs \cup {h} /\ Todo' = ToSet(Tail(job.todo)) \cup Children(h)
    <3>1. job' \in Entered(job.by, job.about, h, job.dirs, Tail(job.todo))
      BY <1>1, <2>1 DEF Collect
    <3>2. job.by \in {"start", "changed"} /\ job.about \in Dir /\ job.dirs \in Seq(Dir)
      BY <1>1 DEF Listing
    <3>3. exists \subseteq Dir
      BY Basics
    <3>4. PICK rest \in Seq(Dir) : rest = Tail(job.todo)
      BY <1>1
    <3>5. Extends(job'.dirs, job.dirs, {h}) /\ Extends(job'.todo, rest, Children(h))
      BY <3>1, <3>2, <3>3, <3>4, Enter
    <3>6. QED BY <3>4, <3>5 DEF Dirs, Todo, Extends
  <2>2. ASSUME h \notin exists PROVE Dirs' = Dirs /\ Todo' = ToSet(Tail(job.todo))
    BY <1>1, <2>2 DEF Collect, Dirs, Todo, Listing
  <2>3. QED BY <2>1, <2>2
<1>3. UNCHANGED <<exists, untold, watch, events, monitors_by_file, start>>
  BY DEF Collect, fs, gio, tables
<1>4. Known' /\ Gone' /\ Current' /\ Farewell'
  BY <1>1, <1>2, <1>3 DEF Followed, Known, Gone, Current, Farewell, Has
<1>5. ASSUME NEW e \in exists, Covered(e) PROVE Covered(e)'
  BY <1>1, <1>2, <1>3, <1>5 DEF Covered
<1>6. RootWatched' /\ Noticed'
  BY <1>2, <1>3, <1>5 DEF Followed, RootWatched, Noticed, Has, Relevant, Reports, Entries
<1>7. Listed'
  <2>1. SUFFICES ASSUME NEW e \in Entries, Relevant(e), Parent[e] \in Dirs' PROVE Covered(e)'
    BY <1>3 DEF Listed, Relevant, Entries
  <2>2. e \in exists \ {Root}
    BY <2>1 DEF Entries
  <2>3. CASE Parent[e] \in Dirs
    BY <1>5, <2>1, <2>2, <2>3 DEF Followed, Listed
  <2>4. CASE Parent[e] \notin Dirs
    BY <1>2, <2>1, <2>2, <2>4 DEF Covered, Children
  <2>5. QED BY <2>3, <2>4
<1>8. QED BY <1>4, <1>6, <1>7 DEF Followed

LEMMA AttachStep ==
  ASSUME ConstantsType, TypeOK, TablesAgree, Phase, Tree, Followed, AttachNext
  PROVE  Followed'
<1>1. PICK h \in Dir : h = Head(job.dirs) /\ h \in exists \cup untold /\ Dirs = {h} \cup Dirs'
  <2>1. job \in Listing /\ job.dirs # <<>> /\ job'.dirs = Tail(job.dirs)
    BY Basics DEF AttachNext, NoJob, Listing
  <2>2. job.dirs \in Seq(Dir)
    BY <2>1 DEF Listing
  <2>3. Head(job.dirs) \in Dir /\ ToSet(job.dirs) = {Head(job.dirs)} \cup ToSet(Tail(job.dirs))
    BY <2>1, <2>2, UsedUp
  <2>4. Dirs = {Head(job.dirs)} \cup Dirs'
    BY <2>1, <2>3 DEF Dirs
  <2>5. QED BY <2>3, <2>4 DEF Followed, Known
<1>2. Todo' = Todo
  BY Basics DEF AttachNext, Todo, NoJob, Listing
<1>3. UNCHANGED <<exists, untold, events, start>> /\ \A m \in Monitor : Has(m)' = Has(m)
  BY DEF AttachNext, fs, gio, tables, Track, Has
<1>4. Known' /\ Gone'
  BY <1>1, <1>3 DEF Followed, Known, Gone
<1>5. CASE Skipped(h)
  <2>1. UNCHANGED <<watch, monitors_by_file>> /\ ~Relevant(h) /\ h # Root
    BY <1>1, <1>5, Relevance DEF AttachNext, tables, gio
  <2>2. Current' /\ Farewell' /\ RootWatched'
    BY <1>1, <1>2, <1>3, <2>1, Basics
       DEF Followed, Current, Farewell, RootWatched
  <2>3. Listed' /\ Noticed'
    <3>1. ASSUME NEW e \in exists \ {Root}, Relevant(e), Covered(e) PROVE Covered(e)'
      BY <1>1, <1>2, <2>1, <3>1 DEF Covered
    <3>2. Listed'
      BY <1>1, <1>3, <3>1 DEF Followed, Listed, Relevant, Entries
    <3>3. Noticed'
      <4>1. SUFFICES ASSUME NEW e \in Entries, Relevant(e), Reports(e)
                     PROVE  Covered(e)' \/ Event("CREATED", e) \in Has(monitors_by_file[Parent[e]])'
        BY <1>3, <2>1 DEF Noticed, Relevant, Entries, Reports
      <4>2. monitors_by_file[Parent[e]] \in Monitor /\ e \in exists \ {Root}
        BY <4>1, Basics DEF Reports, Entries
      <4>3. Covered(e) \/ Event("CREATED", e) \in Has(monitors_by_file[Parent[e]])
        BY <4>1 DEF Followed, Noticed
      <4>4. QED BY <1>3, <2>1, <3>1, <4>1, <4>2, <4>3
    <3>4. QED BY <3>2, <3>3
  <2>4. QED BY <1>4, <2>2, <2>3 DEF Followed
<1>6. CASE ~Skipped(h)
  <2>1. PICK F \in Monitor :
          /\ files_by_monitor[F] = None
          /\ monitors_by_file' = [monitors_by_file EXCEPT ![h] = F]
          /\ watch' = [watch EXCEPT ![F] = IF h \in exists THEN h ELSE None]
    BY <1>1, <1>6 DEF AttachNext, Track, FreeMonitor
  <2>2. /\ monitors_by_file'[h] = F /\ F # None /\ (h \in exists => watch'[F] = h)
        /\ \A e \in Dir \ {h} : monitors_by_file'[e] = monitors_by_file[e]
    BY <2>1, Basics
  <2>3. \A e \in Dir : monitors_by_file[e] # None => monitors_by_file[e] \in Monitor \ {F}
    BY <2>1, Basics DEF TablesAgree
  <2>4. RootWatched'
    BY <1>1, <1>3, <2>2, Basics DEF Followed, RootWatched
  <2>5. Current'
    <3>1. SUFFICES ASSUME NEW e \in exists \ untold, monitors_by_file'[e] # None
                   PROVE  watch'[monitors_by_file'[e]] = e
      BY <1>3 DEF Current
    <3>2. CASE e = h
      BY <2>2, <3>2
    <3>3. CASE e # h
      <4>1. /\ monitors_by_file'[e] = monitors_by_file[e] /\ monitors_by_file[e] \in Monitor \ {F}
            /\ watch[monitors_by_file[e]] = e
        BY <2>2, <2>3, <3>1, <3>3, Basics DEF Followed, Current
      <4>2. QED BY <2>1, <4>1, Basics
    <3>4. QED BY <3>2, <3>3
  <2>6. Farewell'
    <3>1. SUFFICES ASSUME NEW e \in Dir \ (exists \cup Ignored \cup untold), monitors_by_file'[e] # None
                   PROVE  Event("DELETED", e) \in Has(monitors_by_file[e])'
      BY <1>3 DEF Farewell
    <3>2. monitors_by_file'[e] = monitors_by_file[e] /\ monitors_by_file[e] \in Monitor
      BY <1>1, <2>2, <3>1, Basics
    <3>3. Event("DELETED", e) \in Has(monitors_by_file[e])
      BY <3>1, <3>2 DEF Followed, Farewell
    <3>4. QED BY <1>3, <3>2, <3>3
  <2>7. ASSUME NEW e \in exists, Covered(e) PROVE Covered(e)'
    BY <1>1, <1>2, <2>2, <2>7, Basics DEF Covered
  <2>8. Listed'
    BY <1>1, <1>3, <2>7 DEF Followed, Listed, Relevant, Entries
  <2>9. Noticed'
    <3>1. SUFFICES ASSUME NEW e \in Entries, Relevant(e), Reports(e)'
                   PROVE  Covered(e)' \/ Event("CREATED", e) \in Has(monitors_by_file[Parent[e]])'
      BY <1>3 DEF Noticed, Relevant, Entries
    <3>2. e \in exists \ {Root}
      BY <3>1 DEF Entries
    <3>3. CASE Parent[e] = h
      BY <1>1, <2>7, <3>1, <3>2, <3>3 DEF Followed, Listed
    <3>4. CASE Parent[e] # h
      <4>1. Parent[e] \in Dir /\ monitors_by_file'[Parent[e]] = monitors_by_file[Parent[e]]
        BY <2>2, <3>2, <3>4, Basics
      <4>2. monitors_by_file[Parent[e]] \in Monitor /\ Reports(e)
        BY <1>3, <3>1, <4>1, Basics DEF Reports
      <4>3. Covered(e) \/ Event("CREATED", e) \in Has(monitors_by_file[Parent[e]])
        BY <3>1, <4>2 DEF Followed, Noticed
      <4>4. QED BY <1>3, <2>7, <3>2, <4>1, <4>2, <4>3
    <3>5. QED BY <3>3, <3>4
  <2>10. QED BY <1>4, <2>4, <2>5, <2>6, <2>8, <2>9 DEF Followed
<1>7. QED BY <1>5, <1>6

(* The steps of a job that find and attach nothing.                        *)
LEMMA JobStep ==
  ASSUME ConstantsType, TypeOK, Phase, Followed, ~cancelled,
         StartCb \/ CreatedListed \/ Attached
  PROVE  Followed'
<1>1. Dirs' = Dirs /\ Todo' = Todo
  <2>1. job'.dirs = job.dirs /\ job'.todo = job.todo
    BY Basics DEF StartCb, CreatedListed, Attached, Phase, NoJob, Listing
  <2>2. QED BY <2>1 DEF Dirs, Todo
<1>2. UNCHANGED <<exists, untold, watch, events, monitors_by_file>>
  BY DEF StartCb, CreatedListed, Attached, fs, gio, tables
<1>3. start # "none"
  BY DEF StartCb, CreatedListed, Attached, Phase, NoJob
<1>4. Known' /\ Gone' /\ Current' /\ Farewell'
  BY <1>1, <1>2 DEF Followed, Known, Gone, Current, Farewell, Has
<1>5. RootWatched' /\ Listed' /\ Noticed'
  BY <1>1, <1>2, <1>3 DEF Followed, RootWatched, Listed, Noticed, Covered, Has, Relevant, Reports, Entries
<1>6. QED BY <1>4, <1>5 DEF Followed

(* What is left when a monitor has delivered, and some were cancelled.     *)
LEMMA Delivered ==
  ASSUME TypeOK, NEW m \in Monitor, events[m] # <<>>, NEW gone,
         \A i \in Monitor : events'[i] = IF i \in gone THEN <<>>
                                         ELSE IF i = m THEN Tail(events[i]) ELSE events[i]
  PROVE  \A i \in Monitor : /\ Has(i)' \subseteq Has(i)
                            /\ i \notin gone => Has(i) \subseteq Has(i)' \cup {Head(events[m])}
<1>1. ToSet(events[m]) = {Head(events[m])} \cup ToSet(Tail(events[m]))
  BY FirstReport
<1>2. TAKE i \in Monitor
<1>3. CASE i \in gone
  BY <1>3, Nothing DEF Has
<1>4. CASE i \notin gone /\ i = m
  BY <1>1, <1>4 DEF Has
<1>5. CASE i \notin gone /\ i # m
  BY <1>5 DEF Has
<1>6. QED BY <1>3, <1>4, <1>5

LEMMA DeletedStep ==
  ASSUME ConstantsType, TypeOK, TablesAgree, Phase, CancelledIsEmpty, Tree, Followed,
         NEW m \in Monitor, ChangedDeleted(m)
  PROVE  Followed'
<1>1. Deliver(m) /\ events[m] # <<>>
  BY DEF ChangedDeleted, DeletedReported, Deliver
<1>2. PICK f \in Dir : f = Head(events[m]).file /\ Head(events[m]) = Event("DELETED", f)
  <2>1. Head(events[m]) \in Report /\ Head(events[m]).event = "DELETED"
    BY <1>1, FirstReport DEF ChangedDeleted, DeletedReported
  <2>2. QED BY <2>1 DEF Report, Event
<1>3. (f \in untold \/ f \notin exists) /\ f # Root
  <2>1. Event("DELETED", f) \in Has(m)
    BY <1>1, <1>2, FirstReport DEF Has
  <2>2. QED BY <2>1, Basics DEF Followed, Gone, Known
<1>4. Dirs = {} /\ Todo = {} /\ Dirs' = {} /\ Todo' = {}
  BY <1>1, Delivering, Nothing DEF ChangedDeleted, DeletedReported, NoJob, Dirs, Todo
<1>5. PICK gone : gone = {monitors_by_file[f]} \ {None}
  OBVIOUS
<1>6. /\ monitors_by_file' = [monitors_by_file EXCEPT ![f] = None]
      /\ watch' = [i \in Monitor |-> IF i \in gone THEN None ELSE watch[i]]
      /\ events' = [i \in Monitor |-> IF i \in gone THEN <<>>
                                      ELSE IF i = m THEN Tail(events[i]) ELSE events[i]]
      /\ UNCHANGED <<exists, untold, start>>
  BY <1>2, <1>5 DEF ChangedDeleted, DeletedReported, DropQueues, fs
<1>7. \A i \in Monitor : /\ Has(i)' \subseteq Has(i)
                         /\ i \notin gone => Has(i) \subseteq Has(i)' \cup {Event("DELETED", f)}
  BY <1>1, <1>2, <1>6, Delivered
<1>8. /\ monitors_by_file'[f] = None
      /\ \A e \in Dir \ {f} : /\ monitors_by_file'[e] = monitors_by_file[e]
                              /\ monitors_by_file[e] # None => monitors_by_file[e] \in Monitor \ gone
  BY <1>5, <1>6, Basics DEF TablesAgree
<1>9. Known' /\ RootWatched' /\ Listed'
  BY <1>3, <1>4, <1>6, <1>8, Basics DEF Followed, Known, RootWatched, Listed
<1>10. Gone'
  BY <1>6, <1>7 DEF Followed, Gone
<1>11. Current'
  BY <1>3, <1>6, <1>8, Basics DEF Followed, Current
<1>12. Farewell'
  <2>1. SUFFICES ASSUME NEW e \in Dir \ (exists \cup Ignored \cup untold), monitors_by_file'[e] # None
                 PROVE  Event("DELETED", e) \in Has(monitors_by_file[e])'
    BY <1>6 DEF Farewell
  <2>2. e # f /\ monitors_by_file'[e] = monitors_by_file[e] /\ monitors_by_file[e] \in Monitor \ gone
    BY <1>8, <2>1
  <2>3. Event("DELETED", e) \in Has(monitors_by_file[e]) /\ Event("DELETED", e) # Event("DELETED", f)
    BY <2>1, <2>2 DEF Followed, Farewell, Event
  <2>4. QED BY <1>7, <2>2, <2>3 DEF Has
<1>13. Noticed'
  <2>1. SUFFICES ASSUME NEW e \in Entries, Relevant(e), Reports(e)'
                 PROVE  Covered(e)' \/ Event("CREATED", e) \in Has(monitors_by_file[Parent[e]])'
    BY <1>6 DEF Noticed, Relevant, Entries
  <2>2. Parent[e] \in Dir \ {f} /\ e \in Dir \ {f}
    BY <1>3, <1>8, <2>1, Basics DEF Entries, Reports
  <2>3. /\ monitors_by_file'[e] = monitors_by_file[e]
        /\ monitors_by_file'[Parent[e]] = monitors_by_file[Parent[e]]
        /\ monitors_by_file[Parent[e]] \in Monitor \ gone
        /\ Reports(e)
    BY <1>6, <1>8, <2>1, <2>2 DEF Reports
  <2>4. Covered(e) \/ Event("CREATED", e) \in Has(monitors_by_file[Parent[e]])
    BY <2>1, <2>3 DEF Followed, Noticed
  <2>5. Event("CREATED", e) # Event("DELETED", f)
    BY DEF Event
  <2>6. QED BY <1>4, <1>7, <2>3, <2>4, <2>5 DEF Covered, Has
<1>14. QED BY <1>9, <1>10, <1>11, <1>12, <1>13 DEF Followed

LEMMA CreatedStep ==
  ASSUME ConstantsType, TypeOK, TablesAgree, Phase, CancelledIsEmpty, Tree, Followed,
         NEW m \in Monitor, ChangedCreated(m) \/ ChangedIgnored(m)
  PROVE  Followed'
<1>1. Deliver(m) /\ events[m] # <<>>
  BY DEF ChangedCreated, ChangedIgnored, Deliver
<1>2. PICK f \in Dir, kind \in {"CREATED", "DELETED"} :
        f = Head(events[m]).file /\ Head(events[m]) = Event(kind, f)
  BY <1>1, FirstReport DEF Report, Event
<1>3. f \in Ignored \/ kind = "CREATED"
  BY <1>2 DEF ChangedCreated, ChangedIgnored, Event
<1>4. Dirs = {} /\ Todo = {} /\ job = NoJob
  BY <1>1, Delivering, Nothing DEF NoJob, Dirs, Todo
<1>5. \/ Dirs' = {} /\ Todo' = {} /\ (f \in Ignored \/ f \notin exists)
      \/ Dirs' = {f} /\ Todo' = Children(f) /\ f \in exists
  <2>1. ASSUME job' \in Entered("changed", f, f, <<>>, <<>>)
        PROVE  Dirs' = {f} /\ Todo' = Children(f)
    <3>1. exists \subseteq Dir /\ <<>> \in Seq(Dir) /\ "changed" \in {"start", "changed"}
      BY Basics, Nothing
    <3>2. Extends(job'.dirs, <<>>, {f}) /\ Extends(job'.todo, <<>>, Children(f))
      BY <2>1, <3>1, Enter
    <3>3. QED BY <3>2, Nothing DEF Extends, Dirs, Todo
  <2>2. job' = job => Dirs' = {} /\ Todo' = {}
    BY <1>4 DEF Dirs, Todo
  <2>3. QED BY <1>2, <2>1, <2>2 DEF ChangedCreated, ChangedIgnored
<1>6. /\ events' = [events EXCEPT ![m] = Tail(@)]
      /\ UNCHANGED <<exists, untold, watch, monitors_by_file, start>>
  BY DEF ChangedCreated, ChangedIgnored, fs, tables
<1>7. \A i \in Monitor : /\ Has(i)' \subseteq Has(i)
                         /\ Has(i) \subseteq Has(i)' \cup {Event(kind, f)}
  <2>1. PICK gone : gone = {}
    OBVIOUS
  <2>2. \A i \in Monitor : events'[i] = IF i \in gone THEN <<>>
                                        ELSE IF i = m THEN Tail(events[i]) ELSE events[i]
    BY <1>6, <2>1, Basics
  <2>3. \A i \in Monitor : /\ Has(i)' \subseteq Has(i)
                           /\ i \notin gone => Has(i) \subseteq Has(i)' \cup {Head(events[m])}
    BY <1>1, <2>2, Delivered
  <2>4. QED BY <1>2, <2>1, <2>3
<1>8. Known' /\ Current' /\ RootWatched'
  BY <1>4, <1>5, <1>6 DEF Followed, Known, Current, RootWatched
<1>9. Gone'
  BY <1>6, <1>7 DEF Followed, Gone
<1>10. Listed'
  BY <1>5, <1>6, Basics DEF Listed, Covered, Children, Entries
<1>11. Farewell'
  <2>1. SUFFICES ASSUME NEW e \in Dir \ (exists \cup Ignored \cup untold), monitors_by_file[e] # None
                 PROVE  Event("DELETED", e) \in Has(monitors_by_file[e])'
    BY <1>6 DEF Farewell
  <2>2. monitors_by_file[e] \in Monitor /\ Event("DELETED", e) \in Has(monitors_by_file[e])
    BY <2>1, Basics DEF Followed, Farewell
  <2>3. Event("DELETED", e) # Event(kind, f)
    BY <1>3, <2>1 DEF Event
  <2>4. QED BY <1>6, <1>7, <2>2, <2>3 DEF Has
<1>12. Noticed'
  <2>1. SUFFICES ASSUME NEW e \in Entries, Relevant(e), Reports(e)
                 PROVE  Covered(e)' \/ Event("CREATED", e) \in Has(monitors_by_file[Parent[e]])'
    BY <1>6 DEF Noticed, Relevant, Entries, Reports
  <2>2. monitors_by_file[Parent[e]] \in Monitor /\ e \notin Ignored /\ e \in exists
    BY <2>1, Basics, Relevance DEF Entries, Reports
  <2>3. CASE monitors_by_file[e] # None
    BY <1>6, <2>3 DEF Covered
  <2>4. CASE monitors_by_file[e] = None
    <3>1. Event("CREATED", e) \in Has(monitors_by_file[Parent[e]])
      BY <1>4, <2>1, <2>4 DEF Followed, Noticed, Covered
    <3>2. CASE e = f
      BY <1>5, <2>2, <3>2 DEF Covered
    <3>3. CASE e # f
      <4>1. Event("CREATED", e) # Event(kind, f)
        BY <3>3 DEF Event
      <4>2. QED BY <1>6, <1>7, <2>2, <3>1, <4>1 DEF Has
    <3>4. QED BY <3>2, <3>3
  <2>5. QED BY <2>3, <2>4
<1>13. QED BY <1>8, <1>9, <1>10, <1>11, <1>12 DEF Followed

LEMMA FollowedStep ==
  ASSUME ConstantsType, IInv, [Next]_vars
  PROVE  Tree' /\ StillFollowed'
<1> USE DEF IInv
<1>1. Tree'
  <2>1. ASSUME NEW d \in Dir, Mkdir(d) \/ Rmdir(d) PROVE Tree'
    BY <2>1, Basics DEF Tree, Mkdir, Rmdir, Children
  <2>2. UNCHANGED exists \/ \E d \in Dir : Mkdir(d) \/ Rmdir(d)
    BY DEF Next, StartAsync, Collect, StartCb, CreatedListed, AttachNext, Attached, ChangedDeleted,
           DeletedReported, ChangedCreated, ChangedIgnored, Cancel, vars, fs
  <2>3. QED BY <2>1, <2>2 DEF Tree
<1>2. StillFollowed'
  <2>1. SUFFICES ASSUME ~cancelled' PROVE Followed'
    BY DEF StillFollowed
  <2>2. ~cancelled /\ ~Cancel
    <3>1. UNCHANGED cancelled \/ Cancel
      BY DEF Next, Mkdir, Rmdir, StartAsync, Collect, StartCb, CreatedListed, AttachNext, Attached,
             ChangedDeleted, DeletedReported, ChangedCreated, ChangedIgnored, vars
    <3>2. ~Cancel
      BY <2>1 DEF Cancel
    <3>3. QED BY <2>1, <3>1, <3>2
  <2>3. Followed
    BY <2>2 DEF StillFollowed
  <2>4. CASE UNCHANGED vars
    BY <2>3, <2>4 DEF Followed, Known, Gone, Current, Farewell, RootWatched, Listed, Noticed,
                      Covered, Relevant, Reports, Entries, Dirs, Todo, Has, vars, fs, gio, tables
  <2>5. QED BY <2>2, <2>3, <2>4, MkdirStep, RmdirStep, StartStep, CollectStep, JobStep, AttachStep,
               DeletedStep, CreatedStep DEF Next
<1>3. QED BY <1>1, <1>2
-----------------------------------------------------------------------------
LEMMA Begins == ASSUME ConstantsType, Init PROVE IInv
<1>1. TypeOK
  BY TypeInit
<1>2. Tree /\ TablesAgree /\ Phase /\ CancelledIsEmpty
  BY Basics, <1>1 DEF Init, Tree, TablesAgree, Phase, NothingWatched, CancelledIsEmpty
<1>3. Followed
  <2>1. Dirs = {} /\ Todo = {} /\ \A m \in Monitor : Has(m) = {}
    BY Nothing DEF Init, Dirs, Todo, Has, NoJob
  <2>2. \A d \in Dir : monitors_by_file[d] = None
    BY DEF Init
  <2>3. start = "none" /\ untold = {}
    BY DEF Init
  <2>4. QED BY <1>1, <2>1, <2>2, <2>3, Basics
            DEF Followed, Known, Gone, Current, Farewell, RootWatched, Listed, Noticed, Reports, Entries
<1>4. QED BY <1>1, <1>2, <1>3 DEF IInv, StillFollowed

LEMMA Stays == ASSUME ConstantsType, IInv, [Next]_vars PROVE IInv'
BY TypeStep, TablesStep, PhaseStep, FollowedStep DEF IInv

LEMMA Always == ASSUME ConstantsType PROVE Spec => []IInv
<1>1. Init => IInv
  BY Begins
<1>2. IInv /\ [Next]_vars => IInv'
  BY Stays
<1>3. QED BY <1>1, <1>2, PTL DEF Spec

(* The variables keep their types.                                         *)
THEOREM TypeCorrect == ASSUME ConstantsType PROVE Spec => []TypeOK
<1>1. IInv => TypeOK
  BY DEF IInv
<1>2. QED BY <1>1, Always, PTL

(* Once what was queued is handled, all that is to be watched is: of those *)
(* that are not, one would be in a directory that is, which has told of it *)
(* or was listed with it.                                                  *)
LEMMA Told ==
  ASSUME ConstantsType
  PROVE  LET told == Without(Ignored \cup untold)
         IN  /\ \A d \in told : Relevant(d) /\ d \in Dir \ untold
             /\ \A d \in told \ {Root} : Parent[d] \in told
<1>1. Parent \in [Dir \ {Root} -> Dir]
  BY DEF ConstantsType
<1>2. \A d \in Dir \ {Root} : Ancestors[d] = {Parent[d]} \cup Ancestors[Parent[d]]
  BY <1>1, AncestorsAre
<1>3. QED BY <1>1, <1>2 DEF Without, Relevant

LEMMA AllFollowed ==
  ASSUME ConstantsType, IInv, Quiet PROVE Watched(Without(Ignored \cup untold))
<1>1. Followed /\ TypeOK /\ TablesAgree /\ Tree
  BY DEF IInv, StillFollowed, Quiet
<1>2. Dirs = {} /\ Todo = {}
  BY Nothing DEF Quiet, NoJob, Dirs, Todo
<1>3. \A m \in Monitor : files_by_monitor[m] # None => Has(m) = {}
  BY Nothing DEF Quiet, Has
<1>4. \A d \in Dir : monitors_by_file[d] # None => Has(monitors_by_file[d]) = {}
  BY <1>1, <1>3, Basics DEF TablesAgree
<1>5. PICK told : /\ told = Without(Ignored \cup untold)
                  /\ \A d \in told : Relevant(d) /\ d \in Dir \ untold
                  /\ \A d \in told \ {Root} : Parent[d] \in told
  BY Told
<1>6. DEFINE Missed == {d \in exists \cap told : monitors_by_file[d] = None}
<1>7. Missed = {}
  <2>1. SUFFICES ASSUME Missed # {} PROVE FALSE
    OBVIOUS
  <2>2. PICK d \in Missed : d = Root \/ Parent[d] \notin Missed
    <3>1. Missed \in (SUBSET Dir) \ {{}}
      BY <1>1, <2>1, Basics
    <3>2. QED BY <3>1 DEF ConstantsType
  <2>3. CASE d = Root
    BY <1>1, <1>2, <2>2, <2>3 DEF Followed, RootWatched, Quiet
  <2>4. CASE d # Root
    <3>1. Parent[d] \in exists /\ Parent[d] \in told /\ d \in told
      BY <1>1, <1>5, <2>2, <2>4 DEF Tree
    <3>2. monitors_by_file[Parent[d]] # None
      BY <2>2, <2>4, <3>1
    <3>3. d \in Entries /\ Relevant(d) /\ Reports(d)
      BY <1>5, <2>2, <2>4, <3>1, <3>2 DEF Entries, Reports
    <3>4. Event("CREATED", d) \in Has(monitors_by_file[Parent[d]])
      BY <1>1, <1>2, <2>2, <3>3 DEF Followed, Noticed, Covered
    <3>5. Parent[d] \in Dir
      BY <1>1, <3>1, Basics
    <3>6. QED BY <1>4, <3>2, <3>4, <3>5
  <2>5. QED BY <2>3, <2>4
<1>8. ASSUME NEW d \in told, d \in exists
      PROVE  monitors_by_file[d] # None /\ watch[monitors_by_file[d]] = d
  BY <1>1, <1>5, <1>7, <1>8 DEF Followed, Current
<1>9. ASSUME NEW d \in told, d \notin exists PROVE monitors_by_file[d] = None
  BY <1>1, <1>4, <1>5, <1>9, Relevance DEF Followed, Farewell
<1>10. QED BY <1>5, <1>8, <1>9 DEF Watched

(* Whatever changes when: once everything queued has been handled, each    *)
(* directory is watched, or forgotten when it was removed, unless it or one*)
(* it is in is ignored or untold: was made while the one it is in was      *)
(* listed and not watched, or its name was in use, or was removed between  *)
(* its listing and its watching.  And a name that leads to a monitor is    *)
(* the one the monitor leads to.                                           *)
THEOREM EveryDirectoryIsWatched ==
  ASSUME ConstantsType PROVE Spec => [](EveryDirectoryWatched /\ TablesAgree)
<1>1. IInv => EveryDirectoryWatched /\ TablesAgree
  BY AllFollowed DEF IInv, EveryDirectoryWatched
<1>2. QED BY <1>1, Always, PTL

(* After the cancellation nothing is watched again, and nothing signalled. *)
THEOREM NothingAfterCancel == ASSUME ConstantsType PROVE Spec => CancelIsFinal
<1>1. IInv => (cancelled => \A m \in Monitor : files_by_monitor[m] = None)
  BY DEF IInv, CancelledIsEmpty, NothingWatched
<1>2. IInv /\ [Next]_vars => [cancelled => UNCHANGED emitted]_vars
  BY SilentStep DEF IInv
<1>3. QED BY <1>1, <1>2, Always, PTL DEF Spec, CancelIsFinal
=============================================================================
