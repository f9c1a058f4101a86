--------------------------- MODULE DashboardProofs ---------------------------
(* Proofs about Dashboard, for any number of commands, snapshots and        *)
(* restarts.                                                                *)
EXTENDS Dashboard, FiniteSetTheorems, TLAPS

Snapshot == [no : Nat, commands : Nat, count : Nat]
Content == [s : Snapshot, part : {"some", "all", "cut"}] \cup {Absent}

\* Every variable holds a value of its C++ type.
DashboardTypeOK ==
    /\ stop \in BOOLEAN /\ commands \in Nat /\ restarts \in Nat
    /\ en \in [pc : {"loop", "interval", "lock", "fill", "latency", "done"}, count : Nat]
    /\ snapMu \in {"free", "engine", "telemetry"} /\ snap \in Snapshot
    /\ tele \in [pc : {"loop", "lock", "copy", "copyLatency", "open", "write", "remove",
                       "rename", "done"},
                 s : Snapshot]
    /\ disk \in [file : Content, tmp : Content]
    /\ IsFiniteSet(published)

\* Each thread is between lock and unlock exactly when snap_mu says so: the engine
\* while it fills the snapshot, the telemetry thread while it copies it.
LockDiscipline ==
    /\ snapMu = "engine" <=> en.pc \in {"fill", "latency"}
    /\ snapMu = "telemetry" <=> tele.pc \in {"copy", "copyLatency"}

\* What has been copied so far is what the snapshot holds; a finished copy is a
\* snapshot that was published, and is what the temporary file was written with.
CopyInv ==
    /\ NoSnapshot \in published
    /\ snapMu # "engine" => snap \in published
    /\ tele.pc = "copyLatency" => tele.s.no = snap.no /\ tele.s.commands = snap.commands
    /\ tele.pc \in {"open", "write", "remove", "rename"} => tele.s \in published
    /\ tele.pc \in {"remove", "rename"} => disk.tmp \in {Written("all"), Written("cut")}

\* The inductive invariant.
FileInv == DashboardTypeOK /\ LockDiscipline /\ CopyInv /\ FinishedFile

\* It holds before the server's first start.
LEMMA InitFile == Init => FileInv
<1> SUFFICES ASSUME Init PROVE FileInv
  OBVIOUS
<1>1. NoSnapshot \in Snapshot
  BY DEF NoSnapshot, Snapshot
<1>2. IsFiniteSet({NoSnapshot})
  BY FS_Singleton
<1>3. /\ en.pc = "loop" /\ tele.pc = "loop" /\ snapMu = "free" /\ snap = NoSnapshot
      /\ disk.file = Absent /\ published = {NoSnapshot}
  BY DEF Init
<1>4. DashboardTypeOK
  <2>1. IsFiniteSet(published)
    BY <1>2, <1>3, Zenon
  <2>. QED  BY <1>1, <2>1 DEF Init, DashboardTypeOK, Content
<1>5. LockDiscipline /\ FinishedFile
  BY <1>3 DEF LockDiscipline, FinishedFile
<1>6. CopyInv
  BY <1>3 DEF CopyInv
<1>. QED  BY <1>4, <1>5, <1>6 DEF FileInv

\* publish_snapshot: while it writes, nobody copies; when it unlocks, it has published.
LEMMA EngineFile == FileInv /\ Engine => FileInv'
<1> SUFFICES ASSUME FileInv, Engine PROVE FileInv'
  OBVIOUS
<1> USE DEF FileInv
<1>1. CASE Process
  <2>1. PICK recorded \in 0..1 : en' = [pc |-> "interval", count |-> en.count + recorded]
    BY <1>1 DEF Process
  <2>2. en.count + recorded \in Nat /\ commands + 1 \in Nat
    BY DEF DashboardTypeOK
  <2>. QED
    BY <1>1, <2>1, <2>2
       DEF Process, history, DashboardTypeOK, LockDiscipline, CopyInv, Written, FinishedFile
<1>2. CASE NoCommand \/ NotDue \/ Due \/ EngineExit
  BY <1>2 DEF NoCommand, NotDue, Due, EngineExit, EngineAt, shared, history,
              DashboardTypeOK, LockDiscipline, CopyInv, Written, FinishedFile
<1>3. CASE LockToFill
  BY <1>3 DEF LockToFill, EngineAt, history,
              DashboardTypeOK, LockDiscipline, CopyInv, Written, FinishedFile
<1>4. CASE FillCounters
  <2>1. Cardinality(published) \in Nat
    BY FS_CardinalityType DEF DashboardTypeOK
  <2>2. snap' \in Snapshot
    BY <1>4, <2>1 DEF FillCounters, DashboardTypeOK, Snapshot
  <2>3. snapMu = "engine" /\ snapMu' = snapMu /\ tele' = tele /\ disk' = disk
        /\ published' = published /\ en'.pc = "latency"
    BY <1>4 DEF FillCounters, EngineAt, history, DashboardTypeOK, LockDiscipline
  <2>4. DashboardTypeOK'
    BY <1>4, <2>2 DEF FillCounters, EngineAt, history, DashboardTypeOK
  <2>. QED  BY <2>3, <2>4 DEF LockDiscipline, CopyInv, Written, FinishedFile
<1>5. CASE FillLatency
  <2>1. /\ snapMu = "engine" /\ snapMu' = "free" /\ tele' = tele /\ disk' = disk
        /\ published' = published \cup {snap'} /\ en'.pc = "loop"
    BY <1>5 DEF FillLatency, EngineAt, DashboardTypeOK, LockDiscipline
  <2>2. snap' \in Snapshot
    BY <1>5 DEF FillLatency, DashboardTypeOK, Snapshot
  <2>3. IsFiniteSet(published')
    BY <2>1, FS_AddElement DEF DashboardTypeOK
  <2>4. DashboardTypeOK'
    BY <1>5, <2>2, <2>3 DEF FillLatency, EngineAt, DashboardTypeOK
  <2>5. tele.pc \notin {"copy", "copyLatency"}
    BY <2>1 DEF LockDiscipline
  <2>. QED  BY <2>1, <2>4, <2>5 DEF LockDiscipline, CopyInv, Written, FinishedFile
<1>. QED  BY <1>1, <1>2, <1>3, <1>4, <1>5 DEF Engine, Publishing

\* The telemetry thread: the copy is taken under snap_mu, and what is renamed is a
\* temporary file that was written, to its end or that of the disk.
LEMMA TelemetryFile == FileInv /\ (Telemetry \/ LockToCopy \/ OpenFails) => FileInv'
<1> SUFFICES ASSUME FileInv, Telemetry \/ LockToCopy \/ OpenFails PROVE FileInv'
  OBVIOUS
<1> USE DEF FileInv
<1>1. CASE Wake \/ TelemetryExit \/ OpenFails
  BY <1>1 DEF Wake, TelemetryExit, OpenFails, TelemetryAt, shared, history,
              DashboardTypeOK, LockDiscipline, CopyInv, Written, FinishedFile
<1>2. CASE LockToCopy
  BY <1>2 DEF LockToCopy, TelemetryAt, history,
              DashboardTypeOK, LockDiscipline, CopyInv, Written, FinishedFile
<1>3. CASE CopyCounters
  <2>1. tele' = [pc |-> "copyLatency",
                 s |-> [tele.s EXCEPT !.no = snap.no, !.commands = snap.commands]]
    BY <1>3 DEF CopyCounters
  <2>2. /\ [tele.s EXCEPT !.no = snap.no, !.commands = snap.commands] \in Snapshot
        /\ tele'.s.no = snap.no /\ tele'.s.commands = snap.commands
    BY <2>1 DEF DashboardTypeOK, Snapshot
  <2>. QED
    BY <1>3, <2>1, <2>2 DEF CopyCounters, shared, history,
              DashboardTypeOK, LockDiscipline, CopyInv, Written, FinishedFile
<1>4. CASE CopyLatency
  <2>1. /\ tele.pc = "copyLatency" /\ snapMu = "telemetry" /\ snapMu' = "free"
        /\ tele' = [pc |-> "open", s |-> [tele.s EXCEPT !.count = snap.count]]
        /\ snap' = snap /\ disk' = disk /\ published' = published /\ en' = en
    BY <1>4 DEF CopyLatency, history, LockDiscipline
  <2>2. [tele.s EXCEPT !.count = snap.count] = snap
    BY <2>1 DEF DashboardTypeOK, Snapshot, CopyInv
  <2>3. tele'.pc = "open" /\ tele'.s = snap
    BY <2>1, <2>2
  <2>4. DashboardTypeOK'
    BY <1>4, <2>1, <2>2 DEF CopyLatency, history, DashboardTypeOK
  <2>. QED  BY <2>1, <2>3, <2>4 DEF LockDiscipline, CopyInv, Written, FinishedFile
<1>5. CASE OpenTmp
  <2>1. /\ tele.pc = "open" /\ tele' = [tele EXCEPT !.pc = "write"]
        /\ disk' = [disk EXCEPT !.tmp = [s |-> tele.s, part |-> "some"]]
    BY <1>5 DEF OpenTmp, TelemetryAt, Written
  <2>2. tele'.pc = "write" /\ tele'.s = tele.s
    BY <2>1 DEF DashboardTypeOK
  <2>3. disk'.file = disk.file /\ disk' \in [file : Content, tmp : Content]
    BY <2>1 DEF DashboardTypeOK, Content
  <2>4. UNCHANGED <<en, shared, history>>
    BY <1>5 DEF OpenTmp
  <2>5. DashboardTypeOK'
    BY <2>1, <2>3, <2>4 DEF shared, history, DashboardTypeOK
  <2>. QED
    BY <2>1, <2>2, <2>3, <2>4, <2>5 DEF Written, shared, history, LockDiscipline, CopyInv, FinishedFile
<1>6. CASE WriteTmp \/ WriteCut
  <2>1. tele.pc = "write" /\ tele' = [tele EXCEPT !.pc = "remove"]
    BY <1>6 DEF WriteTmp, WriteCut, TelemetryAt
  <2>2. tele'.pc = "remove" /\ tele'.s = tele.s
    BY <2>1 DEF DashboardTypeOK
  <2>a. PICK part \in {"all", "cut"} : disk' = [disk EXCEPT !.tmp = [s |-> tele.s, part |-> part]]
    BY <1>6 DEF WriteTmp, WriteCut, Written
  <2>3. /\ disk'.file = disk.file /\ disk'.tmp = [s |-> tele.s, part |-> part]
        /\ disk' \in [file : Content, tmp : Content]
    BY <2>a DEF DashboardTypeOK, Content
  <2>b. disk'.tmp \in {Written("all")', Written("cut")'}
    BY <2>2, <2>3 DEF Written
  <2>4. UNCHANGED <<en, shared, history>>
    BY <1>6 DEF WriteTmp, WriteCut
  <2>5. DashboardTypeOK'
    BY <2>1, <2>3, <2>4 DEF shared, history, DashboardTypeOK
  <2>. QED
    BY <2>1, <2>2, <2>3, <2>4, <2>5, <2>b DEF Written, shared, history, LockDiscipline, CopyInv, FinishedFile
<1>7. CASE RemoveOld
  <2>1. /\ tele.pc = "remove" /\ tele' = [tele EXCEPT !.pc = "rename"]
        /\ disk' = [disk EXCEPT !.file = Absent]
    BY <1>7 DEF RemoveOld, TelemetryAt
  <2>2. tele'.pc = "rename" /\ tele'.s = tele.s
    BY <2>1 DEF DashboardTypeOK
  <2>3. disk'.file = Absent /\ disk'.tmp = disk.tmp /\ disk' \in [file : Content, tmp : Content]
    BY <2>1 DEF DashboardTypeOK, Content
  <2>4. UNCHANGED <<en, shared, history>>
    BY <1>7 DEF RemoveOld
  <2>5. DashboardTypeOK'
    BY <2>1, <2>3, <2>4 DEF shared, history, DashboardTypeOK
  <2>. QED
    BY <2>1, <2>2, <2>3, <2>4, <2>5 DEF Written, shared, history, LockDiscipline, CopyInv, FinishedFile
<1>8. CASE Rename
  <2>1. /\ tele.pc = "rename" /\ tele' = [tele EXCEPT !.pc = "loop"]
        /\ disk' = [file |-> disk.tmp, tmp |-> Absent]
    BY <1>8 DEF Rename, TelemetryAt
  <2>2. tele'.pc = "loop" /\ tele'.s = tele.s
    BY <2>1 DEF DashboardTypeOK
  <2>3. disk'.file \in {Written("all"), Written("cut")} /\ tele.s \in published
    BY <2>1 DEF CopyInv
  <2>4. UNCHANGED <<en, shared, history>>
    BY <1>8 DEF Rename
  <2>5. DashboardTypeOK'
    BY <2>1, <2>4 DEF shared, history, DashboardTypeOK, Content
  <2>. QED
    BY <2>1, <2>2, <2>3, <2>4, <2>5
       DEF Written, shared, history, LockDiscipline, CopyInv, FinishedFile
<1>. QED  BY <1>1, <1>2, <1>3, <1>4, <1>5, <1>6, <1>7, <1>8 DEF Telemetry

\* stop(), start() and a crash: the new process knows nothing of the old one's
\* snapshots, and the file they left is still a finished one.
LEMMA ProcessFile == FileInv /\ (Stop \/ Start \/ Crash) => FileInv'
<1> SUFFICES ASSUME FileInv, Stop \/ Start \/ Crash PROVE FileInv'
  OBVIOUS
<1> USE DEF FileInv
<1>1. CASE Stop
  BY <1>1 DEF Stop, history, DashboardTypeOK, LockDiscipline, CopyInv, Written, FinishedFile
<1>2. CASE Start
  <2>1. /\ en.pc = "done" /\ tele.pc = "done" /\ en'.pc = "loop"
        /\ tele' = [tele EXCEPT !.pc = "loop"]
        /\ snapMu' = snapMu /\ snap' = snap /\ disk' = disk /\ published' = published
    BY <1>2 DEF Start
  <2>2. tele'.pc = "loop"
    BY <2>1 DEF DashboardTypeOK
  <2>3. DashboardTypeOK'
    <3>1. stop' \in BOOLEAN
      BY <1>2, Zenon DEF Start
    <3>2. restarts' \in Nat /\ commands' \in Nat
      BY <1>2 DEF Start, DashboardTypeOK
    <3>3. en' = [pc |-> "loop", count |-> 0]
      BY <1>2 DEF Start
    <3>4. /\ en' \in [pc : {"loop", "interval", "lock", "fill", "latency", "done"}, count : Nat]
          /\ tele' \in [pc : {"loop", "lock", "copy", "copyLatency", "open", "write", "remove",
                              "rename", "done"},
                        s : Snapshot]
      BY <2>1, <3>3 DEF DashboardTypeOK
    <3>. QED  BY <2>1, <3>1, <3>2, <3>4 DEF DashboardTypeOK
  <2>. QED  BY <2>1, <2>2, <2>3 DEF LockDiscipline, CopyInv, Written, FinishedFile
<1>3. CASE Crash
  <2>1. NoSnapshot \in Snapshot
    BY DEF NoSnapshot, Snapshot
  <2>2. /\ en'.pc = "loop" /\ tele'.pc = "loop" /\ snapMu' = "free" /\ snap' = NoSnapshot
        /\ disk' = disk /\ published' = published
    BY <1>3 DEF Crash
  <2>3. DashboardTypeOK'
    <3>1. stop' \in BOOLEAN
      BY <1>3, Zenon DEF Crash
    <3>2. restarts' \in Nat /\ commands' \in Nat
      BY <1>3 DEF Crash, DashboardTypeOK
    <3>3. /\ en' = [pc |-> "loop", count |-> 0]
          /\ tele' = [pc |-> "loop", s |-> NoSnapshot]
      BY <1>3 DEF Crash
    <3>4. /\ en' \in [pc : {"loop", "interval", "lock", "fill", "latency", "done"}, count : Nat]
          /\ tele' \in [pc : {"loop", "lock", "copy", "copyLatency", "open", "write", "remove",
                              "rename", "done"},
                        s : Snapshot]
      BY <2>1, <3>3
    <3>. QED  BY <2>1, <2>2, <3>1, <3>2, <3>4 DEF DashboardTypeOK
  <2>. QED  BY <2>2, <2>3 DEF LockDiscipline, CopyInv, Written, FinishedFile
<1>. QED  BY <1>1, <1>2, <1>3

\* Whenever it is polled, the stats file is missing or was written to its end, or that
\* of the disk, with one snapshot as the engine thread published it: no tearing between
\* snap_mu's two holders, no file that is still being written, across any number of
\* stops, starts and crashes.
THEOREM FileIsFinished == Spec => []FinishedFile
<1>1. FileInv /\ [Next]_vars => FileInv'
  <2> SUFFICES ASSUME FileInv, [Next]_vars PROVE FileInv'
    OBVIOUS
  <2>1. CASE UNCHANGED vars
    BY <2>1 DEF vars, Written, shared, history, FileInv, DashboardTypeOK, LockDiscipline, CopyInv, FinishedFile
  <2>2. CASE Next
    BY <2>2, EngineFile, TelemetryFile, ProcessFile DEF Next
  <2>. QED  BY <2>1, <2>2
<1>2. FileInv => FinishedFile
  BY DEF FileInv
<1>. QED  BY <1>1, <1>2, InitFile, PTL DEF Spec
=============================================================================
