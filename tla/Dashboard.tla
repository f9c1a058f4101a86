------------------------------ MODULE Dashboard ------------------------------
(***************************************************************************)
(* How the web dashboard gets its numbers: the engine thread fills a       *)
(* snapshot under snap_mu, the telemetry thread copies it and rewrites the *)
(* stats file (src/src/engine_server.cpp, src/src/telemetry.cpp), and the  *)
(* dashboard polls that file at any time.  Of a snapshot the model keeps   *)
(* what is assigned first, generated_ns (here its number) and a counter,   *)
(* and of what is assigned last lat_count.  The process may crash, and the *)
(* disk may be full.                                                       *)
(***************************************************************************)
EXTENDS Integers, FiniteSets

CONSTANTS
    Absent,        \* no such file
    MaxCommands, MaxSnapshots, MaxRestarts     \* bounds of the model

ASSUME DashboardAssumption == {MaxCommands, MaxSnapshots, MaxRestarts} \subseteq Nat

VARIABLES
    stop,         \* the stop flag
    commands,     \* counters.commands
    en,           \* the engine thread: pc, count (of its latency histogram)
    snapMu,       \* snap_mu: free, engine or telemetry
    snap,         \* the shared snapshot
    tele,         \* the telemetry thread: pc, s (its copy)
    disk,         \* file and tmp: Absent, or what they hold
    published,    \* history: every snapshot the engine completed
    restarts      \* history

shared == <<stop, commands, snapMu, snap>>
history == <<published, restarts>>
vars == <<en, tele, disk, shared, history>>

NoSnapshot == [no |-> 0, commands |-> 0, count |-> 0]

Init ==
    /\ stop = FALSE /\ commands = 0
    /\ en = [pc |-> "loop", count |-> 0]
    /\ snapMu = "free" /\ snap = NoSnapshot
    /\ tele = [pc |-> "loop", s |-> NoSnapshot]
    /\ disk = [file |-> Absent, tmp |-> Absent]
    /\ published = {NoSnapshot} /\ restarts = 0

-----------------------------------------------------------------------------
(* The engine thread: run_engine's loop and publish_snapshot.              *)

EngineAt(pc, next) == en.pc = pc /\ en' = [en EXCEPT !.pc = next]

\* A latency that is not above 0 is not recorded.
Process ==
    /\ en.pc = "loop" /\ ~stop /\ commands < MaxCommands
    /\ \E recorded \in 0..1 : en' = [pc |-> "interval", count |-> en.count + recorded]
    /\ commands' = commands + 1
    /\ UNCHANGED <<stop, snapMu, snap, tele, disk, history>>

NoCommand == EngineAt("loop", "interval") /\ ~stop /\ UNCHANGED <<tele, disk, shared, history>>
NotDue == EngineAt("interval", "loop") /\ UNCHANGED <<tele, disk, shared, history>>
Due ==
    /\ EngineAt("interval", "lock") /\ Cardinality(published) <= MaxSnapshots
    /\ UNCHANGED <<tele, disk, shared, history>>
EngineExit == EngineAt("loop", "done") /\ stop /\ UNCHANGED <<tele, disk, shared, history>>

LockToFill ==
    /\ EngineAt("lock", "fill") /\ snapMu = "free"
    /\ snapMu' = "engine"
    /\ UNCHANGED <<stop, commands, snap, tele, disk, history>>
FillCounters ==
    /\ EngineAt("fill", "latency")
    /\ snap' = [snap EXCEPT !.no = Cardinality(published), !.commands = commands]
    /\ UNCHANGED <<stop, commands, snapMu, tele, disk, history>>
FillLatency ==
    /\ EngineAt("latency", "loop")
    /\ snap' = [snap EXCEPT !.count = en.count]
    /\ snapMu' = "free"
    /\ published' = published \cup {snap'}
    /\ UNCHANGED <<stop, commands, tele, disk, restarts>>

Publishing == LockToFill \/ FillCounters \/ FillLatency
Engine ==
    \/ Process
    \/ NoCommand \/ NotDue \/ Due \/ EngineExit
    \/ Publishing

-----------------------------------------------------------------------------
(* The telemetry thread: run_telemetry and write_json_file.                *)

TelemetryAt(pc, next) == tele.pc = pc /\ tele' = [tele EXCEPT !.pc = next]

\* Another interval has been slept through.
Wake == TelemetryAt("loop", "lock") /\ ~stop /\ UNCHANGED <<en, disk, shared, history>>
TelemetryExit == TelemetryAt("loop", "done") /\ stop /\ UNCHANGED <<en, disk, shared, history>>

\* Mutant: the snapshot is copied without snap_mu.
CopyUnlocked == TelemetryAt("lock", "copy") /\ UNCHANGED <<en, disk, shared, history>>
LockToCopy ==
    /\ TelemetryAt("lock", "copy") /\ snapMu = "free"
    /\ snapMu' = "telemetry"
    /\ UNCHANGED <<stop, commands, snap, en, disk, history>>

CopyCounters ==
    /\ tele.pc = "copy"
    /\ tele' = [pc |-> "copyLatency",
                s |-> [tele.s EXCEPT !.no = snap.no, !.commands = snap.commands]]
    /\ UNCHANGED <<en, disk, shared, history>>
CopyLatency ==
    /\ tele.pc = "copyLatency"
    /\ tele' = [pc |-> "open", s |-> [tele.s EXCEPT !.count = snap.count]]
    /\ snapMu' = IF snapMu = "telemetry" THEN "free" ELSE snapMu
    /\ UNCHANGED <<stop, commands, snap, en, disk, history>>

\* A file holds a snapshot: so far some of it, all of it, or what the disk took.
Written(part) == [s |-> tele.s, part |-> part]

OpenTmp ==
    /\ TelemetryAt("open", "write")
    /\ disk' = [disk EXCEPT !.tmp = Written("some")]
    /\ UNCHANGED <<en, shared, history>>
\* The stream does not open: nothing is written this time.
\* Mutant: the thread gives up.
GiveUpOnOpen == TelemetryAt("open", "done") /\ UNCHANGED <<en, disk, shared, history>>
OpenFails == TelemetryAt("open", "loop") /\ UNCHANGED <<en, disk, shared, history>>

WriteTmp ==
    /\ TelemetryAt("write", "remove")
    /\ disk' = [disk EXCEPT !.tmp = Written("all")]
    /\ UNCHANGED <<en, shared, history>>
\* The disk is full: nobody asks the stream, which is closed and renamed all the same.
WriteCut ==
    /\ TelemetryAt("write", "remove")
    /\ disk' = [disk EXCEPT !.tmp = Written("cut")]
    /\ UNCHANGED <<en, shared, history>>

RemoveOld ==
    /\ TelemetryAt("remove", "rename")
    /\ disk' = [disk EXCEPT !.file = Absent]
    /\ UNCHANGED <<en, shared, history>>
Rename ==
    /\ TelemetryAt("rename", "loop")
    /\ disk' = [file |-> disk.tmp, tmp |-> Absent]
    /\ UNCHANGED <<en, shared, history>>

Telemetry ==
    \/ Wake \/ TelemetryExit \/ CopyCounters \/ CopyLatency
    \/ OpenTmp \/ WriteTmp \/ WriteCut \/ RemoveOld \/ Rename

-----------------------------------------------------------------------------
(* stop(), start() and a crash: only the disk outlives the process.        *)

Stop == ~stop /\ stop' = TRUE /\ UNCHANGED <<commands, snapMu, snap, en, tele, disk, history>>

Start ==
    /\ stop /\ en.pc = "done" /\ tele.pc = "done" /\ restarts < MaxRestarts
    /\ stop' = FALSE /\ restarts' = restarts + 1
    /\ en' = [pc |-> "loop", count |-> 0] /\ tele' = [tele EXCEPT !.pc = "loop"]
    /\ UNCHANGED <<commands, snapMu, snap, disk, published>>

Crash ==
    /\ restarts < MaxRestarts
    /\ stop' = FALSE /\ commands' = 0 /\ snapMu' = "free" /\ snap' = NoSnapshot
    /\ en' = [pc |-> "loop", count |-> 0]
    /\ tele' = [pc |-> "loop", s |-> NoSnapshot]
    /\ restarts' = restarts + 1
    /\ UNCHANGED <<disk, published>>

Next == Engine \/ LockToCopy \/ Telemetry \/ OpenFails \/ Stop \/ Start \/ Crash

Spec == Init /\ [][Next]_vars

\* The threads run on, the engine through publish_snapshot above all; a lock the
\* engine lets go of again and again is had in the end, and so are a file to write and
\* room on the disk for it.
FairSpec ==
    /\ Spec
    /\ WF_vars(Publishing) /\ WF_vars(Telemetry)
    /\ SF_vars(LockToCopy) /\ SF_vars(OpenTmp) /\ SF_vars(WriteTmp)

-----------------------------------------------------------------------------
\* Whenever the dashboard polls, crash or no crash, the stats file is missing or was
\* written to its end, or to the end of the disk, with one snapshot as
\* publish_snapshot completed it: its counters and its latencies are of the same moment.
\* ("A dashboard poll never sees a half-written file", says telemetry.cpp; but a full
\* disk cuts the file short and nobody asks.)
FinishedFile ==
    disk.file # Absent => disk.file.part # "some" /\ disk.file.s \in published

\* A snapshot the engine published, or a later one, gets into the stats file, whole, and
\* no temporary file that did not open or was cut ends that; unless the server is
\* stopped.
PublishedReachesFile ==
    \A n \in 1..MaxSnapshots, r \in 0..MaxRestarts :
        (snapMu = "free" /\ snap.no = n /\ restarts = r /\ ~stop)
        ~> (stop \/ restarts # r \/ (/\ disk.file # Absent /\ disk.file.part = "all"
                                         /\ disk.file.s.no >= n))
=============================================================================
