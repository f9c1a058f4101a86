----------------------------- MODULE OrderEntry -----------------------------
(***************************************************************************)
(* One order-entry connection, end to end: OrderFlowGenerator and run_flow *)
(* (src/src/order_flow.cpp, src/apps/md_simulator/main.cpp) at the client, *)
(* the framing of src/src/wire.cpp, and the gateway's read, decode and     *)
(* flush of its Conn (src/src/engine_server.cpp).  A byte of the stream is *)
(* known by the frame it was cut from and its place in it, from 1: a frame *)
(* begins with its header, and a read may end anywhere in either.          *)
(***************************************************************************)
EXTENDS Integers, SequencesExt

CONSTANTS
    MaxLive,       \* FlowConfig::max_live
    Room,          \* bytes a socket buffer takes before a send is short
    HeaderSize,    \* kHeaderSize, 8 in the code
    FrameSize,     \* length of a frame by type: 48, 28, 44 and 72 in the code
    Garbage,       \* what the bytes may be read as where no header is
    MaxCommands, MaxReports    \* bounds of the model

VARIABLES
    gen,        \* the generator: nextId, live (ids it believes are resting)
    issued,     \* history: the commands of gen, oldest first
    clean,      \* history: the frames sent in full before the first short send
    short,      \* history: a send took a part of its frame
    up, down,   \* bytes in the two directions of the socket
    in, out,    \* Conn::in, Conn::out
    decoded,    \* history: frames the gateway decoded
    reported,   \* history: reports the gateway encoded
    rx, seen    \* run_flow's rx; history: the report frames it decoded

client == <<gen, issued, clean, short>>
vars == <<client, up, down, in, out, decoded, reported, rx, seen>>

Init ==
    /\ gen = [nextId |-> 1, live |-> <<>>]
    /\ issued = <<>> /\ clean = <<>> /\ short = FALSE
    /\ up = <<>> /\ down = <<>> /\ in = <<>> /\ out = <<>>
    /\ decoded = <<>> /\ reported = 0 /\ rx = <<>> /\ seen = <<>>

-----------------------------------------------------------------------------
(* Frames.                                                                 *)

Frame(no, type) == [no |-> no, type |-> type]
Encode(f) == [at \in 1..FrameSize[f.type] |-> [frame |-> f, at |-> at]]

\* The next HeaderSize bytes are the header of one frame.
Headed(buf, off) ==
    \A k \in 1..HeaderSize : buf[off + k] = [frame |-> buf[off + 1].frame, at |-> k]

\* The length that is read there, and whether the decoder of the type that is read
\* there takes a frame of that length: it looks at the header, and nothing covers
\* the body.
Peeked(buf, off, garbage) ==
    IF Headed(buf, off)
    THEN [length |-> FrameSize[buf[off + 1].frame.type], fits |-> TRUE]
    ELSE garbage

\* peek_header: the length of the frame at an offset, 0 for nullopt (a part of a
\* header, no header, or a part of a frame).
PeekLength(buf, off, garbage) ==
    LET left == Len(buf) - off IN
    IF left < HeaderSize THEN 0
    ELSE LET length == Peeked(buf, off, garbage).length IN
         IF length < HeaderSize \/ left < length THEN 0 ELSE length

\* One round of a decode loop.  Without a frame the loop ends: the round changes
\* nothing.
Round(buf, garbage, loop) ==
    LET off == loop.off + PeekLength(buf, loop.off, garbage) IN
    [off |-> off,
     frames |-> IF off # loop.off /\ Peeked(buf, loop.off, garbage).fits
                THEN Append(loop.frames, SubSeq(buf, loop.off + 1, off))
                ELSE loop.frames]

\* The loop over a buffer: where it stops and the frames it decoded.  A round that
\* goes on takes a byte at least.
DecodeLoop(buf, garbage) ==
    LET after[k \in 0..Len(buf)] ==
          IF k = 0 THEN [off |-> 0, frames |-> <<>>] ELSE Round(buf, garbage, after[k - 1])
    IN after[Len(buf)]

\* Mutant: a frame that is not complete is not kept for the next read.
NothingLeft(buf, loop) == <<>>
LeftOver(buf, loop) == SubSeq(buf, loop.off + 1, Len(buf))

-----------------------------------------------------------------------------
(* The client: OrderFlowGenerator::next and the send of run_flow.          *)

Issue(type, id) ==
    LET f == Frame(Len(issued) + 1, type)
        room == Room - Len(up)
    IN
    /\ Len(issued) < MaxCommands
    /\ issued' = Append(issued, [type |-> type, id |-> id])
    /\ up' = up \o SubSeq(Encode(f), 1, Min({room, FrameSize[type]}))
    /\ short' = (short \/ (0 < room /\ room < FrameSize[type]))
    /\ clean' = IF FrameSize[type] <= room /\ ~short THEN Append(clean, f) ELSE clean
    /\ UNCHANGED <<down, in, out, decoded, reported, rx, seen>>

OverDepth == Len(gen.live) >= MaxLive

\* A market order, or one priced to cross, is not expected to rest.
MakeNew ==
    /\ ~OverDepth \/ gen.live = <<>>
    /\ \E tracked \in BOOLEAN :
          gen' = [nextId |-> gen.nextId + 1,
                  live |-> IF tracked THEN Append(gen.live, gen.nextId) ELSE gen.live]
    /\ Issue("New", gen.nextId)

\* live_[i] = live_.back(), pop_back.  Mutant: the back is not moved.
UntrackLast(live, i) == Front(live)
Untrack(live, i) == Front([live EXCEPT ![i] = Last(live)])

Cancel ==
    \E i \in DOMAIN gen.live :
        /\ gen' = [gen EXCEPT !.live = Untrack(@, i)]
        /\ Issue("Cancel", gen.live[i])

Modify ==
    \E i \in DOMAIN gen.live :
        /\ ~OverDepth
        /\ Issue("Modify", gen.live[i])
        /\ UNCHANGED gen

\* pump: read what has arrived, decode every complete frame.
Pump ==
    \E n \in DOMAIN down, garbage \in Garbage :
        LET buf == rx \o SubSeq(down, 1, n)
            loop == DecodeLoop(buf, garbage)
        IN /\ rx' = LeftOver(buf, loop)
           /\ seen' = seen \o loop.frames
           /\ down' = SubSeq(down, n + 1, Len(down))
           /\ UNCHANGED <<client, up, in, out, decoded, reported>>

-----------------------------------------------------------------------------
(* The gateway.                                                            *)

Read ==
    \E n \in DOMAIN up, garbage \in Garbage :
        LET buf == in \o SubSeq(up, 1, n)
            loop == DecodeLoop(buf, garbage)
        IN /\ in' = LeftOver(buf, loop)
           /\ decoded' = decoded \o loop.frames
           /\ up' = SubSeq(up, n + 1, Len(up))
           /\ UNCHANGED <<client, down, out, reported, rx, seen>>

\* The engine answers a command with any number of reports.
Report ==
    /\ decoded # <<>> /\ reported < MaxReports
    /\ reported' = reported + 1
    /\ out' = out \o Encode(Frame(reported', "Report"))
    /\ UNCHANGED <<client, up, down, in, decoded, rx, seen>>

Flush ==
    LET n == Min({Room - Len(down), Len(out)}) IN
    /\ n > 0
    /\ down' = down \o SubSeq(out, 1, n)
    /\ out' = SubSeq(out, n + 1, Len(out))
    /\ UNCHANGED <<client, up, in, decoded, reported, rx, seen>>

Next == MakeNew \/ Cancel \/ Modify \/ Pump \/ Read \/ Report \/ Flush

Spec == Init /\ [][Next]_vars

-----------------------------------------------------------------------------
\* However TCP cuts the streams, in the middle of a header too, the gateway decodes the
\* frames the client sent and the client the reports the gateway encoded: whole, in
\* order, none twice, none passed over.  From the client this holds up to its first
\* short send, whose rest run_flow never sends.
FramesArriveWhole ==
    /\ \A k \in DOMAIN decoded :
          IF k <= Len(clean) THEN decoded[k] = Encode(clean[k]) ELSE short
    /\ \A k \in DOMAIN seen : seen[k] = Encode(Frame(k, "Report"))
    /\ Len(seen) <= reported

\* Once the generator has canceled an order it never names it again, and it never
\* issues an id twice, whatever it swapped about in live_ meanwhile.
CancelledForGood ==
    \A j, k \in DOMAIN issued :
        j < k /\ issued[j].id = issued[k].id
            => issued[j].type # "Cancel" /\ issued[k].type # "New"
=============================================================================
