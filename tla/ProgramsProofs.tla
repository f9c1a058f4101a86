--------------------------- MODULE ProgramsProofs ----------------------------
(* Proofs about Programs, for every size of the rings, buffers and runs.    *)
EXTENDS Programs, FiniteSetTheorems, SequenceTheorems, WellFoundedInduction, TLAPS

-----------------------------------------------------------------------------
(* The order flow generator.                                                *)

IssuedCommand == [type : {"New", "Cancel", "Modify"}, id : Nat]

\* What the generator may still name is what it has never canceled.
FlowInv ==
    /\ gen \in [nextId : Nat, live : Seq(Nat)]
    /\ issued \in Seq(IssuedCommand)
    /\ \A k \in DOMAIN issued : issued[k].id < gen.nextId
    /\ \A i \in DOMAIN gen.live : gen.live[i] < gen.nextId
    /\ \A i, j \in DOMAIN gen.live : gen.live[i] = gen.live[j] => i = j
    /\ \A i \in DOMAIN gen.live, k \in DOMAIN issued :
          issued[k].id = gen.live[i] => issued[k].type # "Cancel"
    /\ Flow!CancelledForGood

\* live_[i] = live_.back(), pop_back: every place that is left keeps its id, but for
\* place i, which gets the last one's.
LEMMA UntrackFacts ==
    ASSUME NEW live \in Seq(Nat), NEW i \in DOMAIN live
    PROVE  /\ Flow!Untrack(live, i) \in Seq(Nat)
           /\ \A k \in DOMAIN Flow!Untrack(live, i) :
                 /\ k \in DOMAIN live /\ k # Len(live)
                 /\ Flow!Untrack(live, i)[k] = live[IF k = i THEN Len(live) ELSE k]
<1> DEFINE n == Len(live)
           m == [live EXCEPT ![i] = live[n]]
           u == Flow!Untrack(live, i)
<1>1. n \in Nat /\ DOMAIN live = 1..n /\ i \in 1..n /\ n \in 1..n /\ \A k \in 1..n : live[k] \in Nat
  <2>1. n \in Nat /\ DOMAIN live = 1..n /\ \A k \in 1..n : live[k] \in Nat
    BY LenProperties, ElementOfSeq
  <2> HIDE DEF n
  <2>2. i \in 1..n
    BY <2>1
  <2>3. n \in 1..n
    BY <2>1, <2>2
  <2>. QED  BY <2>1, <2>2, <2>3
<1>2. m \in Seq(Nat) /\ Len(m) = n /\ \A k \in 1..n : m[k] = IF k = i THEN live[n] ELSE live[k]
  <2>1. i \in 1..Len(live) /\ live[n] \in Nat
    BY <1>1
  <2>. QED  BY <2>1, ExceptSeq
<1>3. u = SubSeq(m, 1, Len(m) - 1)
  BY DEF Flow!Untrack, Flow!Front, Flow!Last
<1> HIDE DEF m, n
<1>4. u = SubSeq(m, 1, n - 1)
  BY <1>2, <1>3
<1>5. \A k \in 1..(n - 1) : m[k] \in Nat
  BY <1>1, <1>2
<1>6. u \in Seq(Nat) /\ Len(u) = n - 1 /\ \A k \in 1..(n - 1) : u[k] = m[k]
  <2> HIDE DEF u
  <2>1. 1 \in Int /\ n - 1 \in Int /\ (n - 1) - 1 + 1 = n - 1
    BY <1>1
  <2>. QED  BY <1>1, <1>4, <1>5, <2>1, SubSeqProperties
<1> HIDE DEF u
<1>7. DOMAIN u = 1..(n - 1)
  BY <1>6, LenProperties
<1>8. \A k \in 1..(n - 1) : k \in 1..n /\ k # n /\ u[k] = live[IF k = i THEN n ELSE k]
  BY <1>1, <1>2, <1>6, SMTT(20)
<1>. QED  BY <1>1, <1>6, <1>7, <1>8 DEF u, n

\* The commands issued after a command is.
LEMMA IssueAppends ==
    ASSUME FlowInv, NEW c \in IssuedCommand, issued' = Append(issued, c)
    PROVE  /\ issued' \in Seq(IssuedCommand)
           /\ \A k \in DOMAIN issued' :
                 \/ k \in DOMAIN issued /\ issued'[k] = issued[k]
                 \/ k \notin DOMAIN issued /\ issued'[k] = c
           /\ \A j \in DOMAIN issued, k \in DOMAIN issued' : k \notin DOMAIN issued => j < k
           /\ \A j, k \in DOMAIN issued' : j \notin DOMAIN issued /\ k \notin DOMAIN issued => j = k
<1> DEFINE w == Append(issued, c)
           n == Len(issued)
<1>1. issued \in Seq(IssuedCommand)
  BY DEF FlowInv
<1>2. /\ n \in Nat /\ DOMAIN issued = 1..n /\ w \in Seq(IssuedCommand) /\ Len(w) = n + 1
      /\ \A k \in 1..n : w[k] = issued[k]
      /\ w[n + 1] = c
  BY <1>1, AppendProperties, LenProperties
<1> HIDE DEF w, n
<1>3. DOMAIN w = 1..(n + 1)
  BY <1>2, LenProperties
<1>4. /\ \A k \in DOMAIN w : \/ k \in DOMAIN issued /\ w[k] = issued[k]
                             \/ k \notin DOMAIN issued /\ w[k] = c
      /\ \A j \in DOMAIN issued, k \in DOMAIN w : k \notin DOMAIN issued => j < k
      /\ \A j, k \in DOMAIN w : j \notin DOMAIN issued /\ k \notin DOMAIN issued => j = k
  BY <1>2, <1>3
<1>5. issued' = w
  BY DEF w
<1>. QED  BY <1>2, <1>4, <1>5

\* A command about an id that was never canceled, and that no earlier command named
\* if it is a new one.
LEMMA IssueLegal ==
    ASSUME FlowInv, NEW c \in IssuedCommand, issued' = Append(issued, c),
           \A k \in DOMAIN issued :
              issued[k].id = c.id => issued[k].type # "Cancel" /\ c.type # "New"
    PROVE  Flow!CancelledForGood'
<1>1. /\ \A k \in DOMAIN issued' :
            \/ k \in DOMAIN issued /\ issued'[k] = issued[k]
            \/ k \notin DOMAIN issued /\ issued'[k] = c
      /\ \A j \in DOMAIN issued, k \in DOMAIN issued' : k \notin DOMAIN issued => j < k
      /\ \A i, k \in DOMAIN issued' : i \notin DOMAIN issued /\ k \notin DOMAIN issued => i = k
      /\ \A k \in DOMAIN issued' : k \in Nat
  <2>1. \A k \in DOMAIN issued' : k \in Nat
    BY IssueAppends, LenProperties
  <2>. QED  BY <2>1, IssueAppends
<1>2. SUFFICES ASSUME NEW j \in DOMAIN issued', NEW k \in DOMAIN issued', j < k,
                      issued'[j].id = issued'[k].id
               PROVE  issued'[j].type # "Cancel" /\ issued'[k].type # "New"
  BY DEF Flow!CancelledForGood
<1>3. CASE k \in DOMAIN issued
  <2>1. issued'[k] = issued[k] /\ (j \in DOMAIN issued => issued'[j] = issued[j])
    BY <1>1, <1>3
  <2>2. j \in DOMAIN issued
    <3>1. ASSUME j \notin DOMAIN issued PROVE FALSE
      <4>1. k < j
        BY <1>1, <1>3, <3>1
      <4>. QED  BY <1>1, <1>2, <4>1
    <3>. QED  BY <3>1
  <2>. QED  BY <1>2, <1>3, <2>1, <2>2 DEF FlowInv, Flow!CancelledForGood
<1>4. CASE k \notin DOMAIN issued
  <2>1. issued'[k] = c
    BY <1>1, <1>4
  <2>2. CASE j \in DOMAIN issued
    <3>1. issued'[j] = issued[j]
      BY <1>1, <2>2
    <3>. QED  BY <1>2, <2>1, <2>2, <3>1
  <2>3. CASE j \notin DOMAIN issued
    BY <1>1, <1>2, <1>4, <2>3
  <2>. QED  BY <2>2, <2>3
<1>. QED  BY <1>3, <1>4

\* The part of FlowInv that a new command and a shorter list of live orders disturb.
LEMMA FlowGoesOn ==
    ASSUME FlowInv, NEW c \in IssuedCommand, issued' = Append(issued, c),
           gen' \in [nextId : Nat, live : Seq(Nat)], gen'.nextId >= gen.nextId,
           c.id < gen'.nextId,
           \A k \in DOMAIN issued :
              issued[k].id = c.id => issued[k].type # "Cancel" /\ c.type # "New",
           \A i, j \in DOMAIN gen'.live : gen'.live[i] = gen'.live[j] => i = j,
           \A i \in DOMAIN gen'.live :
              /\ gen'.live[i] = c.id => c.type # "Cancel"
              /\ \/ \E k \in DOMAIN gen.live : gen'.live[i] = gen.live[k]
                 \/ gen'.live[i] = c.id
    PROVE  FlowInv'
<1>1. /\ issued' \in Seq(IssuedCommand)
      /\ \A k \in DOMAIN issued' :
            \/ k \in DOMAIN issued /\ issued'[k] = issued[k]
            \/ k \notin DOMAIN issued /\ issued'[k] = c
  BY IssueAppends
<1>2. /\ gen \in [nextId : Nat, live : Seq(Nat)]
      /\ \A k \in DOMAIN issued : issued[k] \in IssuedCommand
      /\ \A k \in DOMAIN issued : issued[k].id < gen.nextId
      /\ \A i \in DOMAIN gen.live : gen.live[i] < gen.nextId
      /\ \A i \in DOMAIN gen.live, k \in DOMAIN issued :
            issued[k].id = gen.live[i] => issued[k].type # "Cancel"
  BY ElementOfSeq, LenProperties DEF FlowInv
<1>3. gen.nextId \in Nat /\ gen'.nextId \in Nat /\ c.id \in Nat
      /\ gen.live \in Seq(Nat) /\ gen'.live \in Seq(Nat)
  BY <1>2 DEF IssuedCommand
<1>4. /\ \A i \in DOMAIN gen.live : gen.live[i] \in Nat
      /\ \A i \in DOMAIN gen'.live : gen'.live[i] \in Nat
  BY <1>3, ElementOfSeq, LenProperties
<1>5. ASSUME NEW k \in DOMAIN issued' PROVE issued'[k].id < gen'.nextId
  <2>1. CASE k \in DOMAIN issued /\ issued'[k] = issued[k]
    <3>1. issued[k].id \in Nat /\ issued[k].id < gen.nextId
      BY <1>2, <2>1 DEF IssuedCommand
    <3>. QED  BY <1>3, <2>1, <3>1
  <2>2. CASE issued'[k] = c
    BY <2>2
  <2>. QED  BY <1>1, <2>1, <2>2
<1>6. \A i \in DOMAIN gen'.live : gen'.live[i] < gen'.nextId
  BY <1>2, <1>3, <1>4, SMTT(20)
<1>7. \A i \in DOMAIN gen'.live, k \in DOMAIN issued' :
         issued'[k].id = gen'.live[i] => issued'[k].type # "Cancel"
  BY <1>1, <1>2, SMTT(20)
<1>8. Flow!CancelledForGood'
  BY IssueLegal
<1>. QED  BY <1>1, <1>5, <1>6, <1>7, <1>8 DEF FlowInv

\* A new order takes an id no command has had.
LEMMA FlowMakeNew ==
    ASSUME FlowInv, Flow!MakeNew
    PROVE  FlowInv'
<1> DEFINE c == [type |-> "New", id |-> gen.nextId]
<1>1. /\ gen.nextId \in Nat /\ gen.live \in Seq(Nat)
      /\ \A k \in DOMAIN issued : issued[k] \in IssuedCommand /\ issued[k].id < gen.nextId
      /\ \A i \in DOMAIN gen.live : gen.live[i] \in Nat /\ gen.live[i] < gen.nextId
      /\ \A i, j \in DOMAIN gen.live : gen.live[i] = gen.live[j] => i = j
  BY ElementOfSeq, LenProperties DEF FlowInv
<1>2. c \in IssuedCommand /\ issued' = Append(issued, c)
  BY <1>1 DEF Flow!MakeNew, Flow!Issue, IssuedCommand
<1>3. PICK tracked \in BOOLEAN :
         gen' = [nextId |-> gen.nextId + 1,
                 live |-> IF tracked THEN Append(gen.live, gen.nextId) ELSE gen.live]
  BY DEF Flow!MakeNew
<1>4. gen'.nextId = gen.nextId + 1 /\ gen' \in [nextId : Nat, live : Seq(Nat)]
  BY <1>1, <1>3, AppendProperties
<1>5. /\ \A i \in DOMAIN gen'.live :
            \/ i \in DOMAIN gen.live /\ gen'.live[i] = gen.live[i]
            \/ i \notin DOMAIN gen.live /\ gen'.live[i] = gen.nextId
      /\ \A i, j \in DOMAIN gen'.live :
            i \notin DOMAIN gen.live /\ j \notin DOMAIN gen.live => i = j
  <2>1. CASE tracked
    <3>1. gen'.live = Append(gen.live, gen.nextId)
      BY <1>3, <2>1
    <3>2. /\ Len(gen.live) \in Nat /\ DOMAIN gen.live = 1..Len(gen.live)
          /\ DOMAIN gen'.live = 1..(Len(gen.live) + 1)
          /\ \A i \in 1..Len(gen.live) : gen'.live[i] = gen.live[i]
          /\ gen'.live[Len(gen.live) + 1] = gen.nextId
      BY <1>1, <3>1, AppendProperties, LenProperties
    <3>. QED  BY <3>2
  <2>2. CASE ~tracked
    BY <1>3, <2>2
  <2>. QED  BY <2>1, <2>2
<1>6. \A i, j \in DOMAIN gen'.live : gen'.live[i] = gen'.live[j] => i = j
  BY <1>1, <1>5
<1>7. \A i \in DOMAIN gen'.live :
         \/ \E k \in DOMAIN gen.live : gen'.live[i] = gen.live[k]
         \/ gen'.live[i] = c.id
  BY <1>5
<1>8. \A k \in DOMAIN issued : issued[k].id # c.id
  BY <1>1 DEF IssuedCommand
<1>9. c.id < gen'.nextId /\ gen'.nextId >= gen.nextId
  BY <1>1, <1>4
<1>. QED  BY <1>2, <1>4, <1>6, <1>7, <1>8, <1>9, FlowGoesOn

\* A canceled order leaves the list; the back takes its place.
LEMMA FlowCancel ==
    ASSUME FlowInv, Flow!Cancel
    PROVE  FlowInv'
<1>1. PICK p \in DOMAIN gen.live :
         /\ gen' = [gen EXCEPT !.live = Flow!Untrack(@, p)]
         /\ Flow!Issue("Cancel", gen.live[p])
  BY DEF Flow!Cancel
<1> DEFINE c == [type |-> "Cancel", id |-> gen.live[p]]
           u == Flow!Untrack(gen.live, p)
<1>2. /\ gen \in [nextId : Nat, live : Seq(Nat)]
      /\ gen.nextId \in Nat /\ gen.live \in Seq(Nat)
      /\ gen.live[p] \in Nat /\ gen.live[p] < gen.nextId
      /\ \A i, j \in DOMAIN gen.live : gen.live[i] = gen.live[j] => i = j
      /\ \A k \in DOMAIN issued : issued[k].id = gen.live[p] => issued[k].type # "Cancel"
  BY ElementOfSeq, LenProperties DEF FlowInv
<1>3. c \in IssuedCommand /\ issued' = Append(issued, c)
  BY <1>1, <1>2 DEF Flow!Issue, IssuedCommand
<1>4. /\ u \in Seq(Nat)
      /\ \A k \in DOMAIN u : /\ k \in DOMAIN gen.live /\ k # Len(gen.live)
                             /\ u[k] = gen.live[IF k = p THEN Len(gen.live) ELSE k]
  BY <1>2, UntrackFacts
<1>5. Len(gen.live) \in DOMAIN gen.live
  <2>1. /\ Len(gen.live) \in Nat /\ DOMAIN gen.live = 1..Len(gen.live)
    BY <1>2, LenProperties
  <2>. QED  BY <2>1
<1> HIDE DEF u
<1>6. gen'.live = u /\ gen'.nextId = gen.nextId /\ gen' \in [nextId : Nat, live : Seq(Nat)]
  BY <1>1, <1>2, <1>4 DEF u
<1>7. \A i, j \in DOMAIN u : u[i] = u[j] => i = j
  BY <1>2, <1>4, <1>5
<1>8. \A i \in DOMAIN u : u[i] # gen.live[p] /\ \E k \in DOMAIN gen.live : u[i] = gen.live[k]
  BY <1>2, <1>4, <1>5
<1>9. c.id < gen'.nextId /\ gen'.nextId >= gen.nextId /\ c.type # "New"
  BY <1>2, <1>6
<1>10. \A k \in DOMAIN issued : issued[k].id = c.id => issued[k].type # "Cancel"
  BY <1>2
<1>11. \A i \in DOMAIN gen'.live :
          gen'.live[i] # c.id /\ \E k \in DOMAIN gen.live : gen'.live[i] = gen.live[k]
  BY <1>6, <1>8
<1>12. \A i, j \in DOMAIN gen'.live : gen'.live[i] = gen'.live[j] => i = j
  BY <1>6, <1>7
<1> HIDE DEF c
<1>. QED  BY <1>3, <1>6, <1>9, <1>10, <1>11, <1>12, FlowGoesOn

\* A modified order stays on the list.
LEMMA FlowModify ==
    ASSUME FlowInv, Flow!Modify
    PROVE  FlowInv'
<1>1. PICK p \in DOMAIN gen.live : Flow!Issue("Modify", gen.live[p])
  BY DEF Flow!Modify
<1> DEFINE c == [type |-> "Modify", id |-> gen.live[p]]
<1>2. /\ gen' = gen
      /\ gen \in [nextId : Nat, live : Seq(Nat)]
      /\ gen.nextId \in Nat
      /\ gen.live[p] \in Nat /\ gen.live[p] < gen.nextId
      /\ \A i, j \in DOMAIN gen.live : gen.live[i] = gen.live[j] => i = j
      /\ \A k \in DOMAIN issued : issued[k].id = gen.live[p] => issued[k].type # "Cancel"
  BY ElementOfSeq, LenProperties DEF FlowInv, Flow!Modify
<1>3. c \in IssuedCommand /\ issued' = Append(issued, c)
  BY <1>1, <1>2 DEF Flow!Issue, IssuedCommand
<1>4. c.id < gen'.nextId /\ gen'.nextId >= gen.nextId /\ c.type = "Modify"
  BY <1>2
<1>5. \A k \in DOMAIN issued : issued[k].id = c.id => issued[k].type # "Cancel"
  BY <1>2
<1>6. /\ gen' \in [nextId : Nat, live : Seq(Nat)]
      /\ \A i, j \in DOMAIN gen'.live : gen'.live[i] = gen'.live[j] => i = j
      /\ \A i \in DOMAIN gen'.live : \E k \in DOMAIN gen.live : gen'.live[i] = gen.live[k]
  BY <1>2
<1>7. c.type # "Cancel" /\ c.type # "New"
  BY <1>4
<1> HIDE DEF c
<1>. QED  BY <1>3, <1>4, <1>5, <1>6, <1>7, FlowGoesOn

LEMMA FlowHolds == Spec => []FlowInv
<1>1. Init => FlowInv
  BY DEF Init, Flow!Init, FlowInv, Flow!CancelledForGood
<1>2. FlowInv /\ [Next]_vars => FlowInv'
  <2> SUFFICES ASSUME FlowInv, [Next]_vars PROVE FlowInv'
    OBVIOUS
  <2>1. CASE gen' = gen /\ issued' = issued
    BY <2>1 DEF FlowInv, Flow!CancelledForGood
  <2>2. CASE RunFlow
    <3>1. CASE Flow!MakeNew  BY <3>1, FlowMakeNew
    <3>2. CASE Flow!Cancel  BY <3>2, FlowCancel
    <3>3. CASE Flow!Modify  BY <3>3, FlowModify
    <3>4. CASE Flow!Pump \/ Flow!Read \/ Flow!Report \/ Flow!Flush
      BY <2>1, <3>4 DEF Flow!Pump, Flow!Read, Flow!Report, Flow!Flush, Flow!client
    <3>. QED  BY <2>2, <3>1, <3>2, <3>3, <3>4 DEF RunFlow, Flow!Next
  <2>3. CASE RunSubscribe \/ RunLoad
    BY <2>1, <2>3 DEF RunSubscribe, RunLoad, flowVars
  <2>4. CASE UNCHANGED vars
    BY <2>1, <2>4 DEF vars, flowVars
  <2>. QED  BY <2>2, <2>3, <2>4 DEF Next
<1>. QED  BY <1>1, <1>2, PTL DEF Spec

\* OrderFlowGenerator never names an order again that it canceled, and gives no id
\* twice: the swap with live_.back() neither loses an id nor keeps the canceled one.
THEOREM GeneratorForgets == Spec => []CancelledForGood
<1>1. FlowInv => CancelledForGood
  BY DEF FlowInv, CancelledForGood
<1>. QED  BY <1>1, FlowHolds, PTL

-----------------------------------------------------------------------------
(* The order-entry stream.                                                  *)

WireFrame == [no : Nat, type : {"New", "Cancel", "Modify", "Report"}]
Unit == [frame : WireFrame, at : Nat]
Size(f) == FrameSize[f.type]

\* What bytes are read as where no header is.
Reading == [length : Nat, fits : BOOLEAN]

\* The buffer of a reader that held x when n of the bytes of y arrived.
Arrived(x, y, n) == x \o SubSeq(y, 1, n)

StartsWith(u, buf) == Len(buf) <= Len(u) /\ \A i \in 1..Len(buf) : u[i] = buf[i]

\* From off on, u is the frames of fs that follow the first d, byte by byte, frame k
\* ending at place at[k]; what is behind them, if anything, follows a short send.
CarriesAt(at, u, off, fs, d, cut) ==
    /\ at[d] = off
    /\ \A j, k \in d..Len(fs) : j <= k => at[j] <= at[k]
    /\ \A k \in (d + 1)..Len(fs) :
          /\ at[k] = at[k - 1] + Size(fs[k])
          /\ \A i \in 1..Size(fs[k]) : u[at[k - 1] + i] = [frame |-> fs[k], at |-> i]
    /\ at[Len(fs)] < Len(u) => cut

Carries(u, off, fs, d, cut) ==
    \E at \in [d..Len(fs) -> 0..Len(u)] : CarriesAt(at, u, off, fs, d, cut)

\* The reader of a stream has the frames of fs it took, and those to come are ahead.
\* After a short send it may have taken others behind them.
Reads(got, u, off, fs, cut) ==
    /\ \A k \in 1..Len(got) : IF k <= Len(fs) THEN got[k] = Flow!Encode(fs[k]) ELSE cut
    /\ \/ Len(got) <= Len(fs) /\ Carries(u, off, fs, Len(got), cut)
       \/ Len(fs) <= Len(got) /\ cut

Reports == [k \in 1..reported |-> Flow!Frame(k, "Report")]

StreamTypes ==
    /\ up \in Seq(Unit) /\ down \in Seq(Unit) /\ in \in Seq(Unit) /\ out \in Seq(Unit)
    /\ rx \in Seq(Unit) /\ decoded \in Seq(Seq(Unit)) /\ seen \in Seq(Seq(Unit))
    /\ clean \in Seq(WireFrame) /\ short \in BOOLEAN /\ reported \in Nat

UpStream == Reads(decoded, in \o up, 0, clean, short)
DownStream == Reads(seen, rx \o (down \o out), 0, Reports, FALSE)

StreamInv == StreamTypes /\ UpStream /\ DownStream

\* Every nonempty set of naturals has a least member.
LEMMA LeastNat ==
    ASSUME NEW T, T \subseteq Nat, T # {}
    PROVE  \E x \in T : \A y \in T : x <= y
<1> DEFINE R == OpToRel(<, Nat)
<1>1. IsWellFoundedOn(R, Nat)
  BY NatLessThanWellFounded
<1>2. \A x, y \in Nat : x < y => <<x, y>> \in R
  BY DEF OpToRel
<1> HIDE DEF R
<1>3. PICK x \in T : \A y \in T : ~(<<y, x>> \in R)
  BY <1>1, WFMin
<1>4. ASSUME NEW y \in T PROVE x <= y
  <2>1. x \in Nat /\ y \in Nat
    OBVIOUS
  <2>2. ~(y < x)
    BY <1>2, <1>3, <2>1
  <2>. QED  BY <2>1, <2>2
<1>. QED  BY <1>4

\* The first n of a sequence, a part of it after the first m, and what follows.
LEMMA PartOf ==
    ASSUME NEW S, NEW s \in Seq(S), NEW m \in 0..Len(s), NEW n \in m..Len(s)
    PROVE  /\ SubSeq(s, m + 1, n) \in Seq(S)
           /\ Len(SubSeq(s, m + 1, n)) = n - m
           /\ \A i \in 1..(n - m) : SubSeq(s, m + 1, n)[i] = s[m + i]
<1> DEFINE k == m + 1
<1>1. Len(s) \in Nat /\ \A i \in 1..Len(s) : s[i] \in S
  BY LenProperties, ElementOfSeq
<1>2. k \in Int /\ n \in Int /\ k >= 1 /\ n <= Len(s) /\ n >= k - 1 /\ m \in Int
  BY <1>1
<1>3. \A i \in k..n : s[i] \in S
  BY <1>1, <1>2
<1> HIDE DEF k
<1>4. /\ SubSeq(s, k, n) \in Seq(S)
      /\ Len(SubSeq(s, k, n)) = IF k <= n THEN n - k + 1 ELSE 0
      /\ \A i \in 1..(n - k + 1) : SubSeq(s, k, n)[i] = s[k + i - 1]
  BY <1>2, <1>3, SubSeqProperties
<1>5. k = m + 1
  BY DEF k
<1>6. Len(SubSeq(s, k, n)) = n - m /\ n - k + 1 = n - m
  BY <1>2, <1>4, <1>5
<1>7. ASSUME NEW i \in 1..(n - m) PROVE SubSeq(s, k, n)[i] = s[m + i]
  <2>1. k + i - 1 = m + i /\ i \in 1..(n - k + 1)
    BY <1>2, <1>5, <1>6, <1>7
  <2>. QED  BY <1>4, <2>1
<1>. QED  BY <1>4, <1>5, <1>6, <1>7

LEMMA FirstOf ==
    ASSUME NEW S, NEW s \in Seq(S), NEW n \in 0..Len(s)
    PROVE  /\ SubSeq(s, 1, n) \in Seq(S)
           /\ Len(SubSeq(s, 1, n)) = n
           /\ \A i \in 1..n : SubSeq(s, 1, n)[i] = s[i]
<1>1. Len(s) \in Nat /\ n \in Nat /\ n <= Len(s) /\ \A i \in 1..Len(s) : s[i] \in S
  BY LenProperties, ElementOfSeq
<1>2. \A i \in 1..n : s[i] \in S
  BY <1>1
<1>3. /\ SubSeq(s, 1, n) \in Seq(S)
      /\ Len(SubSeq(s, 1, n)) = IF 1 <= n THEN n - 1 + 1 ELSE 0
      /\ \A i \in 1..(n - 1 + 1) : SubSeq(s, 1, n)[i] = s[1 + i - 1]
  BY <1>1, <1>2, SubSeqProperties
<1>. QED  BY <1>1, <1>3

LEMMA RestOf ==
    ASSUME NEW S, NEW s \in Seq(S), NEW m \in 0..Len(s)
    PROVE  /\ SubSeq(s, m + 1, Len(s)) \in Seq(S)
           /\ Len(SubSeq(s, m + 1, Len(s))) = Len(s) - m
           /\ \A i \in 1..(Len(s) - m) : SubSeq(s, m + 1, Len(s))[i] = s[m + i]
<1>1. Len(s) \in m..Len(s)
  BY LenProperties
<1>. QED  BY <1>1, PartOf

\* A reader's buffer is a part of what was ahead of it.
LEMMA ArrivedIs ==
    ASSUME NEW S, NEW x \in Seq(S), NEW y \in Seq(S), NEW n \in 0..Len(y)
    PROVE  /\ Arrived(x, y, n) \in Seq(S) /\ Len(Arrived(x, y, n)) = Len(x) + n
           /\ x \o y \in Seq(S) /\ StartsWith(x \o y, Arrived(x, y, n))
           /\ SubSeq(y, n + 1, Len(y)) \in Seq(S)
<1> DEFINE u == x \o y
           a == SubSeq(y, 1, n)
           buf == x \o a
<1>1. Len(x) \in Nat /\ Len(y) \in Nat /\ n \in Nat /\ n <= Len(y)
  BY LenProperties
<1>2. a \in Seq(S) /\ Len(a) = n /\ \A i \in 1..n : a[i] = y[i]
  BY FirstOf
<1>3. SubSeq(y, n + 1, Len(y)) \in Seq(S)
  BY RestOf
<1>4. u \in Seq(S) /\ Len(u) = Len(x) + Len(y)
      /\ \A i \in 1..(Len(x) + Len(y)) : u[i] = IF i <= Len(x) THEN x[i] ELSE y[i - Len(x)]
  BY ConcatProperties
<1> HIDE DEF a
<1>5. buf \in Seq(S) /\ Len(buf) = Len(x) + n
      /\ \A i \in 1..(Len(x) + n) : buf[i] = IF i <= Len(x) THEN x[i] ELSE a[i - Len(x)]
  BY <1>2, ConcatProperties
<1> HIDE DEF u, buf
<1>6. \A i \in 1..Len(buf) : u[i] = buf[i]
  <2> SUFFICES ASSUME NEW i \in 1..Len(buf) PROVE u[i] = buf[i]
    OBVIOUS
  <2>1. i \in 1..(Len(x) + n) /\ i \in 1..(Len(x) + Len(y))
    BY <1>1, <1>5
  <2>2. CASE i <= Len(x)
    BY <1>4, <1>5, <2>1, <2>2
  <2>3. CASE ~(i <= Len(x))
    <3>1. i - Len(x) \in 1..n
      BY <1>1, <2>1, <2>3
    <3>2. u[i] = y[i - Len(x)] /\ buf[i] = a[i - Len(x)]
      BY <1>4, <1>5, <2>1, <2>3
    <3>. QED  BY <1>2, <3>1, <3>2
  <2>. QED  BY <2>2, <2>3
<1>7. Len(buf) <= Len(u)
  BY <1>1, <1>4, <1>5
<1>. QED  BY <1>3, <1>4, <1>5, <1>6, <1>7 DEF Arrived, StartsWith, u, a, buf

\* What a reader keeps of its buffer and what has not arrived are the rest of what was
\* ahead of it, from where it stopped.
LEMMA StreamGoesOn ==
    ASSUME NEW S, NEW x \in Seq(S), NEW y \in Seq(S), NEW n \in 0..Len(y), NEW off \in 0..Len(Arrived(x, y, n))
    PROVE  /\ SubSeq(Arrived(x, y, n), off + 1, Len(Arrived(x, y, n))) \in Seq(S)
           /\ SubSeq(Arrived(x, y, n), off + 1, Len(Arrived(x, y, n))) \o SubSeq(y, n + 1, Len(y))
                 = SubSeq(x \o y, off + 1, Len(x \o y))
<1> DEFINE buf == Arrived(x, y, n)
           u == x \o y
           b == SubSeq(y, n + 1, Len(y))
           c == SubSeq(buf, off + 1, Len(buf))
           w == SubSeq(u, off + 1, Len(u))
<1>1. Len(x) \in Nat /\ Len(y) \in Nat /\ n \in Nat /\ n <= Len(y) /\ off \in Nat /\ off <= Len(x) + n
  BY LenProperties, ArrivedIs
<1>3. b \in Seq(S) /\ Len(b) = Len(y) - n /\ \A i \in 1..(Len(y) - n) : b[i] = y[n + i]
  BY RestOf
<1>4. u \in Seq(S) /\ Len(u) = Len(x) + Len(y)
      /\ \A i \in 1..(Len(x) + Len(y)) : u[i] = IF i <= Len(x) THEN x[i] ELSE y[i - Len(x)]
  BY ConcatProperties
<1>5. buf \in Seq(S) /\ Len(buf) = Len(x) + n /\ \A i \in 1..Len(buf) : u[i] = buf[i]
  BY ArrivedIs DEF StartsWith
<1> HIDE DEF b, u, buf
<1>6. \A i \in 1..Len(buf) : u[i] = buf[i]
  BY <1>5
<1>7. /\ c \in Seq(S) /\ Len(c) = Len(x) + n - off
      /\ \A i \in 1..(Len(x) + n - off) : c[i] = buf[off + i]
  <2>1. off \in 0..Len(buf) /\ Len(buf) - off = Len(x) + n - off
    BY <1>1, <1>5
  <2>2. buf \in Seq(S)
    BY <1>5
  <2>3. c \in Seq(S) /\ Len(c) = Len(buf) - off /\ \A i \in 1..(Len(buf) - off) : c[i] = buf[off + i]
    BY <2>1, <2>2, RestOf
  <2>. QED  BY <2>1, <2>3
<1>8. /\ w \in Seq(S) /\ Len(w) = Len(x) + Len(y) - off
      /\ \A i \in 1..(Len(x) + Len(y) - off) : w[i] = u[off + i]
  <2>1. off \in 0..Len(u) /\ Len(u) - off = Len(x) + Len(y) - off
    BY <1>1, <1>4
  <2>2. u \in Seq(S)
    BY <1>4
  <2>3. w \in Seq(S) /\ Len(w) = Len(u) - off /\ \A i \in 1..(Len(u) - off) : w[i] = u[off + i]
    BY <2>1, <2>2, RestOf
  <2>. QED  BY <2>1, <2>3
<1> HIDE DEF c, w
<1>9. c \o b = w
  <2>1. /\ c \o b \in Seq(S) /\ Len(c \o b) = Len(c) + Len(b)
        /\ \A i \in 1..(Len(c) + Len(b)) : (c \o b)[i] = IF i <= Len(c) THEN c[i] ELSE b[i - Len(c)]
    BY <1>3, <1>7, ConcatProperties
  <2>2. Len(c \o b) = Len(w)
    BY <1>1, <1>3, <1>7, <1>8, <2>1
  <2>3. ASSUME NEW i \in 1..Len(c \o b) PROVE (c \o b)[i] = w[i]
    <3>1. i \in 1..(Len(x) + Len(y) - off) /\ w[i] = u[off + i] /\ off + i \in 1..(Len(x) + Len(y))
      BY <1>1, <1>8, <2>2, <2>3
    <3>2. CASE i <= Len(c)
      <4>1. i \in 1..(Len(x) + n - off) /\ off + i \in 1..Len(buf) /\ (c \o b)[i] = c[i]
        BY <1>1, <1>5, <1>7, <2>1, <3>1, <3>2
      <4>. QED  BY <1>6, <1>7, <3>1, <4>1
    <3>3. CASE i > Len(c)
      <4> DEFINE j == i - Len(c)
                 k == off + i
      <4>1. j \in 1..(Len(y) - n) /\ n + j = k - Len(x) /\ k > Len(x) /\ k \in 1..(Len(x) + Len(y))
        BY <1>1, <1>7, <3>1, <3>3
      <4>2. (c \o b)[i] = b[j] /\ w[i] = u[k]
        <5>1. ~(i <= Len(c))
          BY <1>7, <3>1, <3>3
        <5>2. i \in 1..(Len(c) + Len(b))
          BY <2>1, <2>3
        <5>3. (c \o b)[i] = b[j]
          BY <2>1, <5>1, <5>2
        <5>. QED  BY <3>1, <5>3
      <4> HIDE DEF j, k
      <4>3. b[j] = y[n + j]
        BY <1>3, <4>1
      <4>4. ~(k <= Len(x))
        BY <1>1, <4>1
      <4>5. u[k] = y[k - Len(x)]
        BY <1>4, <4>1, <4>4
      <4>. QED  BY <4>1, <4>2, <4>3, <4>5
    <3>4. i \in Int /\ Len(c) \in Int
      BY <1>1, <1>7, <3>1
    <3>. QED  BY <3>2, <3>3, <3>4
  <2>. QED  BY <1>8, <2>1, <2>2, <2>3, SeqEqual
<1>. QED  BY <1>7, <1>9 DEF u, b, c, w, buf

\* The same of the bytes of frames.
LEMMA UnitsGoOn ==
    ASSUME NEW x \in Seq(Unit), NEW y \in Seq(Unit), NEW n \in 0..Len(y)
    PROVE  \A off \in 0..Len(Arrived(x, y, n)) :
              /\ SubSeq(Arrived(x, y, n), off + 1, Len(Arrived(x, y, n))) \in Seq(Unit)
              /\ SubSeq(Arrived(x, y, n), off + 1, Len(Arrived(x, y, n))) \o SubSeq(y, n + 1, Len(y))
                    = SubSeq(x \o y, off + 1, Len(x \o y))
<1> TAKE off \in 0..Len(Arrived(x, y, n))
<1>. QED  BY StreamGoesOn, ZenonT(60)

\* The sizes of the wire.
LEMMA HeaderFacts == HeaderSize \in Nat /\ 1 <= HeaderSize
  BY ProgramsAssumption

LEMMA Misreadings == \A garbage \in Garbage : garbage \in Reading
  BY ProgramsAssumption DEF Reading

\* A frame in bytes.
LEMMA Units ==
    ASSUME NEW f \in WireFrame
    PROVE  /\ Size(f) \in Nat /\ HeaderSize <= Size(f) /\ 1 <= Size(f)
           /\ Flow!Encode(f) \in Seq(Unit)
           /\ Len(Flow!Encode(f)) = Size(f)
           /\ \A i \in 1..Size(f) : Flow!Encode(f)[i] = [frame |-> f, at |-> i]
<1>1. Size(f) \in Nat /\ HeaderSize <= Size(f) /\ 1 <= Size(f)
  <2>1. f.type \in {"New", "Cancel", "Modify", "Report"}
    BY DEF WireFrame
  <2>2. FrameSize[f.type] \in Nat /\ FrameSize[f.type] >= HeaderSize /\ HeaderSize \in Nat \ {0}
    BY <2>1, ProgramsAssumption
  <2>. QED  BY <2>2 DEF Size
<1>2. Flow!Encode(f) = [i \in 1..Size(f) |-> [frame |-> f, at |-> i]]
  BY DEF Flow!Encode, Size
<1>3. \A i \in 1..Size(f) : [frame |-> f, at |-> i] \in Unit
  BY <1>1 DEF Unit
<1>4. Size(f) \in Nat
  BY <1>1
<1> HIDE DEF Size
<1>5. Flow!Encode(f) \in [1..Size(f) -> Unit]
  BY <1>2, <1>3
<1>6. Flow!Encode(f) \in Seq(Unit)
  BY <1>4, <1>5
<1>7. Len(Flow!Encode(f)) = Size(f)
  BY <1>2, <1>4
<1>. QED  BY <1>1, <1>2, <1>6, <1>7

\* The next frame of a stream, and the stream behind it.
LEMMA CarriesNext ==
    ASSUME NEW u \in Seq(Unit), NEW off \in Nat, NEW fs \in Seq(WireFrame), NEW d \in Nat, d < Len(fs),
           NEW cut, Carries(u, off, fs, d, cut)
    PROVE  /\ off + Size(fs[d + 1]) <= Len(u)
           /\ \A i \in 1..Size(fs[d + 1]) : u[off + i] = [frame |-> fs[d + 1], at |-> i]
           /\ Carries(u, off + Size(fs[d + 1]), fs, d + 1, cut)
<1>1. PICK at \in [d..Len(fs) -> 0..Len(u)] : CarriesAt(at, u, off, fs, d, cut)
  BY DEF Carries
<1> DEFINE n == Len(fs)
           e == d + 1
           a == [k \in e..n |-> at[k]]
<1>2. n \in Nat /\ e \in Nat /\ e \in (d + 1)..n /\ e \in d..n /\ d \in d..n /\ n \in e..n /\ e - 1 = d
      /\ (e..n) \subseteq (d..n) /\ ((e + 1)..n) \subseteq ((d + 1)..n)
      /\ Len(u) \in Nat
  BY LenProperties
<1>3. fs[e] \in WireFrame
  <2>1. e \in 1..Len(fs)
    BY <1>2
  <2>. QED  BY <2>1, ElementOfSeq
<1>4. Size(fs[e]) \in Nat
  BY <1>3, Units
<1>5. at[d] = off /\ at[e] = off + Size(fs[e]) /\ at[e] \in 0..Len(u)
      /\ \A i \in 1..Size(fs[e]) : u[off + i] = [frame |-> fs[e], at |-> i]
  BY <1>1, <1>2 DEF CarriesAt
<1>6. a \in [e..n -> 0..Len(u)] /\ \A k \in e..n : a[k] = at[k]
  BY <1>1, <1>2
<1>7. \A k \in (e + 1)..n : k \in e..n /\ k - 1 \in e..n /\ k \in (d + 1)..n
  BY <1>2
<1> HIDE DEF n, e, a
<1>8. CarriesAt(a, u, off + Size(fs[e]), fs, e, cut)
  <2>1. a[e] = off + Size(fs[e])
    BY <1>2, <1>5, <1>6
  <2>2. \A j, k \in e..n : j <= k => a[j] <= a[k]
    BY <1>1, <1>2, <1>6 DEF CarriesAt, n
  <2>3. ASSUME NEW k \in (e + 1)..n
        PROVE  /\ a[k] = a[k - 1] + Size(fs[k])
               /\ \A i \in 1..Size(fs[k]) : u[a[k - 1] + i] = [frame |-> fs[k], at |-> i]
    BY <1>1, <1>6, <1>7 DEF CarriesAt, n
  <2>4. a[n] < Len(u) => cut
    BY <1>1, <1>2, <1>6 DEF CarriesAt, n
  <2>. QED  BY <2>1, <2>2, <2>3, <2>4 DEF CarriesAt, n
<1>9. Carries(u, off + Size(fs[e]), fs, e, cut)
  BY <1>6, <1>8 DEF Carries, n
<1>. QED  BY <1>2, <1>4, <1>5, <1>9 DEF e

\* What was taken is cut off.
LEMMA CarriesRest ==
    ASSUME NEW u \in Seq(Unit), NEW off \in 0..Len(u), NEW fs \in Seq(WireFrame), NEW d \in 0..Len(fs),
           NEW cut, Carries(u, off, fs, d, cut)
    PROVE  Carries(SubSeq(u, off + 1, Len(u)), 0, fs, d, cut)
<1>1. PICK at \in [d..Len(fs) -> 0..Len(u)] : CarriesAt(at, u, off, fs, d, cut)
  BY DEF Carries
<1> DEFINE n == Len(fs)
           v == SubSeq(u, off + 1, Len(u))
           a == [k \in d..n |-> at[k] - off]
<1>2. n \in Nat /\ d \in Nat /\ d <= n /\ d \in d..n /\ n \in d..n /\ Len(u) \in Nat /\ off \in Nat
  BY LenProperties
<1>3. v \in Seq(Unit) /\ Len(v) = Len(u) - off /\ \A i \in 1..(Len(u) - off) : v[i] = u[off + i]
  BY RestOf
<1> HIDE DEF v
<1>4. \A k \in d..n : at[k] \in Nat /\ off <= at[k] /\ at[k] <= Len(u) /\ a[k] = at[k] - off
  <2>1. \A k \in d..n : d <= k /\ at[k] \in 0..Len(u)
    BY <1>1, <1>2
  <2>2. at[d] = off /\ \A j, k \in d..n : j <= k => at[j] <= at[k]
    BY <1>1 DEF CarriesAt
  <2>. QED  BY <1>2, <2>1, <2>2
<1>5. a \in [d..n -> 0..Len(v)]
  <2>1. \A k \in d..n : at[k] - off \in 0..Len(v)
    BY <1>2, <1>3, <1>4
  <2>. QED  BY <2>1
<1>6. \A k \in (d + 1)..n : k \in d..n /\ k - 1 \in d..n /\ k - 1 \in Nat /\ k \in 1..n
  BY <1>2
<1> HIDE DEF n, a
<1>7. CarriesAt(a, v, 0, fs, d, cut)
  <2>1. a[d] = 0
    BY <1>1, <1>2, <1>4 DEF CarriesAt
  <2>2. ASSUME NEW j \in d..n, NEW k \in d..n, j <= k PROVE a[j] <= a[k]
    <3>1. at[j] <= at[k]
      BY <1>1, <2>2 DEF CarriesAt, n
    <3>. QED  BY <1>2, <1>4, <3>1
  <2>3. ASSUME NEW k \in (d + 1)..n
        PROVE  /\ a[k] = a[k - 1] + Size(fs[k])
               /\ \A i \in 1..Size(fs[k]) : v[a[k - 1] + i] = [frame |-> fs[k], at |-> i]
    <3>1. fs[k] \in WireFrame
      BY <1>6, ElementOfSeq DEF n
    <3>2. Size(fs[k]) \in Nat
      BY <3>1, Units
    <3>3. /\ at[k] = at[k - 1] + Size(fs[k])
          /\ \A i \in 1..Size(fs[k]) : u[at[k - 1] + i] = [frame |-> fs[k], at |-> i]
      BY <1>1, <2>3 DEF CarriesAt, n
    <3>4. PICK p \in Nat : p = at[k - 1] /\ off <= p /\ a[k - 1] = p - off
      BY <1>4, <1>6
    <3>5. PICK q \in Nat : q = at[k] /\ off <= q /\ q <= Len(u) /\ a[k] = q - off
      BY <1>4, <1>6
    <3>6. PICK z \in Nat : z = Size(fs[k])
      BY <3>2
    <3>7. q = p + z /\ \A i \in 1..z : u[p + i] = [frame |-> fs[k], at |-> i]
      BY <3>3, <3>4, <3>5, <3>6
    <3>8. ASSUME NEW i \in 1..z PROVE (p - off) + i \in 1..(Len(u) - off) /\ off + ((p - off) + i) = p + i
      <4>1. PICK y \in Nat : y = Len(u)
        BY <1>2
      <4>2. q = p + z /\ off <= p /\ q <= y
        BY <3>4, <3>5, <3>7, <4>1
      <4>3. off \in Nat
        BY <1>2
      <4>4. (p - off) + i \in 1..(y - off) /\ off + ((p - off) + i) = p + i
        BY <4>2, <4>3
      <4>. QED  BY <4>1, <4>4
    <3>9. \A i \in 1..z : v[(p - off) + i] = u[p + i]
      BY <1>3, <3>8
    <3>10. q - off = (p - off) + z
      BY <1>2, <3>7
    <3>. QED  BY <3>4, <3>5, <3>6, <3>7, <3>9, <3>10
  <2>4. a[n] < Len(v) => cut
    <3>1. a[n] < Len(v) => at[n] < Len(u)
      BY <1>2, <1>3, <1>4
    <3>. QED  BY <1>1, <3>1 DEF CarriesAt, n
  <2>. QED  BY <2>1, <2>2, <2>3, <2>4 DEF CarriesAt, n
<1>. QED  BY <1>5, <1>7 DEF Carries, n, v

\* A frame sent in full.
LEMMA CarriesOneMore ==
    ASSUME NEW u \in Seq(Unit), NEW off \in Nat, NEW fs \in Seq(WireFrame), NEW d \in 0..Len(fs),
           NEW cut, NEW f \in WireFrame, Carries(u, off, fs, d, FALSE)
    PROVE  Carries(u \o Flow!Encode(f), off, Append(fs, f), d, cut)
<1>1. PICK at \in [d..Len(fs) -> 0..Len(u)] : CarriesAt(at, u, off, fs, d, FALSE)
  BY DEF Carries
<1> DEFINE n == Len(fs)
           e == n + 1
           g == Append(fs, f)
           v == u \o Flow!Encode(f)
           a == [k \in d..e |-> IF k = e THEN Len(u) + Size(f) ELSE at[k]]
<1>2. n \in Nat /\ d \in Nat /\ d <= n /\ e \in Nat /\ Len(u) \in Nat /\ n \in d..n /\ d \in d..n /\ n < e
  BY LenProperties
<1>3. Size(f) \in Nat /\ 1 <= Size(f) /\ Flow!Encode(f) \in Seq(Unit) /\ Len(Flow!Encode(f)) = Size(f)
      /\ \A i \in 1..Size(f) : Flow!Encode(f)[i] = [frame |-> f, at |-> i]
  BY Units
<1>4. Len(v) = Len(u) + Size(f)
      /\ \A i \in 1..(Len(u) + Size(f)) : v[i] = IF i <= Len(u) THEN u[i] ELSE Flow!Encode(f)[i - Len(u)]
  <2>1. PICK c \in Seq(Unit) : c = Flow!Encode(f) /\ Len(c) = Size(f)
    BY <1>3
  <2>2. Len(u \o c) = Len(u) + Len(c)
        /\ \A i \in 1..(Len(u) + Len(c)) : (u \o c)[i] = IF i <= Len(u) THEN u[i] ELSE c[i - Len(u)]
    BY ConcatProperties
  <2>. QED  BY <2>1, <2>2
<1>5. Len(g) = e /\ g[e] = f /\ \A k \in 1..n : g[k] = fs[k]
  BY AppendProperties
<1>6. /\ \A k \in d..n : k \in d..e /\ k # e /\ at[k] \in Nat /\ at[k] <= Len(u)
      /\ \A k \in d..e : k = e \/ k \in d..n
      /\ e \in d..e
  <2>1. \A k \in d..n : at[k] \in 0..Len(u)
    BY <1>1
  <2>2. \A k \in d..n : at[k] \in Nat /\ at[k] <= Len(u)
    BY <1>2, <2>1
  <2>3. (\A k \in d..n : k \in d..e /\ k # e) /\ e \in d..e
    BY <1>2
  <2>4. \A k \in d..e : k = e \/ k \in d..n
    BY <1>2
  <2>. QED  BY <2>2, <2>3, <2>4
<1>7. at[n] = Len(u)
  <2>1. ~(at[n] < Len(u))
    BY <1>1 DEF CarriesAt
  <2>. QED  BY <1>2, <1>6, <2>1
<1> HIDE DEF n, e, g, v
<1>8. a[e] = Len(u) + Size(f) /\ \A k \in d..n : a[k] = at[k]
  BY <1>6
<1>9. a \in [d..e -> 0..Len(v)]
  <2>1. Len(u) + Size(f) \in 0..Len(v) /\ \A k \in d..n : at[k] \in 0..Len(v)
    BY <1>2, <1>3, <1>4, <1>6
  <2>. QED  BY <1>6, <2>1
<1> HIDE DEF a
<1>10. CarriesAt(a, v, off, g, d, cut)
  <2>1. a[d] = off
    BY <1>1, <1>2, <1>8 DEF CarriesAt
  <2>2. ASSUME NEW j \in d..e, NEW k \in d..e, j <= k PROVE a[j] <= a[k]
    <3>1. CASE k = e /\ j = e
      BY <1>2, <1>3, <1>8, <3>1
    <3>2. CASE k = e /\ j \in d..n
      BY <1>2, <1>3, <1>6, <1>8, <3>2
    <3>3. CASE k \in d..n
      <4>1. j \in d..n
        BY <1>2, <1>6, <2>2, <3>3
      <4>2. at[j] <= at[k]
        BY <1>1, <2>2, <3>3, <4>1 DEF CarriesAt, n
      <4>. QED  BY <1>8, <3>3, <4>1, <4>2
    <3>. QED  BY <1>6, <3>1, <3>2, <3>3
  <2>3. ASSUME NEW k \in (d + 1)..e
        PROVE  /\ a[k] = a[k - 1] + Size(g[k])
               /\ \A i \in 1..Size(g[k]) : v[a[k - 1] + i] = [frame |-> g[k], at |-> i]
    <3>1. CASE k = e
      <4>1. k - 1 = n /\ a[k - 1] = Len(u) /\ g[k] = f /\ a[k] = Len(u) + Size(f)
        BY <1>2, <1>5, <1>7, <1>8, <3>1 DEF e
      <4>2. ASSUME NEW i \in 1..Size(f) PROVE v[Len(u) + i] = Flow!Encode(f)[i]
        <5>1. PICK z \in Nat : z = Size(f)
          BY <1>3
        <5>2. Len(u) + i \in 1..(Len(u) + z) /\ ~(Len(u) + i <= Len(u)) /\ (Len(u) + i) - Len(u) = i
          BY <1>2, <4>2, <5>1
        <5>. QED  BY <1>4, <5>1, <5>2
      <4>. QED  BY <1>3, <4>1, <4>2
    <3>2. CASE k # e
      <4>1. k \in (d + 1)..n /\ k \in d..n /\ k - 1 \in d..n /\ k \in 1..n
        BY <1>2, <3>2 DEF e
      <4>2. g[k] = fs[k] /\ a[k] = at[k] /\ a[k - 1] = at[k - 1]
        BY <1>5, <1>8, <4>1
      <4>3. fs[k] \in WireFrame
        BY <4>1, ElementOfSeq DEF n
      <4>4. PICK z \in Nat : z = Size(fs[k])
        BY <4>3, Units
      <4>5. PICK p \in Nat : p = at[k - 1]
        BY <1>6, <4>1
      <4>6. at[k] = p + z /\ \A i \in 1..z : u[p + i] = [frame |-> fs[k], at |-> i]
        BY <1>1, <4>1, <4>4, <4>5 DEF CarriesAt, n
      <4>7. p + z <= Len(u)
        BY <1>6, <4>1, <4>6
      <4>8. ASSUME NEW i \in 1..z PROVE v[p + i] = u[p + i]
        <5>1. PICK y \in Nat : y = Size(f)
          BY <1>3
        <5>2. p + i \in 1..(Len(u) + y) /\ p + i <= Len(u)
          BY <1>2, <4>5, <4>7, <4>8, SMTT(20)
        <5>. QED  BY <1>4, <5>1, <5>2
      <4>. QED  BY <4>2, <4>4, <4>5, <4>6, <4>8, SMTT(20)
    <3>. QED  BY <3>1, <3>2
  <2>4. ~(a[e] < Len(v))
    BY <1>2, <1>3, <1>4, <1>8
  <2>. QED  BY <1>5, <2>1, <2>2, <2>3, <2>4 DEF CarriesAt
<1>. QED  BY <1>5, <1>9, <1>10 DEF Carries, g, v

\* What comes after a short send.
LEMMA CarriesTail ==
    ASSUME NEW u \in Seq(Unit), NEW off \in Nat, NEW fs \in Seq(WireFrame), NEW d \in 0..Len(fs),
           NEW cut, NEW w \in Seq(Unit), Carries(u, off, fs, d, cut)
    PROVE  Carries(u \o w, off, fs, d, TRUE)
<1>1. PICK at \in [d..Len(fs) -> 0..Len(u)] : CarriesAt(at, u, off, fs, d, cut)
  BY DEF Carries
<1> DEFINE n == Len(fs)
           v == u \o w
<1>2. n \in Nat /\ d \in Nat /\ d <= n /\ Len(u) \in Nat /\ Len(w) \in Nat
  BY LenProperties
<1>3. Len(v) = Len(u) + Len(w)
      /\ \A i \in 1..(Len(u) + Len(w)) : v[i] = IF i <= Len(u) THEN u[i] ELSE w[i - Len(u)]
  BY ConcatProperties
<1> HIDE DEF v
<1>4. \A k \in d..n : at[k] \in 0..Len(u) /\ at[k] \in 0..Len(v)
  BY <1>1, <1>2, <1>3
<1>5. at \in [d..n -> 0..Len(v)]
  BY <1>1, <1>4
<1>6. ASSUME NEW k \in (d + 1)..n, NEW i \in 1..Size(fs[k]) PROVE v[at[k - 1] + i] = u[at[k - 1] + i]
  <2>1. k \in 1..n /\ k \in d..n /\ k - 1 \in d..n
    BY <1>2
  <2>2. fs[k] \in WireFrame
    BY <2>1, ElementOfSeq
  <2>3. PICK z \in Nat : z = Size(fs[k])
    BY <2>2, Units
  <2>4. PICK p \in Nat : p = at[k - 1]
    BY <1>4, <2>1
  <2>5. at[k] = p + z
    BY <1>1, <2>3, <2>4 DEF CarriesAt
  <2>6. p + i \in 1..(Len(u) + Len(w)) /\ p + i <= Len(u)
    <3>1. p + z <= Len(u)
      BY <1>4, <2>1, <2>5
    <3>2. i \in 1..z
      BY <1>6, <2>3
    <3>. QED  BY <1>2, <2>4, <3>1, <3>2, SMTT(20)
  <2>. QED  BY <1>3, <2>4, <2>6
<1>7. CarriesAt(at, v, off, fs, d, TRUE)
  BY <1>1, <1>6 DEF CarriesAt
<1>. QED  BY <1>5, <1>7 DEF Carries, v

\* peek_header gives nothing, not even for a part of a header, or a length that the
\* buffer holds; where a frame starts it is the length of that frame.
LEMMA Peek ==
    ASSUME NEW buf \in Seq(Unit), NEW off \in 0..Len(buf),
           NEW garbage \in Reading,
           NEW n, n = Flow!PeekLength(buf, off, garbage)
    PROVE  /\ n \in Nat /\ off + n <= Len(buf)
           /\ n # 0 => off + HeaderSize <= Len(buf) /\ off + 1 \in 1..Len(buf)
           /\ n # 0 /\ Flow!Headed(buf, off) => n = Size(buf[off + 1].frame)
<1> DEFINE left == Len(buf) - off
           k == off + 1
           length == Flow!Peeked(buf, off, garbage).length
<1>1. Len(buf) \in Nat /\ off \in Nat /\ off <= Len(buf) /\ HeaderSize \in Nat /\ 1 <= HeaderSize
      /\ left \in Nat
  <2>1. Len(buf) \in Nat
    BY LenProperties
  <2>. QED  BY <2>1, HeaderFacts
<1>2. n = IF left < HeaderSize THEN 0 ELSE IF length < HeaderSize \/ left < length THEN 0 ELSE length
  BY DEF Flow!PeekLength
<1>3. CASE left < HeaderSize
  BY <1>1, <1>2, <1>3
<1>4. CASE ~(left < HeaderSize)
  <2>1. k \in 1..Len(buf) /\ off + HeaderSize <= Len(buf)
    BY <1>1, <1>4
  <2>2. buf[k] \in Unit
    BY <2>1, ElementOfSeq
  <2>3. Size(buf[k].frame) \in Nat
    BY <2>2, Units DEF Unit
  <2>4. length \in Nat /\ (Flow!Headed(buf, off) => length = Size(buf[k].frame))
    BY <2>3 DEF Flow!Peeked, Size, Reading
  <2> HIDE DEF length
  <2>5. n = 0 \/ (n = length /\ off + n <= Len(buf))
    BY <1>1, <1>2, <2>4
  <2>. QED  BY <1>1, <2>1, <2>4, <2>5
<1>. QED  BY <1>3, <1>4

\* A round of a decode loop at a place of its buffer: what is read there is the next
\* frame of the stream, or follows a short send.
LEMMA RoundReads ==
    ASSUME NEW buf \in Seq(Unit), NEW u \in Seq(Unit), StartsWith(u, buf),
           NEW fs \in Seq(WireFrame), NEW cut \in BOOLEAN, NEW garbage \in Reading,
           NEW got \in Seq(Seq(Unit)), NEW off \in 0..Len(buf), Reads(got, u, off, fs, cut),
           NEW n, n = Flow!PeekLength(buf, off, garbage), n # 0,
           NEW more, more = IF Flow!Peeked(buf, off, garbage).fits
                            THEN Append(got, SubSeq(buf, off + 1, off + n)) ELSE got
    PROVE  more \in Seq(Seq(Unit)) /\ Reads(more, u, off + n, fs, cut)
<1> DEFINE k == off + 1
           end == off + n
           f == SubSeq(buf, k, end)
           d == Len(got)
<1>1. /\ n \in Nat /\ end \in 0..Len(buf) /\ off \in Nat /\ k \in 1..Len(buf) /\ off <= end
      /\ (Flow!Headed(buf, off) => n = Size(buf[k].frame))
      /\ HeaderSize \in Nat /\ off + HeaderSize <= Len(buf)
      /\ Len(buf) \in Nat /\ Len(u) \in Nat /\ d \in Nat /\ Len(fs) \in Nat /\ n > 0
      /\ Len(buf) <= Len(u)
  <2>1. /\ n \in Nat /\ off + n <= Len(buf) /\ off + 1 \in 1..Len(buf)
        /\ off + HeaderSize <= Len(buf)
        /\ (Flow!Headed(buf, off) => n = Size(buf[k].frame))
    BY Peek
  <2>2. Len(buf) \in Nat /\ Len(u) \in Nat /\ d \in Nat /\ Len(fs) \in Nat /\ HeaderSize \in Nat
    BY LenProperties, HeaderFacts
  <2>3. Len(buf) <= Len(u)
    BY DEF StartsWith
  <2>. QED  BY <2>1, <2>2, <2>3
<1>2. f \in Seq(Unit) /\ Len(f) = n /\ \A i \in 1..n : f[i] = buf[off + i]
  <2>1. off \in 0..Len(buf) /\ end \in off..Len(buf) /\ end - off = n
    BY <1>1
  <2> HIDE DEF end, k
  <2>2. SubSeq(buf, off + 1, end) \in Seq(Unit) /\ Len(SubSeq(buf, off + 1, end)) = end - off
        /\ \A i \in 1..(end - off) : SubSeq(buf, off + 1, end)[i] = buf[off + i]
    BY <2>1, PartOf
  <2>. QED  BY <2>1, <2>2 DEF k
<1> HIDE DEF f
<1>3. more = IF Flow!Peeked(buf, off, garbage).fits THEN Append(got, f) ELSE got
  BY DEF f
<1>4. /\ Append(got, f) \in Seq(Seq(Unit)) /\ Len(Append(got, f)) = d + 1
      /\ \A j \in 1..d : Append(got, f)[j] = got[j]
      /\ Append(got, f)[d + 1] = f
  BY <1>2, AppendProperties
<1>5. more \in Seq(Seq(Unit))
  BY <1>3, <1>4
<1>6. \A j \in 1..d : IF j <= Len(fs) THEN got[j] = Flow!Encode(fs[j]) ELSE cut
  BY DEF Reads
<1>7. CASE d < Len(fs) /\ Carries(u, off, fs, d, cut)
  <2> DEFINE e == d + 1
             g == fs[e]
  <2>1. /\ off + Size(g) <= Len(u)
        /\ \A i \in 1..Size(g) : u[off + i] = [frame |-> g, at |-> i]
        /\ Carries(u, off + Size(g), fs, e, cut)
    BY <1>1, <1>7, CarriesNext
  <2>2. e \in 1..Len(fs) /\ g \in WireFrame
    <3>1. e \in 1..Len(fs)
      BY <1>1, <1>7
    <3>. QED  BY <3>1, ElementOfSeq
  <2>3. Size(g) \in Nat /\ HeaderSize <= Size(g) /\ 1 <= Size(g) /\ Flow!Encode(g) \in Seq(Unit) /\ Len(Flow!Encode(g)) = Size(g)
        /\ \A i \in 1..Size(g) : Flow!Encode(g)[i] = [frame |-> g, at |-> i]
    BY <2>2, Units
  <2> HIDE DEF e, g
  <2>4. buf[k].frame = g /\ Flow!Headed(buf, off)
    <3>1. ASSUME NEW i \in 1..HeaderSize PROVE buf[off + i] = [frame |-> g, at |-> i]
      <4>1. i \in 1..Size(g) /\ off + i \in 1..Len(buf)
        <5>1. PICK z \in Nat : z = Size(g) /\ HeaderSize <= z
          BY <2>3
        <5>2. i \in Nat /\ 1 <= i /\ i <= HeaderSize
          BY <1>1, <3>1
        <5>3. i \in 1..z
          BY <5>1, <5>2, HeaderFacts
        <5>4. off + i \in 1..Len(buf)
          <6>1. off \in Nat /\ Len(buf) \in Nat /\ off + HeaderSize <= Len(buf)
            BY <1>1
          <6>. QED  BY <5>2, <6>1, HeaderFacts
        <5>. QED  BY <5>1, <5>3, <5>4
      <4>2. u[off + i] = buf[off + i]
        BY <4>1 DEF StartsWith
      <4>. QED  BY <2>1, <4>1, <4>2
    <3>2. 1 \in 1..HeaderSize
      BY HeaderFacts
    <3>3. buf[k] = [frame |-> g, at |-> 1]
      BY <3>1, <3>2
    <3>4. buf[k].frame = g
      BY <3>3
    <3>. QED  BY <3>1, <3>4 DEF Flow!Headed, k
  <2>5. n = Size(g) /\ Flow!Peeked(buf, off, garbage).fits
    BY <1>1, <2>4 DEF Flow!Peeked
  <2>6. f = Flow!Encode(g)
    <3>1. ASSUME NEW i \in 1..n PROVE f[i] = Flow!Encode(g)[i]
      <4>1. off + i \in 1..Len(buf)
        BY <1>1
      <4>2. f[i] = buf[off + i]
        BY <1>2
      <4>3. f[i] = u[off + i]
        BY <4>1, <4>2 DEF StartsWith
      <4>. QED  BY <2>1, <2>3, <2>5, <4>3
    <3>. QED  BY <1>2, <2>3, <2>5, <3>1, SeqEqual
  <2>7. more = Append(got, f) /\ Len(more) = e
    BY <1>3, <1>4, <2>5 DEF e
  <2>8. ASSUME NEW j \in 1..e PROVE IF j <= Len(fs) THEN more[j] = Flow!Encode(fs[j]) ELSE cut
    <3>1. CASE j = e
      <4>1. more[e] = f
        BY <1>4, <2>7 DEF e
      <4>2. f = Flow!Encode(fs[e])
        BY <2>6 DEF g
      <4>3. e <= Len(fs)
        BY <1>1, <2>2
      <4>4. j <= Len(fs) /\ more[j] = Flow!Encode(fs[j])
        BY <3>1, <4>1, <4>2, <4>3
      <4>. QED  BY <4>4
    <3>2. CASE j # e
      <4>1. j \in 1..d
        <5>1. d \in Nat
          BY <1>1
        <5>2. j \in 1..(d + 1) /\ j # d + 1
          BY <3>2 DEF e
        <5>. HIDE DEF d
        <5>. QED  BY <5>1, <5>2
      <4>2. more[j] = got[j]
        BY <1>4, <2>7, <4>1
      <4>3. IF j <= Len(fs) THEN got[j] = Flow!Encode(fs[j]) ELSE cut
        BY <1>6, <4>1
      <4>. QED  BY <4>2, <4>3
    <3>. QED  BY <3>1, <3>2
  <2>9. e <= Len(fs)
    BY <2>2
  <2>10. Carries(u, off + n, fs, e, cut)
    BY <2>1, <2>5
  <2>. QED  BY <1>5, <2>7, <2>8, <2>9, <2>10 DEF Reads
<1>8. CASE Len(fs) <= d /\ cut
  <2>1. Len(more) \in {d, d + 1} /\ \A j \in 1..d : more[j] = got[j]
    BY <1>3, <1>4
  <2>2. Len(fs) <= Len(more)
    BY <1>1, <1>8, <2>1
  <2>3. ASSUME NEW j \in 1..Len(more) PROVE IF j <= Len(fs) THEN more[j] = Flow!Encode(fs[j]) ELSE cut
    <3>1. j <= Len(fs) => j \in 1..d
      BY <1>1, <1>8, <2>1
    <3>. QED  BY <1>6, <1>8, <2>1, <3>1
  <2>. QED  BY <1>5, <1>8, <2>2, <2>3 DEF Reads
<1>9. CASE d = Len(fs) /\ Carries(u, off, fs, d, cut)
  <2>1. PICK at \in [d..Len(fs) -> 0..Len(u)] : CarriesAt(at, u, off, fs, d, cut)
    BY <1>9 DEF Carries
  <2>2. at[Len(fs)] = off /\ (at[Len(fs)] < Len(u) => cut)
    BY <1>9, <2>1 DEF CarriesAt
  <2>3. off < Len(u)
    BY <1>1
  <2>4. Len(fs) <= d /\ cut
    BY <1>1, <1>9, <2>2, <2>3
  <2>. QED  BY <1>8, <2>4
<1>10. (d <= Len(fs) /\ Carries(u, off, fs, d, cut)) \/ (Len(fs) <= d /\ cut)
  BY DEF Reads
<1>11. d < Len(fs) \/ d = Len(fs) \/ ~(d <= Len(fs))
  BY <1>1
<1>. QED  BY <1>7, <1>8, <1>9, <1>10, <1>11

\* The rounds of a decode loop follow from one another: there is one run of the loop.
LEMMA LoopRuns ==
    ASSUME NEW buf \in Seq(Unit), NEW garbage
    PROVE  \E run : /\ \A k \in 1..Len(buf) : run[k] = Flow!Round(buf, garbage, run[k - 1])
                    /\ run[0] = [off |-> 0, frames |-> <<>>]
                    /\ Flow!DecodeLoop(buf, garbage) = run[Len(buf)]
<1> DEFINE n == Len(buf)
           start == [off |-> 0, frames |-> <<>>]
           Step(f, k) == IF k = 0 THEN start ELSE Flow!Round(buf, garbage, f[k - 1])
           Runs(f, m) == f = [k \in 0..m |-> Step(f, k)]
           after[k \in 0..Len(buf)] ==
             IF k = 0 THEN [off |-> 0, frames |-> <<>>] ELSE Flow!Round(buf, garbage, after[k - 1])
<1>1. n \in Nat
  BY LenProperties
<1>2. \E f : Runs(f, 0)
  <2> DEFINE f == [k \in 0..0 |-> start]
  <2>1. \A k \in 0..0 : k = 0
    OBVIOUS
  <2>2. f = [k \in 0..0 |-> Step(f, k)]
    <3>1. \A k \in 0..0 : Step(f, k) = start
      BY <2>1
    <3> HIDE DEF Step
    <3>. QED  BY <3>1
  <2>. QED  BY <2>2
<1>3. ASSUME NEW m \in Nat, NEW f, Runs(f, m) PROVE \E g : Runs(g, m + 1)
  <2> DEFINE g == [k \in 0..(m + 1) |-> IF k = m + 1 THEN Flow!Round(buf, garbage, f[m]) ELSE f[k]]
  <2>1. \A k \in 0..m : f[k] = Step(f, k)
    <3> HIDE DEF Step
    <3>. QED  BY <1>3
  <2>2. ASSUME NEW k \in 0..(m + 1) PROVE g[k] = Step(g, k)
    <3>1. CASE k = m + 1
      <4>1. k # 0 /\ k - 1 = m /\ m \in 0..(m + 1) /\ m # m + 1
        BY <1>3, <3>1
      <4>2. g[k - 1] = f[m]
        BY <4>1
      <4>3. g[k] = Flow!Round(buf, garbage, f[m])
        BY <3>1
      <4>. QED  BY <4>1, <4>2, <4>3
    <3>2. CASE k # m + 1
      <4>1. k \in 0..m /\ (k # 0 => k - 1 \in 0..(m + 1) /\ k - 1 # m + 1)
        BY <1>3, <3>2
      <4>2. g[k] = f[k] /\ f[k] = Step(f, k)
        BY <2>1, <3>2, <4>1
      <4>3. k # 0 => g[k - 1] = f[k - 1]
        BY <4>1
      <4>. QED  BY <4>2, <4>3
    <3>. QED  BY <3>1, <3>2
  <2>3. g = [k \in 0..(m + 1) |-> g[k]]
    OBVIOUS
  <2> HIDE DEF g, Step
  <2>4. Runs(g, m + 1)
    BY <2>2, <2>3
  <2>. QED  BY <2>4
<1> HIDE DEF Runs, Step
<1>4. \A m \in Nat : \E f : Runs(f, m)
  <2> DEFINE T == {m \in Nat : ~\E f : Runs(f, m)}
  <2>1. CASE T = {}
    BY <2>1
  <2>2. CASE T # {}
    <3>1. PICK m \in T : \A j \in T : m <= j
      BY <2>2, LeastNat
    <3>2. m \in Nat /\ ~\E f : Runs(f, m)
      OBVIOUS
    <3>3. m # 0
      BY <1>2, <3>2
    <3>4. m - 1 \in Nat /\ ~(m <= m - 1) /\ (m - 1) + 1 = m
      BY <3>2, <3>3
    <3>5. m - 1 \notin T
      BY <3>1, <3>4
    <3>6. PICK f : Runs(f, m - 1)
      BY <3>4, <3>5
    <3>7. \E g : Runs(g, (m - 1) + 1)
      BY <1>3, <3>4, <3>6
    <3>. QED  BY <3>2, <3>4, <3>7
  <2>. QED  BY <2>1, <2>2
<1>5. \E f : f = [k \in 0..n |-> IF k = 0 THEN start ELSE Flow!Round(buf, garbage, f[k - 1])]
  BY <1>1, <1>4 DEF Runs, Step
<1>6. after = [k \in 0..n |-> IF k = 0 THEN start ELSE Flow!Round(buf, garbage, after[k - 1])]
  BY <1>5
<1> HIDE DEF after, n, start
<1>7. \A k \in 0..n : after[k] = IF k = 0 THEN start ELSE Flow!Round(buf, garbage, after[k - 1])
  BY <1>6
<1>8. \A k \in 1..n : k \in 0..n /\ k # 0
  BY <1>1
<1>9. 0 \in 0..n /\ n \in 0..n
  BY <1>1
<1>10. Flow!DecodeLoop(buf, garbage) = after[n]
  BY DEF Flow!DecodeLoop, after, n
<1>. QED  BY <1>7, <1>8, <1>9, <1>10 DEF start, n

LEMMA AppendBehind ==
    ASSUME NEW S, NEW s \in Seq(S), NEW t \in Seq(S), NEW e \in S
    PROVE  s \o Append(t, e) = Append(s \o t, e)
<1> DEFINE t1 == Append(t, e)
           w == s \o t
           a == s \o t1
           b == Append(w, e)
<1>1. Len(s) \in Nat /\ Len(t) \in Nat
  BY LenProperties
<1>2. t1 \in Seq(S) /\ Len(t1) = Len(t) + 1 /\ (\A i \in 1..Len(t) : t1[i] = t[i]) /\ t1[Len(t) + 1] = e
  BY AppendProperties
<1>3. w \in Seq(S) /\ Len(w) = Len(s) + Len(t)
      /\ \A i \in 1..(Len(s) + Len(t)) : w[i] = IF i <= Len(s) THEN s[i] ELSE t[i - Len(s)]
  BY ConcatProperties
<1> HIDE DEF t1, w
<1>4. a \in Seq(S) /\ Len(a) = Len(s) + Len(t1)
      /\ \A i \in 1..(Len(s) + Len(t1)) : a[i] = IF i <= Len(s) THEN s[i] ELSE t1[i - Len(s)]
  BY <1>2, ConcatProperties
<1>5. b \in Seq(S) /\ Len(b) = Len(w) + 1 /\ (\A i \in 1..Len(w) : b[i] = w[i]) /\ b[Len(w) + 1] = e
  <2>1. w \in Seq(S)
    BY <1>3
  <2>. QED  BY <2>1, AppendProperties
<1> HIDE DEF a, b
<1>6. Len(a) = Len(b) /\ Len(a) = Len(s) + Len(t) + 1
  BY <1>1, <1>2, <1>3, <1>4, <1>5
<1>7. ASSUME NEW i \in 1..Len(a) PROVE a[i] = b[i]
  <2>1. i \in 1..(Len(s) + Len(t1)) /\ a[i] = IF i <= Len(s) THEN s[i] ELSE t1[i - Len(s)]
    BY <1>4
  <2>2. CASE i <= Len(s)
    <3>1. i \in 1..(Len(s) + Len(t)) /\ i \in 1..Len(w)
      BY <1>1, <1>3, <1>6, <2>2
    <3>. QED  BY <1>3, <1>5, <2>1, <2>2, <3>1
  <2>3. CASE ~(i <= Len(s)) /\ i <= Len(s) + Len(t)
    <3>1. i \in 1..(Len(s) + Len(t)) /\ i \in 1..Len(w) /\ i - Len(s) \in 1..Len(t)
      BY <1>1, <1>3, <1>6, <2>3
    <3>. QED  BY <1>2, <1>3, <1>5, <2>1, <2>3, <3>1
  <2>4. CASE i = Len(s) + Len(t) + 1
    <3>1. ~(i <= Len(s)) /\ i - Len(s) = Len(t) + 1 /\ i = Len(w) + 1
      BY <1>1, <1>3, <2>4
    <3>. QED  BY <1>2, <1>5, <2>1, <3>1
  <2>. QED  BY <1>1, <1>6, <2>2, <2>3, <2>4
<1>8. a = b
  BY <1>4, <1>5, <1>6, <1>7, SeqEqual
<1>. QED  BY <1>8 DEF a, b, w, t1

\* A decode loop stops in its buffer; what it took are the next frames of the stream, or
\* follow a short send, and the stream goes on where it stopped.
LEMMA LoopReads ==
    ASSUME NEW buf \in Seq(Unit), NEW u \in Seq(Unit), StartsWith(u, buf),
           NEW fs \in Seq(WireFrame), NEW cut \in BOOLEAN, NEW garbage \in Reading,
           NEW got \in Seq(Seq(Unit)), Reads(got, u, 0, fs, cut)
    PROVE  /\ Flow!DecodeLoop(buf, garbage).off \in 0..Len(buf)
           /\ Flow!DecodeLoop(buf, garbage).frames \in Seq(Seq(Unit))
           /\ Reads(got \o Flow!DecodeLoop(buf, garbage).frames, u, Flow!DecodeLoop(buf, garbage).off, fs, cut)
<1> DEFINE loop == Flow!DecodeLoop(buf, garbage)
           n == Len(buf)
           Good(s) == /\ s.off \in 0..n /\ s.frames \in Seq(Seq(Unit))
                      /\ Reads(got \o s.frames, u, s.off, fs, cut)
<1>1. n \in Nat
  BY LenProperties
<1>2. Good([off |-> 0, frames |-> <<>>])
  <2>1. got \o <<>> = got /\ <<>> \in Seq(Seq(Unit))
    BY ConcatEmptySeq, EmptySeq
  <2>. QED  BY <1>1, <2>1
<1>3. ASSUME NEW s, Good(s) PROVE Good(Flow!Round(buf, garbage, s))
  <2>1. PICK off \in 0..n, frames \in Seq(Seq(Unit)) : off = s.off /\ frames = s.frames
    BY <1>3
  <2>2. PICK p : p = Flow!PeekLength(buf, off, garbage)
    OBVIOUS
  <2>3. p \in Nat /\ off + p <= n /\ off \in Nat /\ (p # 0 => off + 1 \in 1..n)
    BY <1>1, <2>2, Peek
  <2>4. PICK old \in Seq(Seq(Unit)) : old = got \o frames
    BY ConcatProperties
  <2>5. Reads(old, u, off, fs, cut)
    BY <1>3, <2>1, <2>4
  <2>6. PICK f : f = SubSeq(buf, off + 1, off + p)
    OBVIOUS
  <2>7. PICK r : r = Flow!Round(buf, garbage, s)
    OBVIOUS
  <2>8. r = [off |-> off + p,
             frames |-> IF off + p # off /\ Flow!Peeked(buf, off, garbage).fits THEN Append(frames, f) ELSE frames]
    BY <2>1, <2>2, <2>6, <2>7 DEF Flow!Round
  <2>9. off + p \in 0..n
    BY <1>1, <2>3
  <2>10. f \in Seq(Unit)
    <3>1. off + p \in off..Len(buf) /\ off \in 0..Len(buf)
      BY <1>1, <2>3
    <3> DEFINE e == off + p
    <3> HIDE DEF e
    <3>2. e \in off..Len(buf)
      BY <3>1 DEF e
    <3>3. SubSeq(buf, off + 1, e) \in Seq(Unit)
      BY <3>1, <3>2, PartOf
    <3>. QED  BY <2>6, <3>3 DEF e
  <2>11. Append(frames, f) \in Seq(Seq(Unit)) /\ got \o Append(frames, f) = Append(old, f)
    <3> DEFINE T == Seq(Unit)
    <3>1. f \in T /\ got \in Seq(T) /\ frames \in Seq(T)
      BY <2>10
    <3> HIDE DEF T
    <3>2. Append(frames, f) \in Seq(T) /\ got \o Append(frames, f) = Append(got \o frames, f)
      BY <3>1, AppendProperties, AppendBehind, SMTT(20)
    <3>. QED  BY <2>4, <3>2 DEF T
  <2>12. CASE p = 0
    <3>1. r.off = off /\ r.frames = frames
      BY <2>3, <2>8, <2>12
    <3>. QED  BY <2>1, <2>4, <2>5, <2>7, <3>1
  <2>13. CASE p # 0
    <3>1. r.off = off + p /\ r.frames = IF Flow!Peeked(buf, off, garbage).fits THEN Append(frames, f) ELSE frames
      BY <2>3, <2>8, <2>13
    <3>2. r.frames \in Seq(Seq(Unit))
      BY <2>11, <3>1
    <3>3. PICK more : more = IF Flow!Peeked(buf, off, garbage).fits THEN Append(old, f) ELSE old
      OBVIOUS
    <3>4. got \o r.frames = more
      BY <2>4, <2>11, <3>1, <3>3
    <3>5. Reads(more, u, off + p, fs, cut)
      BY <2>2, <2>5, <2>6, <2>13, <3>3, RoundReads
    <3>. QED  BY <2>7, <2>9, <3>1, <3>2, <3>4, <3>5
  <2>. QED  BY <2>12, <2>13
<1>4. PICK run : /\ \A k \in 1..n : run[k] = Flow!Round(buf, garbage, run[k - 1])
                 /\ run[0] = [off |-> 0, frames |-> <<>>]
                 /\ loop = run[n]
  BY LoopRuns
<1> HIDE DEF Good, n, loop
<1>5. \A k \in 0..n : Good(run[k])
  <2> DEFINE T == {k \in 0..n : ~Good(run[k])}
  <2>1. CASE T = {}
    BY <2>1
  <2>2. CASE T # {}
    <3>0. T \subseteq Nat
      BY <1>1
    <3>1. PICK k \in T : \A j \in T : k <= j
      BY <2>2, <3>0, LeastNat
    <3>2. k \in 0..n /\ ~Good(run[k])
      OBVIOUS
    <3>3. k # 0
      BY <1>2, <1>4, <3>2
    <3>4. k \in 1..n /\ k - 1 \in 0..n /\ ~(k <= k - 1)
      BY <1>1, <3>2, <3>3
    <3>5. k - 1 \notin T
      BY <3>1, <3>4
    <3>6. Good(run[k - 1])
      BY <3>4, <3>5
    <3>. QED  BY <1>3, <1>4, <3>2, <3>4, <3>6
  <2>. QED  BY <2>1, <2>2
<1>6. Good(loop)
  BY <1>1, <1>4, <1>5
<1>. QED  BY <1>6 DEF Good, n, loop

\* A reader keeps what it did not take.
LEMMA ReadsRest ==
    ASSUME NEW got, NEW u \in Seq(Unit), NEW off \in 0..Len(u), NEW fs \in Seq(WireFrame), NEW cut,
           Len(got) \in Nat, Reads(got, u, off, fs, cut)
    PROVE  Reads(got, SubSeq(u, off + 1, Len(u)), 0, fs, cut)
<1>1. CASE Len(got) <= Len(fs) /\ Carries(u, off, fs, Len(got), cut)
  <2>1. Len(got) \in 0..Len(fs)
    BY <1>1, LenProperties
  <2>2. Carries(SubSeq(u, off + 1, Len(u)), 0, fs, Len(got), cut)
    BY <1>1, <2>1, CarriesRest
  <2>. QED  BY <1>1, <2>2 DEF Reads
<1>2. CASE Len(fs) <= Len(got) /\ cut
  BY <1>2 DEF Reads
<1>. QED  BY <1>1, <1>2 DEF Reads

\* A read: what has arrived is appended to the buffer, whole frames leave it.
LEMMA ReaderReads ==
    ASSUME NEW x \in Seq(Unit), NEW y \in Seq(Unit), NEW n \in 0..Len(y), NEW fs \in Seq(WireFrame),
           NEW cut \in BOOLEAN, NEW garbage \in Reading, NEW got \in Seq(Seq(Unit)), Reads(got, x \o y, 0, fs, cut)
    PROVE  LET buf == Arrived(x, y, n)
               loop == Flow!DecodeLoop(buf, garbage)
           IN /\ Flow!LeftOver(buf, loop) \in Seq(Unit) /\ SubSeq(y, n + 1, Len(y)) \in Seq(Unit)
              /\ got \o loop.frames \in Seq(Seq(Unit))
              /\ Reads(got \o loop.frames, Flow!LeftOver(buf, loop) \o SubSeq(y, n + 1, Len(y)), 0, fs, cut)
<1> DEFINE buf == Arrived(x, y, n)
           loop == Flow!DecodeLoop(buf, garbage)
<1>1. buf = Arrived(x, y, n)
  OBVIOUS
<1> SUFFICES /\ Flow!LeftOver(buf, loop) \in Seq(Unit) /\ SubSeq(y, n + 1, Len(y)) \in Seq(Unit)
             /\ got \o loop.frames \in Seq(Seq(Unit))
             /\ Reads(got \o loop.frames, Flow!LeftOver(buf, loop) \o SubSeq(y, n + 1, Len(y)), 0, fs, cut)
  OBVIOUS
<1>0. loop = Flow!DecodeLoop(buf, garbage)
  OBVIOUS
<1> HIDE DEF buf, loop
<1>2. buf \in Seq(Unit) /\ x \o y \in Seq(Unit) /\ StartsWith(x \o y, buf) /\ SubSeq(y, n + 1, Len(y)) \in Seq(Unit)
  BY <1>1, ArrivedIs
<1>3. PICK u \in Seq(Unit) : u = x \o y
  BY <1>2
<1>4. StartsWith(u, buf) /\ Reads(got, u, 0, fs, cut)
  BY <1>2, <1>3
<1>5. loop.off \in 0..Len(buf) /\ loop.frames \in Seq(Seq(Unit)) /\ Reads(got \o loop.frames, u, loop.off, fs, cut)
  <2>1. /\ Flow!DecodeLoop(buf, garbage).off \in 0..Len(buf)
        /\ Flow!DecodeLoop(buf, garbage).frames \in Seq(Seq(Unit))
        /\ Reads(got \o Flow!DecodeLoop(buf, garbage).frames, u, Flow!DecodeLoop(buf, garbage).off, fs, cut)
    BY <1>2, <1>4, LoopReads
  <2>. QED  BY <1>0, <2>1
<1>6. PICK off \in 0..Len(buf), frames \in Seq(Seq(Unit)) : off = loop.off /\ frames = loop.frames
  BY <1>5
<1>7. PICK new \in Seq(Seq(Unit)) : new = got \o frames
  BY ConcatProperties
<1>8. Reads(new, u, off, fs, cut) /\ Len(new) \in Nat /\ off \in 0..Len(u)
  <2>1. Reads(new, u, off, fs, cut)
    BY <1>5, <1>6, <1>7
  <2>2. Len(buf) <= Len(u) /\ Len(buf) \in Nat /\ Len(u) \in Nat
    BY <1>2, <1>4, LenProperties DEF StartsWith
  <2>3. off \in 0..Len(u)
    BY <2>2
  <2>. QED  BY <2>1, <2>3, LenProperties
<1>9. /\ SubSeq(buf, off + 1, Len(buf)) \in Seq(Unit)
      /\ SubSeq(buf, off + 1, Len(buf)) \o SubSeq(y, n + 1, Len(y)) = SubSeq(u, off + 1, Len(u))
  <2>1. \A o \in 0..Len(Arrived(x, y, n)) :
           /\ SubSeq(Arrived(x, y, n), o + 1, Len(Arrived(x, y, n))) \in Seq(Unit)
           /\ SubSeq(Arrived(x, y, n), o + 1, Len(Arrived(x, y, n))) \o SubSeq(y, n + 1, Len(y))
                 = SubSeq(x \o y, o + 1, Len(x \o y))
    BY UnitsGoOn
  <2>. QED  BY <1>1, <1>3, <2>1
<1>11. Reads(new, SubSeq(u, off + 1, Len(u)), 0, fs, cut)
  BY <1>8, ReadsRest
<1>12. Flow!LeftOver(buf, loop) = SubSeq(buf, off + 1, Len(buf))
  BY <1>6 DEF Flow!LeftOver
<1>. QED  BY <1>2, <1>6, <1>7, <1>9, <1>11, <1>12

\* A frame sent in full while none was cut, and anything sent after a short send.
LEMMA ReadsOneMore ==
    ASSUME NEW got \in Seq(Seq(Unit)), NEW u \in Seq(Unit), NEW fs \in Seq(WireFrame), NEW f \in WireFrame,
           Reads(got, u, 0, fs, FALSE)
    PROVE  Reads(got, u \o Flow!Encode(f), 0, Append(fs, f), FALSE)
<1>1. /\ Len(got) \in Nat /\ Len(fs) \in Nat /\ Len(got) <= Len(fs) /\ Carries(u, 0, fs, Len(got), FALSE)
      /\ \A k \in 1..Len(got) : IF k <= Len(fs) THEN got[k] = Flow!Encode(fs[k]) ELSE FALSE
  BY LenProperties DEF Reads
<1>2. Len(got) \in 0..Len(fs)
  BY <1>1
<1>3. Carries(u \o Flow!Encode(f), 0, Append(fs, f), Len(got), FALSE)
  BY <1>1, <1>2, CarriesOneMore
<1>4. Len(Append(fs, f)) = Len(fs) + 1 /\ \A k \in 1..Len(fs) : Append(fs, f)[k] = fs[k]
  BY AppendProperties
<1>5. ASSUME NEW k \in 1..Len(got)
      PROVE  IF k <= Len(Append(fs, f)) THEN got[k] = Flow!Encode(Append(fs, f)[k]) ELSE FALSE
  <2>1. k \in 1..Len(fs) /\ k <= Len(fs) /\ k <= Len(fs) + 1
    BY <1>1
  <2>. QED  BY <1>1, <1>4, <2>1
<1>6. Len(got) <= Len(Append(fs, f))
  BY <1>1, <1>4
<1>. QED  BY <1>3, <1>5, <1>6 DEF Reads

LEMMA ReadsTail ==
    ASSUME NEW got \in Seq(Seq(Unit)), NEW u \in Seq(Unit), NEW fs \in Seq(WireFrame), NEW cut,
           NEW w \in Seq(Unit), Reads(got, u, 0, fs, cut)
    PROVE  Reads(got, u \o w, 0, fs, TRUE)
<1>1. \A k \in 1..Len(got) : IF k <= Len(fs) THEN got[k] = Flow!Encode(fs[k]) ELSE TRUE
  BY DEF Reads
<1>2. CASE Len(got) <= Len(fs) /\ Carries(u, 0, fs, Len(got), cut)
  <2>1. Len(got) \in 0..Len(fs)
    BY <1>2, LenProperties
  <2>2. Carries(u \o w, 0, fs, Len(got), TRUE)
    BY <1>2, <2>1, CarriesTail
  <2>. QED  BY <1>1, <1>2, <2>2 DEF Reads
<1>3. CASE Len(fs) <= Len(got) /\ cut
  BY <1>1, <1>3 DEF Reads
<1>. QED  BY <1>2, <1>3 DEF Reads

LEMMA LeastOfTwo ==
    ASSUME NEW a \in Int, NEW b \in Int
    PROVE  Flow!Min({a, b}) = IF a <= b THEN a ELSE b
<1> DEFINE m == IF a <= b THEN a ELSE b
           P(x) == \A y \in {a, b} : x <= y
<1>1. m \in {a, b} /\ P(m)
  OBVIOUS
<1>2. \A x \in {a, b} : P(x) => x = m
  OBVIOUS
<1>3. Flow!Min({a, b}) = CHOOSE x \in {a, b} : P(x)
  BY DEF Flow!Min
<1> HIDE DEF m, P
<1>4. (CHOOSE x \in {a, b} : P(x)) = m
  BY <1>1, <1>2
<1>. QED  BY <1>3, <1>4 DEF m

\* The parts of two sequences in a row.
LEMMA InARow ==
    ASSUME NEW S, NEW y \in Seq(S), NEW z \in Seq(S), NEW n \in 0..Len(y)
    PROVE  /\ SubSeq(y, 1, n) = SubSeq(y \o z, 1, n)
           /\ SubSeq(y, n + 1, Len(y)) \o z = SubSeq(y \o z, n + 1, Len(y \o z))
<1>1. Len(y) \in Nat /\ Len(z) \in Nat /\ n \in Nat /\ n <= Len(y)
  BY LenProperties
<1>2. PICK v \in Seq(S) : v = y \o z
  BY ConcatProperties
<1>3. Len(v) = Len(y) + Len(z)
      /\ \A i \in 1..(Len(y) + Len(z)) : v[i] = IF i <= Len(y) THEN y[i] ELSE z[i - Len(y)]
  BY <1>2, ConcatProperties
<1>4. SubSeq(y, 1, n) = SubSeq(v, 1, n)
  <2>1. n \in 0..Len(v)
    BY <1>1, <1>3
  <2>2. SubSeq(y, 1, n) \in Seq(S) /\ Len(SubSeq(y, 1, n)) = n /\ \A i \in 1..n : SubSeq(y, 1, n)[i] = y[i]
    BY FirstOf
  <2>3. SubSeq(v, 1, n) \in Seq(S) /\ Len(SubSeq(v, 1, n)) = n /\ \A i \in 1..n : SubSeq(v, 1, n)[i] = v[i]
    BY <2>1, FirstOf
  <2>4. \A i \in 1..n : v[i] = y[i]
    <3>1. \A i \in 1..n : i \in 1..(Len(y) + Len(z)) /\ i <= Len(y)
      BY <1>1
    <3>. QED  BY <1>3, <3>1
  <2>. QED  BY <2>2, <2>3, <2>4, SeqEqual
<1>5. SubSeq(y, n + 1, Len(y)) \o z = SubSeq(v, n + 1, Len(v))
  <2>1. 0 \in 0..Len(z) /\ n \in 0..(Len(y) + 0)
    BY <1>1
  <2> DEFINE o == 0
             p == o + 1
  <2>2. SubSeq(z, 1, o) = <<>> /\ o \in 0..Len(z) /\ n \in 0..(Len(y) + o)
    <3>1. 1 \in Int /\ 0 \in Int /\ 0 < 1
      OBVIOUS
    <3>. QED  BY <2>1, <3>1, SubSeqEmpty
  <2>3. p = 1
    OBVIOUS
  <2> HIDE DEF o
  <2>4. y \o <<>> = y /\ SubSeq(z, 1, Len(z)) = z
    BY ConcatEmptySeq, SubSeqFull
  <2>5. y = Arrived(y, z, o)
    BY <2>2, <2>4 DEF Arrived
  <2>6. SubSeq(y, n + 1, Len(y)) \o SubSeq(z, p, Len(z)) = SubSeq(y \o z, n + 1, Len(y \o z))
    <3>1. n \in 0..Len(Arrived(y, z, o))
      BY <2>5
    <3>2. SubSeq(Arrived(y, z, o), n + 1, Len(Arrived(y, z, o))) \o SubSeq(z, o + 1, Len(z))
             = SubSeq(y \o z, n + 1, Len(y \o z))
      BY <2>2, <3>1, StreamGoesOn
    <3>. QED  BY <2>5, <3>2
  <2>. QED  BY <1>2, <2>3, <2>4, <2>6
<1>. QED  BY <1>2, <1>4, <1>5

\* The reports the gateway encoded, and one more.
LEMMA ReportFrames ==
    ASSUME reported \in Nat
    PROVE  /\ Reports \in Seq(WireFrame) /\ Len(Reports) = reported
           /\ \A k \in 1..reported : Reports[k] = Flow!Frame(k, "Report")
           /\ reported' = reported + 1 => Reports' = Append(Reports, Flow!Frame(reported + 1, "Report"))
<1> DEFINE f(k) == [no |-> k, type |-> "Report"]
           n == reported + 1
           rs == [k \in 1..reported |-> f(k)]
           ss == [k \in 1..n |-> f(k)]
<1>1. \A k \in Nat : f(k) \in WireFrame /\ Flow!Frame(k, "Report") = f(k)
  BY DEF WireFrame, Flow!Frame
<1>2. \A k \in 1..n : k \in Nat
  BY Z3
<1>3. \A k \in 1..reported : k \in Nat
  BY Z3
<1> HIDE DEF f
<1>4. rs \in Seq(WireFrame) /\ Len(rs) = reported
  <2>1. rs \in [1..reported -> WireFrame]
    BY <1>1, <1>3
  <2>. QED  BY <2>1
<1>5. Reports = rs
  BY <1>1, <1>3 DEF Reports
<1>6. n \in Nat /\ f(n) \in WireFrame /\ reported + 1 = n /\ n \in 1..n /\ 1..reported \subseteq 1..n
  BY <1>1
<1> HIDE DEF n
<1>7. ss \in Seq(WireFrame) /\ Len(ss) = n
  <2>1. ss \in [1..n -> WireFrame]
    BY <1>1, <1>2, <1>6
  <2>. QED  BY <1>6, <2>1
<1>8. ss = Append(rs, f(n))
  <2>1. /\ Append(rs, f(n)) \in Seq(WireFrame) /\ Len(Append(rs, f(n))) = reported + 1
        /\ (\A i \in 1..reported : Append(rs, f(n))[i] = rs[i]) /\ Append(rs, f(n))[reported + 1] = f(n)
    BY <1>4, <1>6, AppendProperties
  <2>2. ASSUME NEW i \in 1..n PROVE ss[i] = Append(rs, f(n))[i]
    <3>1. i = n \/ i \in 1..reported
      BY <1>6
    <3>2. ASSUME i \in 1..reported PROVE ss[i] = Append(rs, f(n))[i]
      <4>1. rs[i] = f(i) /\ ss[i] = f(i)
        BY <1>6, <3>2
      <4>. QED  BY <2>1, <3>2, <4>1
    <3>3. ASSUME i = n PROVE ss[i] = Append(rs, f(n))[i]
      <4>1. ss[n] = f(n)
        BY <1>6
      <4>. QED  BY <1>6, <2>1, <3>3, <4>1
    <3>. QED  BY <3>1, <3>2, <3>3
  <2>. QED  BY <1>6, <1>7, <2>1, <2>2, SeqEqual
<1>9. reported' = reported + 1 => Reports' = ss
  <2>1. Reports' = [k \in 1..reported' |-> Flow!Frame(k, "Report")]
    BY DEF Reports
  <2>2. ASSUME reported' = n PROVE Reports' = ss
    <3>1. [k \in 1..n |-> Flow!Frame(k, "Report")] = ss
      BY <1>1, <1>2
    <3>. QED  BY <2>1, <2>2, <3>1
  <2>. QED  BY <1>6, <2>2
<1>10. \A k \in 1..reported : rs[k] = Flow!Frame(k, "Report")
  BY <1>1, <1>3
<1>11. f(n) = Flow!Frame(n, "Report")
  BY <1>1, <1>6
<1> HIDE DEF rs, ss
<1>. QED  BY <1>4, <1>5, <1>6, <1>8, <1>9, <1>10, <1>11

\* A command is sent whole, in part or not at all.
LEMMA StreamIssue ==
    ASSUME StreamTypes, UpStream, issued \in Seq(IssuedCommand),
           NEW type \in {"New", "Cancel", "Modify"}, NEW id, Flow!Issue(type, id)
    PROVE  up' \in Seq(Unit) /\ clean' \in Seq(WireFrame) /\ short' \in BOOLEAN /\ UpStream'
<1> DEFINE f == Flow!Frame(Len(issued) + 1, type)
           e == Flow!Encode(f)
           room == Room - Len(up)
           size == FrameSize[type]
           p == SubSeq(e, 1, Flow!Min({room, size}))
           u == in \o up
<1>1. /\ up' = up \o p /\ in' = in /\ decoded' = decoded
      /\ short' = (short \/ (0 < room /\ room < size))
      /\ clean' = IF size <= room /\ ~short THEN Append(clean, f) ELSE clean
  BY DEF Flow!Issue
<1>2. f \in WireFrame /\ size = Size(f)
  <2>1. Len(issued) \in Nat
    BY LenProperties
  <2>. QED  BY <2>1 DEF Flow!Frame, WireFrame, Size
<1>3. size \in Nat /\ 1 <= size /\ e \in Seq(Unit) /\ Len(e) = size
  BY <1>2, Units
<1>4. room \in Int
  <2>1. up \in Seq(Unit)
    BY DEF StreamTypes
  <2>2. Len(up) \in Nat
    BY <2>1, LenProperties
  <2>3. Room \in Nat
    BY ProgramsAssumption
  <2>. QED  BY <2>2, <2>3
<1>5. /\ decoded \in Seq(Seq(Unit)) /\ up \in Seq(Unit) /\ in \in Seq(Unit) /\ clean \in Seq(WireFrame)
      /\ short \in BOOLEAN /\ Reads(decoded, u, 0, clean, short)
  BY DEF StreamTypes, UpStream
<1>6. u \in Seq(Unit)
  BY <1>5, ConcatProperties
<1> HIDE DEF f, e, room, size
<1>7. Flow!Min({room, size}) = IF room <= size THEN room ELSE size
  BY <1>3, <1>4, LeastOfTwo
<1>8. p \in Seq(Unit) /\ (size <= room => p = e) /\ (room <= 0 => p = <<>>)
  <2>1. CASE size <= room
    <3>1. Flow!Min({room, size}) = size /\ ~(room <= 0)
      BY <1>3, <1>4, <1>7, <2>1
    <3>2. p = e
      BY <1>3, <3>1, SubSeqFull
    <3>. QED  BY <1>3, <3>1, <3>2
  <2>2. CASE room < size /\ 0 < room
    <3>1. Flow!Min({room, size}) = room /\ room \in 0..Len(e) /\ ~(size <= room) /\ ~(room <= 0)
      BY <1>3, <1>4, <1>7, <2>2
    <3>. QED  BY <1>3, <3>1, FirstOf
  <2>3. CASE room <= 0
    <3>1. Flow!Min({room, size}) = room /\ ~(size <= room) /\ room \in Int /\ 1 \in Int /\ room < 1
      BY <1>3, <1>4, <1>7, <2>3
    <3>2. p = <<>>
      BY <3>1, SubSeqEmpty
    <3>. QED  BY <3>1, <3>2, EmptySeq
  <2>4. size <= room \/ (room < size /\ 0 < room) \/ room <= 0
    BY <1>3, <1>4
  <2> HIDE DEF p
  <2>. QED  BY <2>1, <2>2, <2>3, <2>4
<1> HIDE DEF p
<1>9. up' \in Seq(Unit) /\ in' \o up' = u \o p
  <2>2. up \o p \in Seq(Unit)
    BY <1>5, <1>8, ConcatProperties
  <2>3. (in \o up) \o p = in \o (up \o p)
    BY <1>5, <1>8, ConcatAssociative, SMTT(20)
  <2>1. up \o p \in Seq(Unit) /\ u \o p = in \o (up \o p)
    BY <2>2, <2>3
  <2> HIDE DEF u
  <2>. QED  BY <1>1, <2>1
<1> HIDE DEF u
<1>10. CASE size <= room /\ ~short
  <2>1. short = FALSE /\ p = e /\ clean' = Append(clean, f) /\ short' = FALSE
    BY <1>1, <1>3, <1>4, <1>5, <1>8, <1>10
  <2>2. Reads(decoded, u, 0, clean, FALSE)
    BY <1>5, <2>1
  <2>3. Reads(decoded, u \o e, 0, Append(clean, f), FALSE)
    BY <1>2, <1>5, <1>6, <2>2, ReadsOneMore DEF e
  <2>4. Append(clean, f) \in Seq(WireFrame)
    BY <1>2, <1>5, AppendProperties
  <2>5. Reads(decoded', in' \o up', 0, clean', FALSE)
    BY <1>1, <1>9, <2>1, <2>3
  <2>6. UpStream'
    BY <2>1, <2>5 DEF UpStream
  <2>7. clean' \in Seq(WireFrame) /\ short' \in BOOLEAN
    BY <2>1, <2>4
  <2>. QED  BY <1>9, <2>6, <2>7
<1>11. CASE short \/ (0 < room /\ room < size)
  <2>3. ASSUME short PROVE clean' = clean /\ short' = TRUE
    BY <1>1, <2>3
  <2>4. ASSUME 0 < room, room < size PROVE clean' = clean /\ short' = TRUE
    <3>1. ~(size <= room)
      BY <1>3, <1>4, <2>4
    <3>. QED  BY <1>1, <2>4, <3>1
  <2>1. clean' = clean /\ short' = TRUE
    BY <1>11, <2>3, <2>4
  <2>2. Reads(decoded, u \o p, 0, clean, TRUE)
    BY <1>5, <1>6, <1>8, ReadsTail
  <2>. QED  BY <1>1, <1>5, <1>9, <2>1, <2>2 DEF UpStream
<1>12. CASE ~short /\ room <= 0
  <2>1. clean' = clean /\ short' = short /\ p = <<>>
    BY <1>1, <1>3, <1>4, <1>5, <1>8, <1>12
  <2>2. u \o p = u
    BY <1>6, <2>1, ConcatEmptySeq
  <2>. QED  BY <1>1, <1>5, <1>9, <2>1, <2>2 DEF UpStream
<1>. QED  BY <1>3, <1>4, <1>10, <1>11, <1>12

\* The gateway reads and decodes what it has whole.
LEMMA StreamRead ==
    ASSUME StreamTypes, UpStream, Flow!Read
    PROVE  in' \in Seq(Unit) /\ up' \in Seq(Unit) /\ decoded' \in Seq(Seq(Unit)) /\ UpStream'
<1>1. PICK n \in DOMAIN up, garbage \in Garbage :
         LET buf == in \o SubSeq(up, 1, n)
             loop == Flow!DecodeLoop(buf, garbage)
         IN /\ in' = Flow!LeftOver(buf, loop)
            /\ decoded' = decoded \o loop.frames
            /\ up' = SubSeq(up, n + 1, Len(up))
            /\ UNCHANGED <<Flow!client, down, out, reported, rx, seen>>
  BY DEF Flow!Read
<1> DEFINE buf == Arrived(in, up, n)
           loop == Flow!DecodeLoop(buf, garbage)
<1>2. /\ in' = Flow!LeftOver(buf, loop) /\ decoded' = decoded \o loop.frames
      /\ up' = SubSeq(up, n + 1, Len(up)) /\ clean' = clean /\ short' = short
  BY <1>1 DEF Arrived, Flow!client
<1>3. n \in 0..Len(up) /\ garbage \in Reading
  BY LenProperties, Misreadings DEF StreamTypes
<1>4. /\ Flow!LeftOver(buf, loop) \in Seq(Unit) /\ SubSeq(up, n + 1, Len(up)) \in Seq(Unit)
      /\ decoded \o loop.frames \in Seq(Seq(Unit))
      /\ Reads(decoded \o loop.frames, Flow!LeftOver(buf, loop) \o SubSeq(up, n + 1, Len(up)), 0, clean, short)
  <2>1. /\ in \in Seq(Unit) /\ up \in Seq(Unit) /\ clean \in Seq(WireFrame) /\ short \in BOOLEAN
        /\ decoded \in Seq(Seq(Unit)) /\ Reads(decoded, in \o up, 0, clean, short)
    BY DEF StreamTypes, UpStream
  <2>. QED  BY <1>3, <2>1, ReaderReads, Zenon
<1> HIDE DEF buf, loop
<1>. QED  BY <1>2, <1>4 DEF UpStream

\* The client does the same with the reports.
LEMMA StreamPump ==
    ASSUME StreamTypes, DownStream, Flow!Pump
    PROVE  rx' \in Seq(Unit) /\ down' \in Seq(Unit) /\ seen' \in Seq(Seq(Unit)) /\ DownStream'
<1>1. PICK n \in DOMAIN down, garbage \in Garbage :
         LET buf == rx \o SubSeq(down, 1, n)
             loop == Flow!DecodeLoop(buf, garbage)
         IN /\ rx' = Flow!LeftOver(buf, loop)
            /\ seen' = seen \o loop.frames
            /\ down' = SubSeq(down, n + 1, Len(down))
            /\ UNCHANGED <<Flow!client, up, in, out, decoded, reported>>
  BY DEF Flow!Pump
<1>2. PICK y \in Seq(Unit) : y = down \o out
  BY ConcatProperties DEF StreamTypes
<1>3. n \in 0..Len(down) /\ n \in 0..Len(y) /\ reported \in Nat
  <2>1. Len(y) = Len(down) + Len(out) /\ Len(down) \in Nat /\ Len(out) \in Nat /\ n \in 1..Len(down)
    BY <1>2, ConcatProperties, LenProperties DEF StreamTypes
  <2>. QED  BY <2>1 DEF StreamTypes
<1>4. SubSeq(down, 1, n) = SubSeq(y, 1, n) /\ SubSeq(down, n + 1, Len(down)) \o out = SubSeq(y, n + 1, Len(y))
      /\ SubSeq(down, n + 1, Len(down)) \in Seq(Unit)
  BY <1>2, <1>3, InARow, RestOf DEF StreamTypes
<1> DEFINE buf == Arrived(rx, y, n)
           loop == Flow!DecodeLoop(buf, garbage)
<1>5. /\ rx' = Flow!LeftOver(buf, loop) /\ seen' = seen \o loop.frames
      /\ down' = SubSeq(down, n + 1, Len(down)) /\ out' = out /\ reported' = reported
  BY <1>1, <1>4 DEF Arrived
<1>6. Reports' = Reports /\ Reports \in Seq(WireFrame)
  BY <1>3, <1>5, ReportFrames DEF Reports
<1>7. Reads(seen, rx \o y, 0, Reports, FALSE) /\ FALSE \in BOOLEAN
      /\ seen \in Seq(Seq(Unit)) /\ rx \in Seq(Unit)
      /\ garbage \in Reading
  BY <1>2, Misreadings DEF DownStream, StreamTypes
<1>8. /\ Flow!LeftOver(buf, loop) \in Seq(Unit) /\ seen \o loop.frames \in Seq(Seq(Unit))
      /\ Reads(seen \o loop.frames, Flow!LeftOver(buf, loop) \o SubSeq(y, n + 1, Len(y)), 0, Reports, FALSE)
  BY <1>3, <1>6, <1>7, ReaderReads
<1> HIDE DEF buf, loop
<1>9. down' \o out' = SubSeq(y, n + 1, Len(y))
  BY <1>4, <1>5
<1>. QED  BY <1>4, <1>5, <1>6, <1>8, <1>9 DEF DownStream

\* One more report is encoded behind those that wait.
LEMMA StreamReport ==
    ASSUME StreamTypes, DownStream, Flow!Report
    PROVE  out' \in Seq(Unit) /\ reported' \in Nat /\ DownStream'
<1> DEFINE f == Flow!Frame(reported + 1, "Report")
           e == Flow!Encode(f)
           u == rx \o (down \o out)
<1>1. reported' = reported + 1 /\ out' = out \o e /\ rx' = rx /\ down' = down /\ seen' = seen
  BY DEF Flow!Report
<1>2. /\ reported \in Nat /\ rx \in Seq(Unit) /\ down \in Seq(Unit) /\ out \in Seq(Unit)
      /\ seen \in Seq(Seq(Unit)) /\ Reads(seen, u, 0, Reports, FALSE)
  BY DEF StreamTypes, DownStream
<1>3. f \in WireFrame
  BY <1>2 DEF Flow!Frame, WireFrame
<1>4. e \in Seq(Unit)
  BY <1>3, Units
<1>5. Reports \in Seq(WireFrame) /\ Reports' = Append(Reports, f)
  BY <1>1, <1>2, ReportFrames
<1> HIDE DEF f
<1>6. u \in Seq(Unit) /\ out \o e \in Seq(Unit) /\ down \o out \in Seq(Unit)
  BY <1>2, <1>4, ConcatProperties
<1>7. u \o e = rx \o (down \o (out \o e))
  <2> HIDE DEF e
  <2>1. PICK y \in Seq(Unit) : y = down \o out
    BY <1>6
  <2>4. rx \in Seq(Unit) /\ y \in Seq(Unit) /\ e \in Seq(Unit)
    BY <1>2, <1>4
  <2>2. (rx \o y) \o e = rx \o (y \o e)
    BY <2>4, ConcatAssociative
  <2>3. (down \o out) \o e = down \o (out \o e)
    BY <1>2, <1>4, ConcatAssociative, SMTT(20)
  <2>. QED  BY <2>1, <2>2, <2>3
<1> HIDE DEF u
<1>8. Reads(seen, u \o e, 0, Append(Reports, f), FALSE)
  <2>1. PICK rs \in Seq(WireFrame) : rs = Reports
    BY <1>5
  <2>2. seen \in Seq(Seq(Unit)) /\ u \in Seq(Unit) /\ Reads(seen, u, 0, rs, FALSE)
    BY <1>2, <1>6, <2>1
  <2>3. Reads(seen, u \o Flow!Encode(f), 0, Append(rs, f), FALSE)
    BY <1>3, <2>2, ReadsOneMore
  <2>. QED  BY <2>1, <2>3
<1> HIDE DEF e
<1>9. rx' \o (down' \o out') = u \o e
  BY <1>1, <1>7
<1>10. DownStream'
  BY <1>1, <1>5, <1>8, <1>9 DEF DownStream
<1>11. out' \in Seq(Unit) /\ reported' \in Nat
  BY <1>1, <1>2, <1>6
<1>. QED  BY <1>10, <1>11

\* What is flushed is the head of what waits.
LEMMA StreamFlush ==
    ASSUME StreamTypes, DownStream, Flow!Flush
    PROVE  down' \in Seq(Unit) /\ out' \in Seq(Unit) /\ DownStream'
<1> DEFINE n == Flow!Min({Room - Len(down), Len(out)})
<1>1. /\ n > 0 /\ down' = down \o SubSeq(out, 1, n) /\ out' = SubSeq(out, n + 1, Len(out))
      /\ rx' = rx /\ seen' = seen /\ reported' = reported
  BY DEF Flow!Flush
<1>2. /\ rx \in Seq(Unit) /\ down \in Seq(Unit) /\ out \in Seq(Unit) /\ Len(out) \in Nat /\ Len(down) \in Nat
      /\ Room \in Nat
  BY LenProperties, ProgramsAssumption DEF StreamTypes
<1>3. n \in 0..Len(out)
  <2> DEFINE a == Room - Len(down)
             b == Len(out)
  <2>1. a \in Int /\ b \in Int
    BY <1>2
  <2> HIDE DEF a, b
  <2>2. Flow!Min({a, b}) = IF a <= b THEN a ELSE b
    BY <2>1, LeastOfTwo
  <2>3. n = Flow!Min({a, b})
    BY DEF a, b
  <2> HIDE DEF n
  <2>4. n <= b /\ n \in Int
    BY <2>1, <2>2, <2>3
  <2>. QED  BY <1>1, <1>2, <2>4 DEF b
<1> HIDE DEF n
<1>4. SubSeq(out, 1, n) \in Seq(Unit) /\ SubSeq(out, n + 1, Len(out)) \in Seq(Unit)
  BY <1>2, <1>3, FirstOf, RestOf
<1>5. SubSeq(out, 1, n) \o SubSeq(out, n + 1, Len(out)) = out
  <2>1. 1 \in 1..(Len(out) + 1) /\ n \in (1 - 1)..Len(out) /\ Len(out) \in n..Len(out)
    BY <1>2, <1>3
  <2>3. \A m \in 1..(Len(out) + 1) : \A k \in (m - 1)..Len(out) : \A j \in k..Len(out) :
           SubSeq(out, m, k) \o SubSeq(out, k + 1, j) = SubSeq(out, m, j)
    BY <1>2, ConcatAdjacentSubSeq
  <2>2. SubSeq(out, 1, n) \o SubSeq(out, n + 1, Len(out)) = SubSeq(out, 1, Len(out))
    BY <2>1, <2>3
  <2>. QED  BY <1>2, <2>2, SubSeqFull
<1>6. down' \o out' = down \o out
  <2>1. PICK a \in Seq(Unit), b \in Seq(Unit) : a = SubSeq(out, 1, n) /\ b = SubSeq(out, n + 1, Len(out))
    BY <1>4
  <2>2. down \in Seq(Unit)
    BY <1>2
  <2>3. (down \o a) \o b = down \o (a \o b)
    BY <2>2, ConcatAssociative
  <2>4. down' = down \o a /\ out' = b /\ a \o b = out
    BY <1>1, <1>5, <2>1
  <2>. QED  BY <2>3, <2>4
<1>7. Reports' = Reports
  BY <1>1 DEF Reports
<1>8. down' \in Seq(Unit)
  BY <1>1, <1>2, <1>4, ConcatProperties
<1>. QED  BY <1>1, <1>4, <1>6, <1>7, <1>8 DEF DownStream

\* What the order-entry actions leave alone.
LEMMA StreamsApart ==
    /\ (Flow!MakeNew \/ Flow!Cancel \/ Flow!Modify) => UNCHANGED <<down, in, out, decoded, reported, rx, seen>>
    /\ Flow!Read => UNCHANGED <<clean, short, down, out, reported, rx, seen>>
    /\ Flow!Pump => UNCHANGED <<clean, short, up, in, out, decoded, reported>>
    /\ Flow!Report => UNCHANGED <<clean, short, up, down, in, decoded, rx, seen>>
    /\ Flow!Flush => UNCHANGED <<clean, short, up, in, decoded, reported, rx, seen>>
  BY DEF Flow!MakeNew, Flow!Cancel, Flow!Modify, Flow!Issue, Flow!Read, Flow!Pump, Flow!Report, Flow!Flush, Flow!client

LEMMA StreamStep ==
    ASSUME FlowInv, StreamInv, [Next]_vars
    PROVE  StreamInv'
<1>1. StreamTypes /\ UpStream /\ DownStream
  BY DEF StreamInv
<1>2. issued \in Seq(IssuedCommand)
  BY DEF FlowInv
<1> SUFFICES StreamTypes' /\ UpStream' /\ DownStream'
  BY DEF StreamInv
<1>3. ASSUME UNCHANGED <<up, in, clean, short, decoded>> PROVE UpStream'
  BY <1>1, <1>3 DEF UpStream
<1>4. ASSUME UNCHANGED <<down, out, rx, reported, seen>> PROVE DownStream'
  <2>1. Reports' = Reports
    BY <1>4 DEF Reports
  <2>. QED  BY <1>1, <1>4, <2>1 DEF DownStream
<1>5. CASE UNCHANGED flowVars
  <2>1. UNCHANGED <<up, in, clean, short, decoded, down, out, rx, reported, seen>>
    BY <1>5 DEF flowVars
  <2>. QED  BY <1>1, <1>3, <1>4, <2>1 DEF StreamTypes
<1>6. CASE Flow!MakeNew \/ Flow!Cancel \/ Flow!Modify
  <2>1. PICK type \in {"New", "Cancel", "Modify"} : \E id : Flow!Issue(type, id)
    <3>1. CASE Flow!MakeNew
      BY <3>1 DEF Flow!MakeNew
    <3>2. CASE Flow!Cancel
      BY <3>2 DEF Flow!Cancel
    <3>3. CASE Flow!Modify
      BY <3>3 DEF Flow!Modify
    <3>. QED  BY <1>6, <3>1, <3>2, <3>3
  <2>4. PICK id : Flow!Issue(type, id)
    BY <2>1
  <2>2. up' \in Seq(Unit) /\ clean' \in Seq(WireFrame) /\ short' \in BOOLEAN /\ UpStream'
    BY <1>1, <1>2, <2>4, StreamIssue
  <2>3. UNCHANGED <<down, in, out, decoded, reported, rx, seen>>
    BY <1>6, StreamsApart
  <2>. QED  BY <1>1, <1>4, <2>2, <2>3 DEF StreamTypes
<1>7. CASE Flow!Read
  <2>1. in' \in Seq(Unit) /\ up' \in Seq(Unit) /\ decoded' \in Seq(Seq(Unit)) /\ UpStream'
    BY <1>1, <1>7, StreamRead
  <2>2. UNCHANGED <<clean, short, down, out, reported, rx, seen>>
    BY <1>7, StreamsApart
  <2>. QED  BY <1>1, <1>4, <2>1, <2>2 DEF StreamTypes
<1>8. CASE Flow!Pump
  <2>1. rx' \in Seq(Unit) /\ down' \in Seq(Unit) /\ seen' \in Seq(Seq(Unit)) /\ DownStream'
    BY <1>1, <1>8, StreamPump
  <2>2. UNCHANGED <<clean, short, up, in, out, decoded, reported>>
    BY <1>8, StreamsApart
  <2>. QED  BY <1>1, <1>3, <2>1, <2>2 DEF StreamTypes
<1>9. CASE Flow!Report
  <2>1. out' \in Seq(Unit) /\ reported' \in Nat /\ DownStream'
    BY <1>1, <1>9, StreamReport
  <2>2. UNCHANGED <<clean, short, up, down, in, decoded, rx, seen>>
    BY <1>9, StreamsApart
  <2>. QED  BY <1>1, <1>3, <2>1, <2>2 DEF StreamTypes
<1>10. CASE Flow!Flush
  <2>1. down' \in Seq(Unit) /\ out' \in Seq(Unit) /\ DownStream'
    BY <1>1, <1>10, StreamFlush
  <2>2. UNCHANGED <<clean, short, up, in, decoded, reported, rx, seen>>
    BY <1>10, StreamsApart
  <2>. QED  BY <1>1, <1>3, <2>1, <2>2 DEF StreamTypes
<1>11. CASE RunFlow
  BY <1>6, <1>7, <1>8, <1>9, <1>10, <1>11 DEF RunFlow, Flow!Next
<1>12. CASE RunSubscribe \/ RunLoad \/ UNCHANGED vars
  BY <1>5, <1>12 DEF RunSubscribe, RunLoad, vars
<1>. QED  BY <1>11, <1>12 DEF Next

\* At the start nothing was sent and nothing waits.
LEMMA StreamStart == Init => StreamInv
<1> SUFFICES ASSUME Init PROVE StreamInv
  OBVIOUS
<1>1. /\ issued = <<>> /\ clean = <<>> /\ short = FALSE /\ up = <<>> /\ down = <<>> /\ in = <<>> /\ out = <<>>
      /\ decoded = <<>> /\ reported = 0 /\ rx = <<>> /\ seen = <<>>
  BY DEF Init, Flow!Init
<1>2. StreamTypes
  <2>1. <<>> \in Seq(Unit) /\ <<>> \in Seq(Seq(Unit)) /\ <<>> \in Seq(WireFrame) /\ 0 \in Nat /\ FALSE \in BOOLEAN
    BY EmptySeq
  <2>. QED  BY <1>1, <2>1 DEF StreamTypes
<1>3. ASSUME NEW fs \in Seq(WireFrame), Len(fs) = 0 PROVE Reads(<<>>, <<>>, 0, fs, FALSE)
  <2> DEFINE at == [k \in 0..0 |-> 0]
  <2>1. at[0] = 0 /\ \A k \in 0..0 : k = 0
    OBVIOUS
  <2>2. \A k \in 1..0 : FALSE
    OBVIOUS
  <2>3. at \in [0..0 -> 0..0]
    BY <2>1
  <2>4. PICK e : e = <<>> /\ Len(e) = 0
    OBVIOUS
  <2> HIDE DEF at
  <2>5. CarriesAt(at, e, 0, fs, 0, FALSE)
    BY <1>3, <2>1, <2>2, <2>4 DEF CarriesAt
  <2>6. Carries(e, 0, fs, 0, FALSE)
    BY <1>3, <2>3, <2>4, <2>5 DEF Carries
  <2>7. Reads(e, e, 0, fs, FALSE)
    <3>1. \A k \in 1..Len(e) : FALSE
      BY <2>2, <2>4
    <3>2. Len(e) <= Len(fs)
      BY <1>3, <2>4
    <3>3. Carries(e, 0, fs, Len(e), FALSE)
      BY <2>4, <2>6
    <3>. QED  BY <3>1, <3>2, <3>3 DEF Reads
  <2>. QED  BY <2>4, <2>7
<1>4. <<>> \o <<>> = <<>> /\ <<>> \o (<<>> \o <<>>) = <<>>
  OBVIOUS
<1>5. Reads(decoded, in \o up, 0, clean, short)
  <2>1. clean \in Seq(WireFrame) /\ Len(clean) = 0
    BY <1>1
  <2>2. Reads(<<>>, <<>>, 0, clean, FALSE)
    BY <1>3, <2>1
  <2>. QED  BY <1>1, <1>4, <2>2
<1>6. Reads(seen, rx \o (down \o out), 0, Reports, FALSE)
  <2>1. Reports \in Seq(WireFrame) /\ Len(Reports) = 0
    BY <1>1, ReportFrames
  <2>2. Reads(<<>>, <<>>, 0, Reports, FALSE)
    BY <1>3, <2>1
  <2>. QED  BY <1>1, <1>4, <2>2
<1>. QED  BY <1>2, <1>5, <1>6 DEF StreamInv, UpStream, DownStream

\* What the streams hold and what was taken from them make up what was sent.
LEMMA StreamIsWhole == StreamInv => FramesArriveWhole
<1> SUFFICES ASSUME StreamInv PROVE Flow!FramesArriveWhole
  BY DEF FramesArriveWhole
<1>1. /\ decoded \in Seq(Seq(Unit)) /\ seen \in Seq(Seq(Unit)) /\ reported \in Nat
      /\ Reads(decoded, in \o up, 0, clean, short) /\ Reads(seen, rx \o (down \o out), 0, Reports, FALSE)
  BY DEF StreamInv, StreamTypes, UpStream, DownStream
<1>2. DOMAIN decoded = 1..Len(decoded) /\ DOMAIN seen = 1..Len(seen) /\ Len(seen) \in Nat
  BY <1>1, LenProperties
<1>3. \A k \in DOMAIN decoded : IF k <= Len(clean) THEN decoded[k] = Flow!Encode(clean[k]) ELSE short
  BY <1>1, <1>2 DEF Reads
<1>4. Len(Reports) = reported /\ \A k \in 1..reported : Reports[k] = Flow!Frame(k, "Report")
  BY <1>1, ReportFrames
<1>5. Len(seen) <= reported /\ \A k \in 1..Len(seen) : seen[k] = Flow!Encode(Reports[k])
  BY <1>1, <1>4 DEF Reads
<1>6. ASSUME NEW k \in DOMAIN seen PROVE seen[k] = Flow!Encode(Flow!Frame(k, "Report"))
  <2>1. k \in 1..Len(seen) /\ k \in 1..reported
    BY <1>1, <1>2, <1>5
  <2>. QED  BY <1>4, <1>5, <2>1
<1>. QED  BY <1>3, <1>5, <1>6 DEF Flow!FramesArriveWhole

\* FramesArriveWhole of Programs, with the generator's invariant for the numbers of
\* the commands: the decode loop of the gateway (engine_server.cpp) and that of
\* run_flow (main.cpp) decode the frames that were sent whole, in order, none twice
\* and none passed over, wherever the reads and the sends cut the streams.
THEOREM FramesReadBack == Spec => []FramesArriveWhole
<1>1. FlowInv /\ StreamInv /\ [Next]_vars => StreamInv'
  BY StreamStep
<1>. QED  BY <1>1, FlowHolds, StreamStart, StreamIsWhole, PTL DEF Spec

-----------------------------------------------------------------------------
(* The market-data feed.                                                    *)

\* The publisher's count ran on from number m to number n.
OneRun(m, n) == \A e \in eras : e \notin (m + 1)..n

\* What the header number of datagram no tells of the numbers given since: they ran
\* on by one for one, or started again meanwhile, and then they are further behind.
Ahead(no, s) ==
    /\ (seq % Wrap) - s <= sent - no
    /\ OneRun(no, sent + 1) => (seq % Wrap) - s = sent - no
    /\ \A i \in DOMAIN net : no < net[i].no =>
          /\ net[i].seq - s <= net[i].no - no
          /\ OneRun(no, net[i].no) => net[i].seq - s = net[i].no - no

FeedTypeOK ==
    /\ seq \in Nat /\ sent \in Nat
    /\ net \in Seq([no : Nat, seq : 0..(Wrap - 1)])
    /\ sub \in [expect : 0..(Wrap - 1), gaps : Nat]
    /\ heard \subseteq 1..sent /\ lost \subseteq 1..sent

\* A datagram is heard, lost or on its way, and those on their way come after those
\* heard, in the order of their numbers.
EveryDatagram ==
    /\ \A n \in 1..sent : n \in heard \/ n \in lost \/ \E i \in DOMAIN net : net[i].no = n
    /\ \A n \in heard : n \notin lost
    /\ \A i \in DOMAIN net :
          net[i].no \in 1..sent /\ net[i].no \notin lost /\ \A n \in heard : n < net[i].no
    /\ \A i, j \in DOMAIN net : i < j => net[i].no < net[j].no
    /\ \A i \in DOMAIN net : Ahead(net[i].no, net[i].seq)

Passed(h) == {n \in lost : n < h /\ \E m \in heard : m < n}

\* The last datagram heard is what the subscriber counts on from.
Counted ==
    \/ heard = {} /\ sub.expect = 0 /\ sub.gaps = 0
    \/ \E h \in heard, s \in 0..(Wrap - 1) :
          /\ \A m \in heard : m <= h
          /\ sub.expect = (s + 1) % Wrap
          /\ Ahead(h, s)
          /\ sub.gaps <= Cardinality(Passed(h))
          /\ Cardinality(Subscription!Noticeable) <= sub.gaps

FeedInv == FeedTypeOK /\ EveryDatagram /\ Counted

\* Quotient and remainder of a number, and the remainder of a sum of multiples.
LEMMA DivMod ==
    ASSUME NEW w \in Nat \ {0}, NEW a \in Int
    PROVE  a \div w \in Int /\ a % w \in 0..(w - 1) /\ a = w * (a \div w) + (a % w)
<1>1. a \div w \in Int /\ a % w \in 0..(w - 1)
  OBVIOUS
<1>2. a = w * (a \div w) + (a % w)
  BY Z3
<1>. QED  BY <1>1, <1>2

\* What is left of a multiple and a rest is the rest.
LEMMA Remainder ==
    ASSUME NEW w \in Nat \ {0}, NEW d \in Int, NEW r \in 0..(w - 1)
    PROVE  (w * d + r) % w = r
  OBVIOUS

\* The header's count: the next number is one more, or 0 where the width ends.
LEMMA NextHeader ==
    ASSUME NEW w \in Nat \ {0, 1}, NEW q \in Nat
    PROVE  /\ q % w \in 0..(w - 1) /\ 0 % w = 0
           /\ (q + 1) % w = IF q % w = w - 1 THEN 0 ELSE (q % w) + 1
<1> DEFINE d == q \div w
           r == q % w
<1>1. d \in Int /\ r \in 0..(w - 1) /\ q = w * d + r
  BY DivMod
<1>2. 0 % w = 0
  OBVIOUS
<1> HIDE DEF d, r
<1>3. CASE r = w - 1
  <2>1. q + 1 = w * (d + 1) + 0 /\ d + 1 \in Int /\ 0 \in 0..(w - 1)
    BY <1>1, <1>3
  <2>2. (w * (d + 1) + 0) % w = 0
    BY <2>1, Remainder
  <2>. QED  BY <2>1, <1>1, <1>2, <1>3, <2>2 DEF r
<1>4. CASE r # w - 1
  <2>1. q + 1 = w * d + (r + 1) /\ r + 1 \in 0..(w - 1)
    BY <1>1, <1>4
  <2>2. (w * d + (r + 1)) % w = r + 1
    BY <1>1, <2>1, Remainder
  <2>. QED  BY <2>1, <1>1, <1>2, <1>4, <2>2 DEF r
<1>. QED  BY <1>3, <1>4

\* The same for a number that is a header's already.
LEMMA HeaderAfter ==
    ASSUME NEW w \in Nat \ {0, 1}, NEW s \in 0..(w - 1)
    PROVE  (s + 1) % w = IF s = w - 1 THEN 0 ELSE s + 1
<1>1. CASE s = w - 1
  <2>1. (w * 1 + 0) % w = 0
    BY Remainder
  <2>. QED  BY <1>1, <2>1
<1>2. CASE s # w - 1
  <2>1. (w * 0 + (s + 1)) % w = s + 1
    BY <1>2, Remainder
  <2>. QED  BY <1>2, <2>1
<1>. QED  BY <1>1, <1>2

\* The front of a queue leaves it.
LEMMA QueueShifts ==
    ASSUME NEW T, NEW q \in Seq(T), q # <<>>
    PROVE  /\ Tail(q) \in Seq(T) /\ 1 \in DOMAIN q /\ Head(q) = q[1]
           /\ \A i \in DOMAIN q : i \in Nat /\ i >= 1 /\ q[i] \in T
           /\ \A i \in DOMAIN Tail(q) : i + 1 \in DOMAIN q /\ Tail(q)[i] = q[i + 1]
           /\ \A i \in DOMAIN Tail(q) : i \in Nat
           /\ \A i \in DOMAIN q : i = 1 \/ i - 1 \in DOMAIN Tail(q)
<1> DEFINE n == Len(q)
           t == Tail(q)
<1>1. /\ n \in Nat /\ DOMAIN q = 1..n /\ t \in Seq(T) /\ Len(t) = n - 1
      /\ \A i \in 1..(n - 1) : t[i] = q[i + 1]
  BY HeadTailProperties, LenProperties
<1>2. DOMAIN t = 1..(n - 1)
  BY <1>1, LenProperties
<1>3. n # 0 /\ Head(q) = q[1]
  BY EmptySeq, LenProperties
<1>4. \A i \in 1..n : q[i] \in T
  BY <1>1, ElementOfSeq
<1> HIDE DEF n, t
<1>5. /\ 1 \in DOMAIN q
      /\ \A i \in DOMAIN q : i \in Nat /\ i >= 1 /\ q[i] \in T
      /\ \A i \in DOMAIN t : i + 1 \in DOMAIN q /\ t[i] = q[i + 1]
      /\ \A i \in DOMAIN t : i \in Nat
      /\ \A i \in DOMAIN q : i = 1 \/ i - 1 \in DOMAIN t
  BY <1>1, <1>2, <1>3, <1>4
<1>. QED  BY <1>1, <1>3, <1>5 DEF t

\* A queue gets a new back.
LEMMA QueueGrows ==
    ASSUME NEW T, NEW q \in Seq(T), NEW e \in T
    PROVE  /\ Append(q, e) \in Seq(T)
           /\ \A i \in DOMAIN q : i \in Nat /\ i \in DOMAIN Append(q, e) /\ Append(q, e)[i] = q[i]
           /\ \E k \in DOMAIN Append(q, e) :
                 /\ k \in Nat /\ k \notin DOMAIN q /\ Append(q, e)[k] = e
                 /\ \A i \in DOMAIN q : i < k
                 /\ \A i \in DOMAIN Append(q, e) : i \in DOMAIN q \/ i = k
<1> DEFINE n == Len(q)
           a == Append(q, e)
<1>1. /\ n \in Nat /\ DOMAIN q = 1..n /\ a \in Seq(T) /\ Len(a) = n + 1
      /\ \A i \in 1..n : a[i] = q[i]
      /\ a[n + 1] = e
  BY AppendProperties, LenProperties
<1>2. DOMAIN a = 1..(n + 1)
  BY <1>1, LenProperties
<1> HIDE DEF n, a
<1>3. /\ \A i \in DOMAIN q : i \in Nat /\ i \in DOMAIN a /\ a[i] = q[i]
      /\ n + 1 \in DOMAIN a /\ n + 1 \in Nat /\ n + 1 \notin DOMAIN q /\ a[n + 1] = e
      /\ \A i \in DOMAIN q : i < n + 1
      /\ \A i \in DOMAIN a : i \in DOMAIN q \/ i = n + 1
  BY <1>1, <1>2
<1>. QED  BY <1>1, <1>3 DEF a

\* A count that ran on is one the model's history calls one era.
LEMMA RunsAreEras ==
    ASSUME NEW m, NEW n
    PROVE  Subscription!SameEra(m, n) <=> OneRun(m, n)
  BY DEF Subscription!SameEra, OneRun

\* The same of the next state.
LEMMA RunsAreErasNext ==
    ASSUME NEW CONSTANT m, NEW CONSTANT n
    PROVE  Subscription!SameEra(m, n)' <=> OneRun(m, n)'
  BY DEF Subscription!SameEra, OneRun

\* The types of what the feed's proofs compute with.
LEMMA FeedTypes ==
    ASSUME FeedTypeOK
    PROVE  /\ Wrap \in Nat /\ Wrap > 1
           /\ seq % Wrap \in 0..(Wrap - 1) /\ 0 % Wrap = 0
           /\ (seq + 1) % Wrap = IF seq % Wrap = Wrap - 1 THEN 0 ELSE (seq % Wrap) + 1
           /\ \A i \in DOMAIN net :
                 i \in Nat /\ net[i].no \in Nat /\ net[i].seq \in 0..(Wrap - 1)
<1>1. Wrap \in Nat \ {0, 1} /\ seq \in Nat
  BY ProgramsAssumption DEF FeedTypeOK
<1>2. net \in Seq([no : Nat, seq : 0..(Wrap - 1)])
  BY DEF FeedTypeOK
<1>3. DOMAIN net = 1..Len(net) /\ Len(net) \in Nat
  BY <1>2, LenProperties
<1>4. \A i \in 1..Len(net) : net[i] \in [no : Nat, seq : 0..(Wrap - 1)]
  BY <1>2, ElementOfSeq
<1>5. \A i \in DOMAIN net : i \in Nat /\ net[i].no \in Nat /\ net[i].seq \in 0..(Wrap - 1)
  BY <1>3, <1>4
<1>6. /\ seq % Wrap \in 0..(Wrap - 1) /\ 0 % Wrap = 0
      /\ (seq + 1) % Wrap = IF seq % Wrap = Wrap - 1 THEN 0 ELSE (seq % Wrap) + 1
  BY <1>1, NextHeader
<1>7. Wrap \in Nat /\ Wrap > 1
  BY <1>1
<1>. QED  BY <1>5, <1>6, <1>7

\* A datagram gets its number: the counts it ran ahead of go on with it.
LEMMA NumberedAhead ==
    ASSUME FeedTypeOK, Subscription!Numbered,
           NEW no \in 1..sent, NEW s \in 0..(Wrap - 1), Ahead(no, s)
    PROVE  Ahead(no, s)'
<1> DEFINE q == seq % Wrap
           e == [no |-> sent', seq |-> seq' % Wrap]
<1>1. /\ sent \in Nat /\ seq' = seq + 1 /\ sent' = sent + 1
      /\ Wrap \in Nat /\ Wrap > 1 /\ q \in 0..(Wrap - 1)
      /\ seq' % Wrap = IF q = Wrap - 1 THEN 0 ELSE q + 1
      /\ \A x \in eras : x \in eras'
      /\ seq' % Wrap = 0 => sent' \in eras'
      /\ \A i \in DOMAIN net : i \in Nat /\ net[i].no \in Nat /\ net[i].seq \in 0..(Wrap - 1)
  BY FeedTypes DEF FeedTypeOK, Subscription!Numbered
<1>2. /\ q - s <= sent - no
      /\ OneRun(no, sent + 1) => q - s = sent - no
      /\ \A i \in DOMAIN net : no < net[i].no =>
            /\ net[i].seq - s <= net[i].no - no
            /\ OneRun(no, net[i].no) => net[i].seq - s = net[i].no - no
  BY DEF Ahead
<1>3. net' = net \/ net' = Append(net, e)
  BY DEF Subscription!Numbered
<1>4. \A i \in DOMAIN net' : (i \in DOMAIN net /\ net'[i] = net[i]) \/ net'[i] = e
  <2>1. e \in [no : Nat, seq : 0..(Wrap - 1)]
    BY <1>1
  <2>2. net \in Seq([no : Nat, seq : 0..(Wrap - 1)])
    BY DEF FeedTypeOK
  <2> HIDE DEF e
  <2>3. \A i \in DOMAIN Append(net, e) :
           (i \in DOMAIN net /\ Append(net, e)[i] = net[i]) \/ Append(net, e)[i] = e
    <3> DEFINE T == [no : Nat, seq : 0..(Wrap - 1)]
    <3>1. net \in Seq(T) /\ e \in T
      BY <2>1, <2>2
    <3> HIDE DEF T
    <3>2. /\ \A i \in DOMAIN net : Append(net, e)[i] = net[i]
          /\ \E k \in DOMAIN Append(net, e) :
                /\ Append(net, e)[k] = e
                /\ \A i \in DOMAIN Append(net, e) : i \in DOMAIN net \/ i = k
      BY <3>1, QueueGrows
    <3>. QED  BY <3>2
  <2>4. CASE net' = net
    BY <2>4
  <2>5. CASE net' = Append(net, e)
    BY <2>3, <2>5
  <2>. QED  BY <1>3, <2>4, <2>5
<1> DEFINE W(n) == \A x \in eras' : x \notin (no + 1)..n
<1>5. \A n \in Nat : W(n) => OneRun(no, n)
  BY <1>1 DEF OneRun
<1>6. W(sent + 1) => OneRun(no, sent + 1) /\ seq' % Wrap # 0
  <2>1. sent + 1 \in Nat /\ sent + 1 \in (no + 1)..(sent + 1)
    BY <1>1
  <2>. QED  BY <1>1, <1>5, <2>1
<1>7. OneRun(no, sent + 1)' => W(sent + 1)
  BY <1>1 DEF OneRun
<1> HIDE DEF q, e
<1>8. (seq' % Wrap) - s <= sent' - no
  BY <1>1, <1>2
<1>9. W(sent + 1) => (seq' % Wrap) - s = sent' - no
  <2> HIDE DEF W
  <2>. QED  BY <1>1, <1>2, <1>6
<1>10. \A i \in DOMAIN net' : no < net'[i].no =>
          /\ net'[i].seq - s <= net'[i].no - no
          /\ W(net'[i].no) => net'[i].seq - s = net'[i].no - no
  <2> SUFFICES ASSUME NEW i \in DOMAIN net', no < net'[i].no
               PROVE  /\ net'[i].seq - s <= net'[i].no - no
                      /\ W(net'[i].no) => net'[i].seq - s = net'[i].no - no
    OBVIOUS
  <2> HIDE DEF W
  <2>1. CASE i \in DOMAIN net /\ net'[i] = net[i]
    BY <1>1, <1>2, <1>5, <2>1
  <2>2. CASE net'[i] = e
    <3>1. net'[i].no = sent + 1 /\ net'[i].seq = seq' % Wrap
      BY <1>1, <2>2 DEF e
    <3>. QED  BY <1>1, <1>8, <1>9, <3>1
  <2>. QED  BY <1>4, <2>1, <2>2
<1>11. OneRun(no, sent + 1)' => (seq' % Wrap) - s = sent' - no
  <2> HIDE DEF W
  <2>. QED  BY <1>7, <1>9
<1>12. \A i \in DOMAIN net' : OneRun(no, net[i].no)' => W(net'[i].no)
  BY DEF OneRun
<1> HIDE DEF W
<1>. QED  BY <1>8, <1>10, <1>11, <1>12 DEF Ahead

\* The publisher counts from 0 again: every count ends here.
LEMMA RestartAhead ==
    ASSUME FeedTypeOK, Subscription!Restart,
           NEW no \in 1..sent, NEW s \in 0..(Wrap - 1), Ahead(no, s)
    PROVE  Ahead(no, s)'
<1>1. /\ sent \in Nat /\ Wrap \in Nat /\ seq' % Wrap = 0
      /\ sent' = sent /\ net' = net
      /\ \A x \in eras : x \in eras'
      /\ sent + 1 \in eras'
  BY FeedTypes DEF FeedTypeOK, Subscription!Restart
<1>2. sent + 1 \in (no + 1)..(sent + 1) /\ 0 - s <= sent - no
  BY <1>1
<1>3. ~OneRun(no, sent + 1)'
  BY <1>1, <1>2 DEF OneRun
<1>4. \A i \in DOMAIN net : OneRun(no, net[i].no)' => OneRun(no, net[i].no)
  BY <1>1 DEF OneRun
<1>. QED  BY <1>1, <1>2, <1>3, <1>4 DEF Ahead

\* What the network delivers or loses takes nothing from what is behind it.
LEMMA ShiftAhead ==
    ASSUME FeedTypeOK, net # <<>>, net' = Tail(net), UNCHANGED <<seq, sent, eras>>,
           NEW no, NEW s, Ahead(no, s)
    PROVE  Ahead(no, s)'
<1>1. \A i \in DOMAIN net' : i + 1 \in DOMAIN net /\ net'[i] = net[i + 1]
  BY QueueShifts DEF FeedTypeOK
<1>2. /\ (seq % Wrap)' = seq % Wrap /\ sent' = sent /\ eras' = eras
  OBVIOUS
<1>3. /\ (seq % Wrap) - s <= sent - no
      /\ OneRun(no, sent + 1) => (seq % Wrap) - s = sent - no
      /\ \A i \in DOMAIN net : no < net[i].no =>
            /\ net[i].seq - s <= net[i].no - no
            /\ OneRun(no, net[i].no) => net[i].seq - s = net[i].no - no
  BY DEF Ahead
<1>4. (seq % Wrap)' - s <= sent' - no
  BY <1>2, <1>3
<1>5. OneRun(no, sent + 1)' => (seq % Wrap)' - s = sent' - no
  BY <1>2, <1>3 DEF OneRun
<1>6. ASSUME NEW i \in DOMAIN net', no < net'[i].no
      PROVE  /\ net'[i].seq - s <= net'[i].no - no
             /\ OneRun(no, net[i].no)' => net'[i].seq - s = net'[i].no - no
  <2>1. i + 1 \in DOMAIN net /\ net'[i] = net[i + 1]
    BY <1>1
  <2>2. OneRun(no, net[i].no)' <=> OneRun(no, net[i + 1].no)
    BY <2>1, <1>2 DEF OneRun
  <2>. QED  BY <1>3, <1>6, <2>1, <2>2
<1>. QED  BY <1>4, <1>5, <1>6 DEF Ahead

\* A new datagram is the last one.
LEMMA NewAhead ==
    ASSUME FeedTypeOK, FeedTypeOK', \A i \in DOMAIN net' : net'[i].no <= sent'
    PROVE  Ahead(sent, seq % Wrap)'
<1>1. /\ sent' \in Nat /\ (seq % Wrap)' \in Int
      /\ \A i \in DOMAIN net' : ~(sent' < net'[i].no)
  <2>1. Wrap \in Nat \ {0, 1} /\ seq' \in Nat /\ sent' \in Nat
    <3>1. Wrap \in Nat \ {0, 1}
      BY ProgramsAssumption
    <3>2. seq' \in Nat /\ sent' \in Nat
      BY DEF FeedTypeOK
    <3>. QED  BY <3>1, <3>2
  <2>2. seq' % Wrap \in 0..(Wrap - 1)
    BY <2>1, NextHeader
  <2>3. \A i \in DOMAIN net' : net'[i].no \in Nat
    <3>1. net' \in Seq([no : Nat, seq : 0..(Wrap - 1)])
      BY DEF FeedTypeOK
    <3>2. DOMAIN net' = 1..Len(net') /\ \A i \in 1..Len(net') : net'[i] \in [no : Nat, seq : 0..(Wrap - 1)]
      BY <3>1, LenProperties, ElementOfSeq
    <3>. QED  BY <3>2
  <2>. QED  BY <2>1, <2>2, <2>3
<1>. QED  BY <1>1 DEF Ahead

\* What is known of the datagrams on their way, one by one.
LEMMA OnTheWay ==
    ASSUME FeedTypeOK, EveryDatagram
    PROVE  \A i \in DOMAIN net :
              /\ i \in Nat /\ net[i].no \in 1..sent /\ net[i].seq \in 0..(Wrap - 1)
              /\ net[i].no \notin lost /\ Ahead(net[i].no, net[i].seq)
              /\ \A n \in heard : n < net[i].no
  BY FeedTypes DEF EveryDatagram

\* A new number is on its way or lost.
LEMMA NumberedDatagrams ==
    ASSUME FeedTypeOK, EveryDatagram, Subscription!Numbered
    PROVE  FeedTypeOK' /\ EveryDatagram'
<1> DEFINE T == [no : Nat, seq : 0..(Wrap - 1)]
           e == [no |-> sent + 1, seq |-> seq' % Wrap]
<1>1. /\ seq \in Nat /\ sent \in Nat /\ net \in Seq(T)
      /\ sub \in [expect : 0..(Wrap - 1), gaps : Nat]
      /\ heard \subseteq 1..sent /\ lost \subseteq 1..sent
  BY DEF FeedTypeOK
<1>2. /\ seq' = seq + 1 /\ sent' = sent + 1 /\ sub' = sub /\ heard' = heard
      /\ \/ net' = Append(net, e) /\ lost' = lost
         \/ net' = net /\ lost' = lost \cup {sent + 1}
  BY DEF Subscription!Numbered
<1>3. e \in T
  BY <1>1, <1>2, FeedTypes
<1>4. FeedTypeOK'
  <2>1. net' \in Seq(T)
    <3> HIDE DEF e, T
    <3>1. Append(net, e) \in Seq(T)
      BY <1>1, <1>3, AppendProperties
    <3>. QED  BY <1>1, <1>2, <3>1
  <2>2. seq' \in Nat /\ sent' \in Nat /\ heard' \subseteq 1..sent' /\ lost' \subseteq 1..sent'
    <3>1. sent' = sent + 1 /\ seq' = seq + 1 /\ heard' = heard
      BY <1>2
    <3>2. lost' \subseteq lost \cup {sent + 1}
      BY <1>2, Zenon
    <3>. QED  BY <1>1, <3>1, <3>2
  <2>. QED  BY <1>1, <1>2, <2>1, <2>2 DEF FeedTypeOK
<1>5. /\ \A i \in DOMAIN net : i \in DOMAIN net' /\ net'[i] = net[i]
      /\ \A i, j \in DOMAIN net' : i < j => i \in DOMAIN net
      /\ \A i \in DOMAIN net' : \/ i \in DOMAIN net /\ net'[i] = net[i]
                                \/ net'[i] = e
      /\ sent + 1 \in lost' \/ \E i \in DOMAIN net' : net'[i] = e
      /\ \A i \in DOMAIN net' : net'[i] = e => sent + 1 \notin lost'
  <2>1. \A i \in DOMAIN net : i \in Nat /\ net[i].no # sent + 1
    BY <1>1, FeedTypes, OnTheWay, SMTT(20)
  <2>2. CASE net' = net /\ lost' = lost \cup {sent + 1}
    BY <2>1, <2>2
  <2>3. CASE net' = Append(net, e) /\ lost' = lost
    <3>1. /\ \A i \in DOMAIN net : i \in Nat /\ i \in DOMAIN net' /\ net'[i] = net[i]
          /\ \E k \in DOMAIN net' :
                /\ k \in Nat /\ k \notin DOMAIN net /\ net'[k] = e
                /\ \A i \in DOMAIN net : i < k
                /\ \A i \in DOMAIN net' : i \in DOMAIN net \/ i = k
      <4> HIDE DEF e, T
      <4>. QED  BY <1>1, <1>3, <2>3, QueueGrows
    <3>2. sent + 1 \notin lost'
      BY <1>1, <2>3
    <3> HIDE DEF e
    <3>. QED  BY <3>1, <3>2
  <2>. QED  BY <1>2, <2>2, <2>3
<1>6. e.no = sent + 1 /\ e.seq = seq' % Wrap
  OBVIOUS
<1> HIDE DEF e
<1>7. /\ \A n \in 1..sent : n \in heard \/ n \in lost \/ \E i \in DOMAIN net : net[i].no = n
      /\ \A n \in heard : n \notin lost
      /\ \A i, j \in DOMAIN net : i < j => net[i].no < net[j].no
      /\ \A i \in DOMAIN net :
            /\ net[i].no \in 1..sent /\ net[i].seq \in 0..(Wrap - 1) /\ net[i].no \notin lost
            /\ Ahead(net[i].no, net[i].seq) /\ \A n \in heard : n < net[i].no
  BY OnTheWay DEF EveryDatagram
<1>8. \A n \in 1..sent' : n \in heard' \/ n \in lost' \/ \E i \in DOMAIN net' : net'[i].no = n
  <2> SUFFICES ASSUME NEW n \in 1..(sent + 1)
               PROVE  n \in heard' \/ n \in lost' \/ \E i \in DOMAIN net' : net'[i].no = n
    BY <1>2
  <2>1. CASE n = sent + 1
    BY <1>5, <1>6, <2>1
  <2>2. CASE n \in 1..sent
    BY <1>2, <1>5, <1>7, <2>2
  <2>. QED  BY <1>1, <2>1, <2>2
<1>9. \A n \in heard' : n \notin lost'
  BY <1>1, <1>2, <1>7
<1>10. \A i \in DOMAIN net' :
          net'[i].no \in 1..sent' /\ net'[i].no \notin lost' /\ \A n \in heard' : n < net'[i].no
  <2> SUFFICES ASSUME NEW i \in DOMAIN net'
               PROVE  /\ net'[i].no \in 1..(sent + 1) /\ net'[i].no \notin lost'
                      /\ \A n \in heard : n < net'[i].no
    BY <1>2
  <2>1. CASE i \in DOMAIN net /\ net'[i] = net[i]
    <3>1. PICK m : m = net'[i].no
      OBVIOUS
    <3>2. m \in 1..sent /\ m \notin lost /\ \A n \in heard : n < m
      BY <1>7, <2>1, <3>1
    <3>3. m \in 1..(sent + 1) /\ m # sent + 1
      BY <1>1, <3>2
    <3>4. m \notin lost'
      BY <1>2, <3>2, <3>3
    <3>. QED  BY <3>1, <3>2, <3>3, <3>4
  <2>2. CASE net'[i] = e
    <3>1. net'[i].no = sent + 1 /\ sent + 1 \notin lost'
      BY <1>5, <1>6, <2>2
    <3>2. sent + 1 \in 1..(sent + 1) /\ \A n \in heard : n < sent + 1
      BY <1>1
    <3>. QED  BY <3>1, <3>2
  <2>. QED  BY <1>5, <2>1, <2>2
<1>11. \A i, j \in DOMAIN net' : i < j => net'[i].no < net'[j].no
  BY <1>1, <1>5, <1>6, <1>7, SMTT(20)
<1>12. \A i \in DOMAIN net' : Ahead(net[i].no, net[i].seq)'
  <2> SUFFICES ASSUME NEW i \in DOMAIN net'
               PROVE  Ahead(net[i].no, net[i].seq)'
    OBVIOUS
  <2>1. CASE i \in DOMAIN net /\ net'[i] = net[i]
    <3>1. \A no \in 1..sent, s \in 0..(Wrap - 1) : Ahead(no, s) => Ahead(no, s)'
      BY NumberedAhead
    <3>. QED  BY <1>7, <2>1, <3>1
  <2>2. CASE net'[i] = e
    <3>1. Ahead(sent, seq % Wrap)'
      BY <1>4, <1>10, NewAhead
    <3>. QED  BY <1>2, <1>6, <2>2, <3>1
  <2>. QED  BY <1>5, <2>1, <2>2
<1>. QED  BY <1>4, <1>8, <1>9, <1>10, <1>11, <1>12 DEF EveryDatagram

\* The front datagram is heard or lost; the others stay on their way.
LEMMA TakenDatagrams ==
    ASSUME FeedTypeOK, EveryDatagram, net # <<>>, net' = Tail(net),
           UNCHANGED <<seq, sent, eras>>,
           \/ heard' = heard /\ lost' = lost \cup {net[1].no}
           \/ heard' = heard \cup {net[1].no} /\ lost' = lost,
           sub' \in [expect : 0..(Wrap - 1), gaps : Nat]
    PROVE  FeedTypeOK' /\ EveryDatagram'
<1>1. /\ seq \in Nat /\ sent \in Nat /\ net \in Seq([no : Nat, seq : 0..(Wrap - 1)])
      /\ heard \subseteq 1..sent /\ lost \subseteq 1..sent
      /\ seq' = seq /\ sent' = sent
  BY DEF FeedTypeOK
<1>2. /\ net' \in Seq([no : Nat, seq : 0..(Wrap - 1)]) /\ 1 \in DOMAIN net
      /\ \A i \in DOMAIN net' : i \in Nat /\ i + 1 \in DOMAIN net /\ net'[i] = net[i + 1]
      /\ \A i \in DOMAIN net : i \in Nat /\ i >= 1 /\ (i = 1 \/ i - 1 \in DOMAIN net')
  BY <1>1, QueueShifts
<1>3. /\ \A n \in 1..sent : n \in heard \/ n \in lost \/ \E i \in DOMAIN net : net[i].no = n
      /\ \A n \in heard : n \notin lost
      /\ \A i, j \in DOMAIN net : i < j => net[i].no < net[j].no
      /\ \A i \in DOMAIN net :
            /\ net[i].no \in 1..sent /\ net[i].seq \in 0..(Wrap - 1) /\ net[i].no \notin lost
            /\ Ahead(net[i].no, net[i].seq) /\ \A n \in heard : n < net[i].no
  BY OnTheWay DEF EveryDatagram
<1> DEFINE k == net[1].no
<1>4. k \in 1..sent /\ k \notin lost /\ k \notin heard /\ \A n \in heard : n < k
  BY <1>1, <1>2, <1>3
<1>5. \A i \in DOMAIN net : i # 1 => k < net[i].no
  BY <1>2, <1>3
<1>6. /\ \A n : n \in heard' \/ n \in lost' <=> n \in heard \/ n \in lost \/ n = k
      /\ \A n \in heard' : n \in heard \/ n = k
      /\ \A n \in lost' : n \in lost \/ n = k
      /\ ~(k \in heard' /\ k \in lost')
  BY <1>4
<1> HIDE DEF k
<1>7. heard' \subseteq 1..sent /\ lost' \subseteq 1..sent
  BY <1>1, <1>4, <1>6
<1>8. FeedTypeOK'
  BY <1>1, <1>2, <1>7 DEF FeedTypeOK
<1>9. \A n \in 1..sent : n \in heard' \/ n \in lost' \/ \E i \in DOMAIN net' : net'[i].no = n
  <2> SUFFICES ASSUME NEW n \in 1..sent, NEW i \in DOMAIN net, net[i].no = n
               PROVE  n \in heard' \/ n \in lost' \/ \E j \in DOMAIN net' : net'[j].no = n
    BY <1>3, <1>6
  <2>1. CASE i = 1
    BY <1>6, <2>1 DEF k
  <2>2. CASE i # 1
    <3>1. i - 1 \in DOMAIN net' /\ (i - 1) + 1 = i
      BY <1>2, <2>2
    <3>2. net'[i - 1] = net[i]
      BY <1>2, <3>1
    <3>. QED  BY <3>1, <3>2
  <2>. QED  BY <2>1, <2>2
<1>10. \A n \in heard' : n \notin lost'
  BY <1>3, <1>4, <1>6
<1>11. \A i \in DOMAIN net' :
          /\ net'[i].no \in 1..sent /\ net'[i].no \notin lost'
          /\ \A n \in heard' : n < net'[i].no
  <2> SUFFICES ASSUME NEW i \in DOMAIN net'
               PROVE  /\ net'[i].no \in 1..sent /\ net'[i].no \notin lost'
                      /\ \A n \in heard' : n < net'[i].no
    OBVIOUS
  <2>1. i + 1 \in DOMAIN net /\ i + 1 # 1 /\ net'[i] = net[i + 1]
    BY <1>2
  <2>2. /\ net[i + 1].no \in 1..sent /\ net[i + 1].no \notin lost /\ k < net[i + 1].no
        /\ \A n \in heard : n < net[i + 1].no
    BY <1>3, <1>5, <2>1
  <2>3. net[i + 1].no # k
    BY <1>4, <2>2
  <2>. QED  BY <1>6, <2>1, <2>2, <2>3
<1>12. \A i, j \in DOMAIN net' : i < j => net'[i].no < net'[j].no
  BY <1>2, <1>3
<1>13. \A i \in DOMAIN net' : Ahead(net[i].no, net[i].seq)'
  <2> SUFFICES ASSUME NEW i \in DOMAIN net'
               PROVE  Ahead(net[i].no, net[i].seq)'
    OBVIOUS
  <2>1. i + 1 \in DOMAIN net /\ net'[i] = net[i + 1]
    BY <1>2
  <2>2. \A no, s : Ahead(no, s) => Ahead(no, s)'
    BY ShiftAhead
  <2>. QED  BY <1>3, <2>1, <2>2
<1>. QED  BY <1>1, <1>8, <1>9, <1>10, <1>11, <1>12, <1>13 DEF EveryDatagram

\* A restarted publisher sends nothing yet.
LEMMA RestartDatagrams ==
    ASSUME FeedTypeOK, EveryDatagram, Subscription!Restart
    PROVE  FeedTypeOK' /\ EveryDatagram'
<1>1. net' = net /\ sent' = sent /\ heard' = heard /\ lost' = lost /\ sub' = sub /\ seq' = 0
  BY DEF Subscription!Restart
<1>2. FeedTypeOK'
  BY <1>1 DEF FeedTypeOK
<1>3. \A i \in DOMAIN net : Ahead(net[i].no, net[i].seq)'
  <2>1. \A no \in 1..sent, s \in 0..(Wrap - 1) : Ahead(no, s) => Ahead(no, s)'
    BY RestartAhead
  <2>2. \A i \in DOMAIN net : Ahead(net[i].no, net[i].seq)' <=> Ahead(net[i].no, net[i].seq)'
    OBVIOUS
  <2>. QED  BY <1>1, <2>1, OnTheWay
<1>. QED  BY <1>1, <1>2, <1>3 DEF EveryDatagram

\* Numbers that were lost are few.
LEMMA LostIsFinite ==
    ASSUME FeedTypeOK, NEW S \in SUBSET lost
    PROVE  IsFiniteSet(S) /\ Cardinality(S) \in Nat
<1>1. lost \subseteq 1..sent /\ sent \in Nat
  BY DEF FeedTypeOK
<1>2. IsFiniteSet(1..sent)
  BY <1>1, FS_Interval
<1>3. IsFiniteSet(S)
  BY <1>1, <1>2, FS_Subset
<1>. QED  BY <1>3, FS_CardinalityType

\* As long as nothing is heard the count stands, whatever is lost or numbered.
LEMMA QuietCount ==
    ASSUME FeedTypeOK, FeedTypeOK', Counted, heard' = heard, sub' = sub,
           \A n \in lost : n \in lost',
           \A n \in lost' : n \in lost \/ \A m \in heard : m < n,
           \A x \in eras : x \in eras',
           \A no \in 1..sent, s \in 0..(Wrap - 1) : Ahead(no, s) => Ahead(no, s)'
    PROVE  Counted'
<1>1. CASE heard = {} /\ sub.expect = 0 /\ sub.gaps = 0
  BY <1>1 DEF Counted
<1>2. CASE heard # {} \/ sub.expect # 0 \/ sub.gaps # 0
  <2>1. PICK h \in heard, s \in 0..(Wrap - 1) :
          /\ \A m \in heard : m <= h
          /\ sub.expect = (s + 1) % Wrap
          /\ Ahead(h, s)
          /\ sub.gaps <= Cardinality(Passed(h))
          /\ Cardinality(Subscription!Noticeable) <= sub.gaps
    BY <1>2 DEF Counted
  <2>2. sent \in Nat /\ heard \subseteq 1..sent /\ lost \subseteq 1..sent /\ sub.gaps \in Nat
    BY DEF FeedTypeOK
  <2>3. Ahead(h, s)'
    BY <2>1, <2>2
  <2>4. \A n \in lost' : n \notin lost => h < n /\ \A b \in heard : ~(n < b)
    <3>1. lost' \subseteq Nat /\ heard \subseteq Nat
      BY <2>2 DEF FeedTypeOK
    <3>. QED  BY <2>1, <3>1
  <2>5. Passed(h)' = Passed(h)
    BY <2>4 DEF Passed
  <2>6. Subscription!Noticeable' \subseteq Subscription!Noticeable
    <3> SUFFICES ASSUME NEW n \in Subscription!Noticeable'
                 PROVE  n \in Subscription!Noticeable
      OBVIOUS
    <3>1. PICK a \in heard, b \in heard :
            n \in lost' /\ a < n /\ n < b /\ eras' \cap (a + 1)..b = {}
      BY DEF Subscription!Noticeable, Subscription!SameEra
    <3>2. n \in lost
      BY <2>4, <3>1
    <3>3. eras \cap (a + 1)..b = {}
      BY <3>1
    <3>. QED  BY <3>1, <3>2, <3>3 DEF Subscription!Noticeable, Subscription!SameEra
  <2>7. Cardinality(Subscription!Noticeable') <= sub.gaps
    <3>1. Subscription!Noticeable \subseteq lost
      BY DEF Subscription!Noticeable
    <3>2. /\ IsFiniteSet(Subscription!Noticeable)
          /\ Cardinality(Subscription!Noticeable) \in Nat
      BY <3>1, LostIsFinite
    <3>3. /\ IsFiniteSet(Subscription!Noticeable')
          /\ Cardinality(Subscription!Noticeable') <= Cardinality(Subscription!Noticeable)
      BY <2>6, <3>2, FS_Subset
    <3>4. Cardinality(Subscription!Noticeable') \in Nat
      BY <3>3, FS_CardinalityType
    <3>. QED  BY <2>1, <2>2, <3>2, <3>3, <3>4
  <2>. QED  BY <2>1, <2>3, <2>5, <2>7 DEF Counted
<1>. QED  BY <1>1, <1>2

\* What the subscriber adds for a datagram it hears.
LEMMA JumpFacts ==
    ASSUME FeedTypeOK, NEW r \in 0..(Wrap - 1)
    PROVE  /\ Subscription!Jump(r) \in Nat
           /\ sub.expect = 0 => Subscription!Jump(r) = 0
           /\ sub.expect # 0 /\ r > sub.expect => Subscription!Jump(r) = r - sub.expect
           /\ sub.expect # 0 /\ ~(r > sub.expect) => Subscription!Jump(r) = 0
<1>1. sub.expect \in Nat /\ r \in Nat
  BY FeedTypes DEF FeedTypeOK
<1>. QED  BY <1>1 DEF Subscription!Jump

\* Between the last datagram heard and the next every number was lost, and the
\* jump of the header is at most their number: just that in one run of the count.
LEMMA ReceivedJump ==
    ASSUME FeedTypeOK, EveryDatagram, net # <<>>,
           NEW h \in heard, NEW s \in 0..(Wrap - 1),
           \A m \in heard : m <= h, sub.expect = (s + 1) % Wrap, Ahead(h, s)
    PROVE  LET k == net[1].no
               r == net[1].seq
           IN /\ k \in Nat /\ h \in Nat /\ h < k
              /\ (h + 1)..(k - 1) \subseteq lost
              /\ Subscription!Jump(r) <= (k - 1) - h
              /\ OneRun(h, k) => Subscription!Jump(r) = (k - 1) - h
<1> DEFINE k == net[1].no
           r == net[1].seq
           J == Subscription!Jump(r)
<1>1. net \in Seq([no : Nat, seq : 0..(Wrap - 1)]) /\ sent \in Nat /\ heard \subseteq 1..sent
  BY DEF FeedTypeOK
<1>2. 1 \in DOMAIN net /\ \A i \in DOMAIN net : i \in Nat /\ i >= 1
  BY <1>1, QueueShifts
<1>3. /\ k \in 1..sent /\ r \in 0..(Wrap - 1) /\ h < k /\ h \in 1..sent
      /\ \A i \in DOMAIN net : i # 1 => k < net[i].no
  BY <1>1, <1>2, OnTheWay DEF EveryDatagram
<1>4. r - s <= k - h /\ (OneRun(h, k) => r - s = k - h)
  BY <1>2, <1>3 DEF Ahead
<1>5. /\ J \in Nat
      /\ sub.expect = 0 => J = 0
      /\ sub.expect # 0 /\ r > sub.expect => J = r - sub.expect
      /\ sub.expect # 0 /\ ~(r > sub.expect) => J = 0
  BY <1>3, JumpFacts
<1>6. sub.expect = (IF s = Wrap - 1 THEN 0 ELSE s + 1) /\ Wrap \in Nat
  BY ProgramsAssumption, HeaderAfter
<1>7. \A n \in (h + 1)..(k - 1) : n \in lost
  <2> SUFFICES ASSUME NEW n \in (h + 1)..(k - 1)
               PROVE  n \in lost
    OBVIOUS
  <2>1. n \in 1..sent /\ n > h /\ n < k
    BY <1>1, <1>3
  <2>4. \A x \in 1..sent : x \in heard \/ x \in lost \/ \E i \in DOMAIN net : net[i].no = x
    BY DEF EveryDatagram
  <2>2. n \notin heard
    BY <1>1, <1>3, <2>1
  <2>3. \A i \in DOMAIN net : net[i].no # n
    BY <1>2, <1>3, <2>1 DEF k
  <2>. QED  BY <2>1, <2>2, <2>3, <2>4
<1> HIDE DEF k, r, J
<1>8. J <= (k - 1) - h
  <2>1. CASE sub.expect = 0 \/ ~(r > sub.expect)
    <3>1. J = 0
      BY <1>5, <2>1
    <3>. QED  BY <1>3, <3>1
  <2>2. CASE sub.expect # 0 /\ r > sub.expect
    <3>1. J = r - (s + 1)
      BY <1>5, <1>6, <2>2
    <3>. QED  BY <1>3, <1>4, <1>6, <3>1
  <2>. QED  BY <2>1, <2>2
<1>9. OneRun(h, k) => J = (k - 1) - h
  BY <1>1, <1>3, <1>4, <1>5, <1>6
<1>10. k \in Nat /\ h \in Nat /\ h < k
  BY <1>1, <1>3
<1>. QED  BY <1>7, <1>8, <1>9, <1>10 DEF k, r, J

\* Cardinalities of what the subscriber could know of, before and after a jump.
LEMMA CountsGrow ==
    ASSUME NEW h \in Nat, NEW k \in Nat, h < k,
           NEW P, NEW Q, IsFiniteSet(Q), P \subseteq Q, (h + 1)..(k - 1) \subseteq Q,
           \A n \in P : n \notin (h + 1)..(k - 1)
    PROVE  Cardinality(P) \in Nat /\ Cardinality(P) + ((k - 1) - h) <= Cardinality(Q)
<1> DEFINE I == (h + 1)..(k - 1)
<1>1. IsFiniteSet(I) /\ Cardinality(I) = (k - 1) - h
  <2>1. h + 1 \in Int /\ k - 1 \in Int
    OBVIOUS
  <2>. QED  BY <2>1, FS_Interval
<1>2. IsFiniteSet(P)
  BY FS_Subset
<1> HIDE DEF I
<1>3. P \cap I = {}
  BY DEF I
<1>4. IsFiniteSet(P \cup I) /\ Cardinality(P \cup I) = Cardinality(P) + Cardinality(I) - Cardinality({})
  BY <1>1, <1>2, <1>3, FS_Union
<1>5. P \cup I \subseteq Q
  BY DEF I
<1>6. Cardinality(P \cup I) <= Cardinality(Q)
  BY <1>5, FS_Subset
<1>7. Cardinality({}) = 0 /\ Cardinality(P) \in Nat
  BY <1>2, FS_EmptySet, FS_CardinalityType
<1>. QED  BY <1>1, <1>4, <1>6, <1>7

\* The subscriber hears the next datagram.
LEMMA ReceiveCount ==
    ASSUME FeedTypeOK, EveryDatagram, Counted, Subscription!Receive
    PROVE  FeedTypeOK' /\ EveryDatagram' /\ Counted'
<1>1. /\ net \in Seq([no : Nat, seq : 0..(Wrap - 1)]) /\ sent \in Nat
      /\ heard \subseteq 1..sent /\ lost \subseteq 1..sent
      /\ sub \in [expect : 0..(Wrap - 1), gaps : Nat] /\ sub.gaps \in Nat
  BY DEF FeedTypeOK
<1>2. net # <<>> /\ net' = Tail(net) /\ UNCHANGED <<ring, seq, sent, eras, lost, restarts>>
  BY DEF Subscription!Receive
<1>3. Head(net) = net[1] /\ 1 \in DOMAIN net
  BY <1>1, <1>2, QueueShifts
<1>. PICK k, r, J : k = net[1].no /\ r = net[1].seq /\ J = Subscription!Jump(r)
  OBVIOUS
<1>4. /\ heard' = heard \cup {k}
      /\ sub' = [sub EXCEPT !.gaps = @ + J, !.expect = (r + 1) % Wrap]
  BY <1>3 DEF Subscription!Receive
<1>5. /\ k \in 1..sent /\ r \in 0..(Wrap - 1) /\ k \notin lost /\ Ahead(k, r)
      /\ \A m \in heard : m < k
  BY <1>3, OnTheWay
<1>6. J \in Nat /\ (sub.expect = 0 => J = 0)
  BY <1>5, JumpFacts
<1>7. (r + 1) % Wrap \in 0..(Wrap - 1)
  BY <1>5, ProgramsAssumption, HeaderAfter
<1>8. sub'.gaps = sub.gaps + J /\ sub'.expect = (r + 1) % Wrap
      /\ sub' \in [expect : 0..(Wrap - 1), gaps : Nat]
  <2> DEFINE x == (r + 1) % Wrap
  <2>1. sub' = [sub EXCEPT !.gaps = @ + J, !.expect = x] /\ x \in 0..(Wrap - 1)
    BY <1>4, <1>7
  <2> HIDE DEF x
  <2>2. sub.gaps + J \in Nat
    BY <1>1, <1>6
  <2>3. sub'.gaps = sub.gaps + J /\ sub'.expect = x /\ sub' \in [expect : 0..(Wrap - 1), gaps : Nat]
    BY <1>1, <2>1, <2>2
  <2>. QED  BY <2>3 DEF x
<1>9. FeedTypeOK' /\ EveryDatagram'
  BY <1>2, <1>4, <1>8, TakenDatagrams
<1>10. Ahead(k, r)'
  BY <1>2, <1>5, ShiftAhead
<1>11. k \in Nat /\ \A m \in heard' : m <= k
  BY <1>1, <1>4, <1>5
<1>12. /\ Passed(k)' = {n \in lost : n < k /\ \E m \in heard' : m < n}
       /\ IsFiniteSet(Passed(k)') /\ Cardinality(Passed(k)') \in Nat
  <2>1. Passed(k)' = {n \in lost : n < k /\ \E m \in heard' : m < n}
    BY <1>2 DEF Passed
  <2>. QED  BY <2>1, LostIsFinite
<1>20. sub.gaps \in Nat /\ J \in Nat /\ sub'.gaps = sub.gaps + J /\ k \in Nat
  BY <1>1, <1>6, <1>8, <1>11
<1>13. CASE heard = {} /\ sub.expect = 0 /\ sub.gaps = 0
  <2>1. sub'.gaps = 0 /\ heard' = {k}
    BY <1>4, <1>6, <1>8, <1>13
  <2>2. Subscription!Noticeable' = {}
    <3> SUFFICES ASSUME NEW n \in Subscription!Noticeable'
                 PROVE  FALSE
      OBVIOUS
    <3>1. n \in lost /\ k < n /\ n < k
      BY <1>2, <2>1 DEF Subscription!Noticeable
    <3>. QED  BY <1>1, <1>11, <3>1
  <2>3. Cardinality(Subscription!Noticeable') = 0
    BY <2>2, FS_EmptySet
  <2>4. sub'.gaps <= Cardinality(Passed(k)')
    BY <1>12, <2>1
  <2>5. k \in heard'
    BY <2>1
  <2>. QED  BY <1>5, <1>8, <1>9, <1>10, <1>11, <2>1, <2>3, <2>4, <2>5 DEF Counted
<1>14. CASE heard # {} \/ sub.expect # 0 \/ sub.gaps # 0
  <2>1. PICK h \in heard, s \in 0..(Wrap - 1) :
          /\ \A m \in heard : m <= h
          /\ sub.expect = (s + 1) % Wrap
          /\ Ahead(h, s)
          /\ sub.gaps <= Cardinality(Passed(h))
          /\ Cardinality(Subscription!Noticeable) <= sub.gaps
    BY <1>14 DEF Counted
  <2> DEFINE I == (h + 1)..(k - 1)
             N == Subscription!Noticeable
  <2>2. /\ h \in Nat /\ h < k /\ I \subseteq lost
        /\ J <= (k - 1) - h
        /\ OneRun(h, k) => J = (k - 1) - h
    BY <1>2, <2>1, ReceivedJump
  <2>3. \A n \in lost : n \in Nat
    BY <1>1
  <2>9. sub.gaps <= Cardinality(Passed(h)) /\ Cardinality(N) <= sub.gaps
    BY <2>1
  <2>10. h \in Nat /\ h < k /\ J <= (k - 1) - h
    BY <2>2
  <2>4. sub'.gaps <= Cardinality(Passed(k)')
    <3>1. \A n \in Passed(h) : n \in lost /\ n < h /\ \E m \in heard : m < n
      BY DEF Passed
    <3>2. Passed(h) \subseteq Passed(k)'
      BY <1>4, <1>11, <1>12, <2>2, <2>3, <3>1
    <3>3. I \subseteq Passed(k)'
      BY <1>4, <1>11, <1>12, <2>1, <2>2
    <3>4. \A n \in Passed(h) : n \notin I
      BY <2>2, <2>3, <3>1
    <3>5. Cardinality(Passed(h)) \in Nat /\ Cardinality(Passed(h)) + ((k - 1) - h) <= Cardinality(Passed(k)')
      BY <1>11, <1>12, <2>2, <3>2, <3>3, <3>4, CountsGrow
    <3>6. Cardinality(Passed(k)') \in Nat
      BY <1>12
    <3> HIDE DEF I
    <3>7. sub.gaps + J <= Cardinality(Passed(h)) + ((k - 1) - h)
      BY <1>20, <2>9, <2>10, <3>5
    <3>. QED  BY <1>20, <2>10, <3>5, <3>6, <3>7
  <2>5. \A n \in N : n \in lost /\ \E a, b \in heard : a < n /\ n < b /\ OneRun(a, b)
    BY RunsAreEras DEF Subscription!Noticeable
  <2>6. \A n \in N' : n \in N \/ (n \in I /\ OneRun(h, k))
    <3> SUFFICES ASSUME NEW n \in N'
                 PROVE  n \in N \/ (n \in I /\ OneRun(h, k))
      OBVIOUS
    <3>1. PICK a \in heard', b \in heard' : n \in lost /\ a < n /\ n < b /\ Subscription!SameEra(a, b)
      BY <1>2 DEF Subscription!Noticeable, Subscription!SameEra
    <3>2. OneRun(a, b) /\ n \in Nat /\ n # h
      BY <2>1, <2>3, <3>1, RunsAreEras DEF EveryDatagram
    <3>3. \A m \in heard : m \in Nat /\ m <= h /\ m < k
      BY <1>1, <1>5, <2>1
    <3>4. a \in heard /\ a \in Nat /\ a <= h
      BY <1>4, <1>11, <2>2, <3>1, <3>2, <3>3
    <3>5. CASE b \in heard
      BY <3>1, <3>4, <3>5 DEF Subscription!Noticeable
    <3>6. CASE b = k
      <4>1. CASE n < h
        <5>1. OneRun(a, h)
          BY <1>11, <2>2, <3>2, <3>6 DEF OneRun
        <5>2. Subscription!SameEra(a, h)
          BY <5>1, RunsAreEras
        <5>. QED  BY <2>1, <3>1, <3>4, <4>1, <5>2 DEF Subscription!Noticeable
      <4>2. CASE n > h
        <5>1. OneRun(h, k)
          BY <1>11, <2>2, <3>2, <3>4, <3>6 DEF OneRun
        <5>2. n \in I
          BY <1>11, <2>2, <3>1, <3>2, <3>6, <4>2
        <5>. QED  BY <5>1, <5>2
      <4>. QED  BY <2>2, <3>2, <4>1, <4>2
    <3>. QED  BY <1>4, <3>1, <3>5, <3>6
  <2>7. Cardinality(N') <= sub'.gaps
    <3>1. IsFiniteSet(N) /\ Cardinality(N) \in Nat
      <4>1. N \subseteq lost
        BY <2>5
      <4> HIDE DEF N
      <4>. QED  BY <4>1, LostIsFinite
    <3>2. h + 1 \in Int /\ k - 1 \in Int /\ IsFiniteSet({})
      BY <1>11, <2>2, FS_EmptySet
    <3>3. IsFiniteSet(I) /\ Cardinality(I) = (k - 1) - h
      <4>1. IsFiniteSet(I) /\ Cardinality(I) = IF h + 1 > k - 1 THEN 0 ELSE (k - 1) - (h + 1) + 1
        BY <3>2, FS_Interval
      <4> HIDE DEF I
      <4>. QED  BY <1>11, <2>2, <4>1
    <3> HIDE DEF N, I
    <3>4. CASE OneRun(h, k)
      <4>1. N' \subseteq N \cup I
        BY <2>6
      <4>2. IsFiniteSet(N \cup I) /\ Cardinality(N \cup I) <= Cardinality(N) + Cardinality(I)
        <5>1. /\ IsFiniteSet(N \cup I)
              /\ Cardinality(N \cup I) = Cardinality(N) + Cardinality(I) - Cardinality(N \cap I)
          BY <3>1, <3>3, FS_Union
        <5>2. Cardinality(N \cap I) \in Nat
          <6>1. IsFiniteSet(N \cap I)
            BY <3>1, FS_Subset
          <6>. QED  BY <6>1, FS_CardinalityType
        <5>. QED  BY <1>11, <2>2, <3>1, <3>3, <5>1, <5>2
      <4>3. IsFiniteSet(N') /\ Cardinality(N') <= Cardinality(N \cup I)
        BY <4>1, <4>2, FS_Subset
      <4>4. Cardinality(N') \in Nat /\ Cardinality(N \cup I) \in Nat
        BY <4>2, <4>3, FS_CardinalityType
      <4>5. J = (k - 1) - h
        BY <2>2, <3>4
      <4>6. Cardinality(N \cup I) <= sub.gaps + J
        BY <1>20, <2>9, <2>10, <3>1, <3>3, <4>2, <4>4, <4>5
      <4>. QED  BY <1>20, <4>3, <4>4, <4>6
    <3>5. CASE ~OneRun(h, k)
      <4>1. N' \subseteq N
        BY <2>6, <3>5
      <4>2. IsFiniteSet(N') /\ Cardinality(N') <= Cardinality(N)
        BY <3>1, <4>1, FS_Subset
      <4>3. Cardinality(N') \in Nat
        BY <4>2, FS_CardinalityType
      <4>. QED  BY <1>20, <2>9, <3>1, <4>2, <4>3
    <3>. QED  BY <3>4, <3>5
  <2>8. k \in heard'
    BY <1>4
  <2>11. Cardinality(Subscription!Noticeable') <= sub'.gaps
    BY <2>7
  <2>12. sub'.expect = (r + 1) % Wrap /\ r \in 0..(Wrap - 1) /\ \A m \in heard' : m <= k
    BY <1>5, <1>8, <1>11
  <2> HIDE DEF I, N
  <2>. QED  BY <1>9, <1>10, <2>4, <2>8, <2>11, <2>12 DEF Counted
<1>. QED  BY <1>9, <1>13, <1>14

\* A step that touches neither the numbers nor the subscriber.
LEMMA FeedStands ==
    ASSUME FeedInv, UNCHANGED <<seq, net, sub, sent, eras, heard, lost>>
    PROVE  FeedInv'
<1>1. FeedTypeOK'
  BY DEF FeedInv, FeedTypeOK
<1>2. (seq % Wrap)' = seq % Wrap /\ sent' = sent /\ net' = net /\ eras' = eras
  OBVIOUS
<1>3. \A no, s : Ahead(no, s) => Ahead(no, s)'
  BY <1>2 DEF Ahead, OneRun
<1>4. EveryDatagram'
  <2>1. \A i \in DOMAIN net : Ahead(net[i].no, net[i].seq)'
    BY <1>2, <1>3 DEF FeedInv, EveryDatagram
  <2>. QED  BY <2>1 DEF FeedInv, EveryDatagram
<1>5. Counted'
  BY <1>1, <1>3, QuietCount DEF FeedInv
<1>. QED  BY <1>1, <1>4, <1>5 DEF FeedInv

\* Every step of the feed keeps what is known of it.
LEMMA FeedStep ==
    ASSUME FeedInv, Subscription!Next
    PROVE  FeedInv'
<1>1. FeedTypeOK /\ EveryDatagram /\ Counted
  BY DEF FeedInv
<1>2. CASE Subscription!Offer
  BY <1>2, FeedStands DEF Subscription!Offer, Subscription!history
<1>3. CASE Subscription!Publish \/ Subscription!Heartbeat
  <2>1. Subscription!Numbered
    BY <1>3 DEF Subscription!Publish, Subscription!Heartbeat
  <2>2. FeedTypeOK' /\ EveryDatagram'
    BY <1>1, <2>1, NumberedDatagrams
  <2>3. sub' = sub /\ heard' = heard
    BY <2>1 DEF Subscription!Numbered
  <2>4. \A x \in eras : x \in eras'
    BY <2>1 DEF Subscription!Numbered
  <2>5. \A n \in lost : n \in lost'
    BY <2>1 DEF Subscription!Numbered
  <2>6. \A n \in lost' : n \in lost \/ \A m \in heard : m < n
    <3>1. \A n \in lost' : n \in lost \/ n = sent + 1
      BY <2>1 DEF Subscription!Numbered
    <3>2. \A m \in heard : m < sent + 1
      BY <1>1 DEF FeedTypeOK
    <3>. QED  BY <3>1, <3>2
  <2>7. \A no \in 1..sent, s \in 0..(Wrap - 1) : Ahead(no, s) => Ahead(no, s)'
    BY <1>1, <2>1, NumberedAhead
  <2>. QED  BY <1>1, <2>2, <2>3, <2>4, <2>5, <2>6, <2>7, QuietCount DEF FeedInv
<1>4. CASE Subscription!Restart
  <2>1. FeedTypeOK' /\ EveryDatagram'
    BY <1>1, <1>4, RestartDatagrams
  <2>2. /\ sub' = sub /\ heard' = heard /\ lost' = lost
        /\ \A x \in eras : x \in eras'
    BY <1>4 DEF Subscription!Restart
  <2>3. \A no \in 1..sent, s \in 0..(Wrap - 1) : Ahead(no, s) => Ahead(no, s)'
    BY <1>1, <1>4, RestartAhead
  <2>. QED  BY <1>1, <2>1, <2>2, <2>3, QuietCount DEF FeedInv
<1>5. CASE Subscription!Lose
  <2>1. /\ net # <<>> /\ net' = Tail(net) /\ UNCHANGED <<seq, sent, eras, sub, heard>>
        /\ lost' = lost \cup {Head(net).no}
    BY <1>5 DEF Subscription!Lose
  <2>2. Head(net) = net[1] /\ 1 \in DOMAIN net
    BY <1>1, <2>1, QueueShifts DEF FeedTypeOK
  <2>3. lost' = lost \cup {net[1].no}
    BY <2>1, <2>2
  <2>4. sub' \in [expect : 0..(Wrap - 1), gaps : Nat]
    BY <1>1, <2>1 DEF FeedTypeOK
  <2>5. FeedTypeOK' /\ EveryDatagram'
    BY <1>1, <2>1, <2>3, <2>4, TakenDatagrams
  <2>6. \A n \in lost' : n \in lost \/ \A m \in heard : m < n
    BY <1>1, <2>2, <2>3, OnTheWay
  <2>7. \A no, s : Ahead(no, s) => Ahead(no, s)'
    BY <1>1, <2>1, ShiftAhead
  <2>. QED  BY <1>1, <2>1, <2>3, <2>5, <2>6, <2>7, QuietCount DEF FeedInv
<1>6. CASE Subscription!Receive
  BY <1>1, <1>6, ReceiveCount DEF FeedInv
<1>. QED  BY <1>2, <1>3, <1>4, <1>5, <1>6 DEF Subscription!Next

\* The subscriber's state is consistent in every reachable state.
LEMMA FeedIsCounted == Spec => []FeedInv
<1>1. Init => FeedInv
  <2> SUFFICES ASSUME Init PROVE FeedInv
    OBVIOUS
  <2>1. /\ seq = 0 /\ net = <<>> /\ sub = [expect |-> 0, gaps |-> 0]
        /\ sent = 0 /\ heard = {} /\ lost = {}
    BY DEF Init, Subscription!Init
  <2>2. Wrap \in Nat \ {0, 1}
    BY ProgramsAssumption
  <2>3. <<>> \in Seq([no : Nat, seq : 0..(Wrap - 1)]) /\ DOMAIN <<>> = {}
    OBVIOUS
  <2>4. FeedTypeOK
    BY <2>1, <2>2, <2>3 DEF FeedTypeOK
  <2>5. EveryDatagram
    BY <2>1, <2>3 DEF EveryDatagram
  <2>. QED  BY <2>1, <2>4, <2>5 DEF FeedInv, Counted
<1>2. FeedInv /\ [Next]_vars => FeedInv'
  <2> SUFFICES ASSUME FeedInv, [Next]_vars PROVE FeedInv'
    OBVIOUS
  <2>1. CASE RunSubscribe
    BY <2>1, FeedStep DEF RunSubscribe
  <2>2. CASE UNCHANGED feedVars
    BY <2>2, FeedStands DEF feedVars
  <2>3. CASE RunFlow \/ RunLoad \/ UNCHANGED vars
    BY <2>2, <2>3 DEF RunFlow, RunLoad, vars
  <2>. QED  BY <2>1, <2>3 DEF Next
<1>. QED  BY <1>1, <1>2, PTL DEF Spec

\* The instance's Cardinality is the library's.
LEMMA SameCardinality == \A S : Subscription!Cardinality(S) = Cardinality(S)
  BY DEF Subscription!Cardinality, Cardinality

\* run_subscribe reports no more missing datagrams than were lost since it joined:
\* restarts, heartbeats and the wrap of the 32-bit count raise no false alarm.
THEOREM NoFalseAlarm == Spec => []GapsAreLosses
<1>1. FeedInv => GapsAreLosses
  <2> SUFFICES ASSUME FeedInv PROVE GapsAreLosses
    OBVIOUS
  <2> DEFINE L == {n \in lost : \E m \in heard : m < n}
  <2>1. FeedTypeOK /\ Counted /\ sub.gaps \in Nat
    BY DEF FeedInv, FeedTypeOK
  <2>2. L \subseteq lost
    OBVIOUS
  <2> HIDE DEF L
  <2>3. IsFiniteSet(L) /\ Cardinality(L) \in Nat
    BY <2>1, <2>2, LostIsFinite
  <2>4. sub.gaps <= Cardinality(L)
    <3>1. CASE sub.gaps = 0
      BY <2>3, <3>1
    <3>2. CASE sub.gaps # 0
      <4>1. PICK h \in heard : sub.gaps <= Cardinality(Passed(h))
        BY <2>1, <3>2 DEF Counted
      <4>2. Passed(h) \subseteq L
        BY DEF Passed, L
      <4>3. IsFiniteSet(Passed(h)) /\ Cardinality(Passed(h)) <= Cardinality(L)
        BY <2>3, <4>2, FS_Subset
      <4>4. Cardinality(Passed(h)) \in Nat
        BY <4>3, FS_CardinalityType
      <4>. QED  BY <2>1, <2>3, <4>1, <4>3, <4>4
    <3>. QED  BY <3>1, <3>2
  <2>5. Subscription!Cardinality(L) = Cardinality(L)
    BY SameCardinality
  <2>6. sub.gaps <= Subscription!Cardinality(L)
    BY <2>4, <2>5
  <2>. QED  BY <2>6 DEF L, GapsAreLosses, Subscription!GapsAreLosses
<1>. QED  BY <1>1, FeedIsCounted, PTL

\* run_subscribe counts every datagram lost between two it heard, as long as the
\* publisher's count ran on between them.
THEOREM NoLossMissed == Spec => []LossesNoticed
<1>1. FeedInv => LossesNoticed
  <2> SUFFICES ASSUME FeedInv PROVE LossesNoticed
    OBVIOUS
  <2> DEFINE N == Subscription!Noticeable
  <2>1. Cardinality(N) <= sub.gaps
    <3>1. CASE heard = {} /\ sub.gaps = 0
      <4>1. N = {}
        BY <3>1 DEF Subscription!Noticeable
      <4>. QED  BY <3>1, <4>1, FS_EmptySet
    <3>2. CASE ~(heard = {} /\ sub.gaps = 0)
      BY <3>2 DEF FeedInv, Counted
    <3>. QED  BY <3>1, <3>2
  <2>2. Subscription!Cardinality(N) <= sub.gaps
    BY <2>1, SameCardinality
  <2>. QED  BY <2>2 DEF LossesNoticed, Subscription!LossesNoticed
<1>. QED  BY <1>1, FeedIsCounted, PTL

-----------------------------------------------------------------------------
(* The load benchmark.                                                      *)

TimedOrder == [gap : Gaps, service : Services]

\* b is what each of the orders os finds before it, t the sum of the first latencies.
IsBacklog(b, os) ==
    \A i \in 1..Len(os) :
        b[i] = IF i = 1 THEN 0 ELSE Load!Max({0, b[i - 1] + os[i - 1].service - os[i].gap})
IsTotal(t, b, os) ==
    t[0] = 0 /\ \A i \in 1..Len(os) : t[i] = t[i - 1] + (b[i] + os[i].service)

\* The clock is at the end of the last order and of what that found before it.
OnTime(b, os, clock, due) ==
    IF Len(os) = 0 THEN clock = 0 /\ due = 0
    ELSE clock = due + (b[Len(os)] + os[Len(os)].service)

\* What the histogram keeps beside its counts.
Summarizes(h, t, b, os) ==
    /\ h.total = Len(os) /\ h.sum = t[Len(os)]
    /\ Len(os) = 0 => h.min = Load!None /\ h.max = 0
    /\ Len(os) # 0 =>
          /\ \A i \in 1..Len(os) : h.min <= b[i] + os[i].service /\ b[i] + os[i].service <= h.max
          /\ \E i \in 1..Len(os) : h.min = b[i] + os[i].service
          /\ \E i \in 1..Len(os) : h.max = b[i] + os[i].service

LoadInv ==
    /\ now \in Nat /\ sched \in Nat /\ orders \in Seq(TimedOrder)
    /\ \E b \in [1..Len(orders) -> Nat], t \in [0..Len(orders) -> Nat] :
          /\ IsBacklog(b, orders) /\ IsTotal(t, b, orders)
          /\ OnTime(b, orders, now, sched) /\ Summarizes(hist, t, b, orders)

\* The lesser and the greater of two, and of the values of a sequence.
LEMMA LoadLeast ==
    ASSUME NEW S, NEW m \in S, S \subseteq Int, \A y \in S : m <= y
    PROVE  Load!Min(S) = m
<1> DEFINE P(x) == \A y \in S : x <= y
<1>1. P(m) /\ \A x \in S : P(x) => x = m
  OBVIOUS
<1>2. Load!Min(S) = CHOOSE x \in S : P(x)
  BY DEF Load!Min
<1> HIDE DEF P
<1>3. (CHOOSE x \in S : P(x)) = m
  BY <1>1
<1>. QED  BY <1>2, <1>3

LEMMA LoadGreatest ==
    ASSUME NEW S, NEW m \in S, S \subseteq Int, \A y \in S : y <= m
    PROVE  Load!Max(S) = m
<1> DEFINE P(x) == \A y \in S : x >= y
<1>1. P(m) /\ \A x \in S : P(x) => x = m
  OBVIOUS
<1>2. Load!Max(S) = CHOOSE x \in S : P(x)
  BY DEF Load!Max
<1> HIDE DEF P
<1>3. (CHOOSE x \in S : P(x)) = m
  BY <1>1
<1>. QED  BY <1>2, <1>3

LEMMA LoadOfTwo ==
    ASSUME NEW a \in Int, NEW b \in Int
    PROVE  /\ Load!Max({a, b}) = IF a <= b THEN b ELSE a
           /\ Load!Min({a, b}) = IF a <= b THEN a ELSE b
<1> DEFINE hi == IF a <= b THEN b ELSE a
           lo == IF a <= b THEN a ELSE b
<1>1. {a, b} \subseteq Int /\ hi \in {a, b} /\ lo \in {a, b} /\ \A y \in {a, b} : y <= hi /\ lo <= y
  OBVIOUS
<1> HIDE DEF hi, lo
<1>2. Load!Max({a, b}) = hi
  BY <1>1, LoadGreatest
<1>3. Load!Min({a, b}) = lo
  BY <1>1, LoadLeast
<1>. QED  BY <1>2, <1>3 DEF hi, lo

\* There is one backlog and one sum for the orders of a run.
LEMMA BacklogIs ==
    ASSUME orders \in Seq(TimedOrder), NEW b \in [1..Len(orders) -> Nat], IsBacklog(b, orders)
    PROVE  Load!Backlog = b
<1> DEFINE n == Len(orders)
           Step(f, i) == IF i = 1 THEN 0 ELSE Load!Max({0, f[i - 1] + orders[i - 1].service - orders[i].gap})
           c[i \in DOMAIN orders] ==
             IF i = 1 THEN 0 ELSE Load!Max({0, c[i - 1] + orders[i - 1].service - orders[i].gap})
<1>1. n \in Nat /\ DOMAIN orders = 1..n
  BY LenProperties
<1>2. b = [i \in DOMAIN orders |-> Step(b, i)]
  <2>1. \A i \in 1..n : b[i] = Step(b, i)
    BY DEF IsBacklog
  <2>2. b = [i \in 1..n |-> b[i]]
    OBVIOUS
  <2> HIDE DEF Step, n
  <2>. QED  BY <1>1, <2>1, <2>2
<1>3. c = [i \in DOMAIN orders |-> Step(c, i)]
  BY <1>2
<1>4. Load!Backlog = c
  BY DEF Load!Backlog
<1> HIDE DEF c, n
<1>5. \A i \in 1..n : b[i] = Step(b, i) /\ c[i] = Step(c, i)
  BY <1>1, <1>2, <1>3
<1>6. \A i \in 1..n : c[i] = b[i]
  <2> DEFINE T == {i \in 1..n : c[i] # b[i]}
  <2>1. CASE T = {}
    BY <2>1
  <2>2. CASE T # {}
    <3>0. T \subseteq Nat
      BY <1>1
    <3>1. PICK i \in T : \A j \in T : i <= j
      BY <2>2, <3>0, LeastNat
    <3>2. i \in 1..n /\ c[i] # b[i]
      OBVIOUS
    <3>3. i # 1
      BY <1>5, <3>2
    <3>4. i - 1 \in 1..n /\ ~(i <= i - 1)
      BY <1>1, <3>2, <3>3
    <3>5. i - 1 \notin T
      BY <3>1, <3>4
    <3>6. c[i - 1] = b[i - 1]
      BY <3>4, <3>5
    <3> DEFINE After(x) == Load!Max({0, x + orders[i - 1].service - orders[i].gap})
    <3>7. Step(c, i) = After(c[i - 1]) /\ Step(b, i) = After(b[i - 1])
      BY <3>3
    <3>8. c[i] = Step(c, i) /\ b[i] = Step(b, i)
      BY <1>5, <3>2
    <3> HIDE DEF T, Step, After
    <3>. QED  BY <3>2, <3>6, <3>7, <3>8
  <2>. QED  BY <2>1, <2>2
<1>7. c = [i \in 1..n |-> c[i]] /\ b = [i \in 1..n |-> b[i]]
  <2>1. c = [i \in 1..n |-> Step(c, i)]
    BY <1>1, <1>3
  <2> HIDE DEF Step
  <2>. QED  BY <2>1 DEF n
<1>. QED  BY <1>4, <1>6, <1>7

LEMMA LatencyOf ==
    ASSUME orders \in Seq(TimedOrder), NEW b \in [1..Len(orders) -> Nat], IsBacklog(b, orders)
    PROVE  /\ DOMAIN Load!Response = 1..Len(orders)
           /\ \A i \in 1..Len(orders) : Load!Response[i] = b[i] + orders[i].service
<1>1. DOMAIN orders = 1..Len(orders)
  BY LenProperties
<1>2. Load!Response = [i \in 1..Len(orders) |-> b[i] + orders[i].service]
  BY <1>1, BacklogIs DEF Load!Response
<1>. QED  BY <1>2

LEMMA LatenciesTotal ==
    ASSUME orders \in Seq(TimedOrder), NEW b \in [1..Len(orders) -> Nat], IsBacklog(b, orders),
           NEW t \in [0..Len(orders) -> Nat], IsTotal(t, b, orders)
    PROVE  Load!Total = t
<1> DEFINE n == Len(orders)
           Step(f, i) == IF i = 0 THEN 0 ELSE f[i - 1] + Load!Response[i]
           c[i \in 0..Len(orders)] == IF i = 0 THEN 0 ELSE c[i - 1] + Load!Response[i]
<1>1. n \in Nat
  BY LenProperties
<1>2. t = [i \in 0..n |-> Step(t, i)]
  <2>1. ASSUME NEW i \in 0..n PROVE t[i] = Step(t, i)
    <3>1. CASE i = 0
      BY <3>1 DEF IsTotal
    <3>2. CASE i # 0
      <4>1. i \in 1..n
        BY <1>1, <3>2
      <4>2. t[i] = t[i - 1] + (b[i] + orders[i].service)
        BY <4>1 DEF IsTotal
      <4>3. Load!Response[i] = b[i] + orders[i].service
        BY <4>1, LatencyOf
      <4>. QED  BY <3>2, <4>2, <4>3
    <3>. QED  BY <3>1, <3>2
  <2>2. t = [i \in 0..n |-> t[i]]
    OBVIOUS
  <2> HIDE DEF Step, n
  <2>. QED  BY <2>1, <2>2
<1>3. c = [i \in 0..n |-> Step(c, i)]
  BY <1>2
<1>4. Load!Total = c
  BY DEF Load!Total
<1> HIDE DEF c, n
<1>5. \A i \in 0..n : t[i] = Step(t, i) /\ c[i] = Step(c, i)
  BY <1>2, <1>3
<1>6. \A i \in 0..n : c[i] = t[i]
  <2> DEFINE T == {i \in 0..n : c[i] # t[i]}
  <2>1. CASE T = {}
    BY <2>1
  <2>2. CASE T # {}
    <3>0. T \subseteq Nat
      BY <1>1
    <3>1. PICK i \in T : \A j \in T : i <= j
      BY <2>2, <3>0, LeastNat
    <3>2. i \in 0..n /\ c[i] # t[i]
      OBVIOUS
    <3>3. i # 0
      BY <1>5, <3>2
    <3>4. i - 1 \in 0..n /\ ~(i <= i - 1)
      BY <1>1, <3>2, <3>3
    <3>5. i - 1 \notin T
      BY <3>1, <3>4
    <3>6. c[i - 1] = t[i - 1]
      BY <3>4, <3>5
    <3> HIDE DEF T
    <3>. QED  BY <1>5, <3>2, <3>3, <3>6
  <2>. QED  BY <2>1, <2>2
<1>7. c = [i \in 0..n |-> c[i]] /\ t = [i \in 0..n |-> t[i]]
  <2>1. c = [i \in 0..n |-> Step(c, i)]
    BY <1>3
  <2> HIDE DEF Step
  <2>. QED  BY <2>1 DEF n
<1>. QED  BY <1>4, <1>6, <1>7

\* One more order: it is late by what is left of the work before it.
LEMMA LoadOrder ==
    ASSUME LoadInv, NEW gap \in Gaps, NEW service \in Services, Load!Order(gap, service)
    PROVE  LoadInv'
<1> DEFINE o == [gap |-> gap, service |-> service]
           n == Len(orders)
           e == n + 1
           os == Append(orders, o)
           r == Load!ResponseTime(gap, service)
<1>1. /\ sched' = sched + gap /\ now' = Load!Max({now, sched + gap}) + service
      /\ hist' = Load!Record(hist, r) /\ orders' = os
  BY DEF Load!Order
<1>2. PICK b \in [1..n -> Nat], t \in [0..n -> Nat] :
         IsBacklog(b, orders) /\ IsTotal(t, b, orders) /\ OnTime(b, orders, now, sched) /\ Summarizes(hist, t, b, orders)
  BY DEF LoadInv
<1>3. /\ now \in Nat /\ sched \in Nat /\ gap \in Nat /\ service \in Nat /\ n \in Nat
      /\ orders \in Seq(TimedOrder) /\ o \in TimedOrder
  BY LenProperties, ProgramsAssumption DEF LoadInv, TimedOrder
<1>4. /\ os \in Seq(TimedOrder) /\ Len(os) = e /\ os[e] = o /\ e \in Nat /\ e # 0 /\ n < e
      /\ \A i \in 1..n : os[i] = orders[i]
  BY <1>3, AppendProperties
<1>5. \A i \in 1..n : orders[i].service \in Nat /\ orders[i].gap \in Nat /\ b[i] \in Nat
  <2>1. \A i \in 1..n : orders[i] \in TimedOrder
    BY <1>3, ElementOfSeq
  <2>. QED  BY <1>2, <2>1, ProgramsAssumption DEF TimedOrder
<1> HIDE DEF n, os, r
<1> DEFINE late == IF n = 0 THEN 0 ELSE Load!Max({0, b[n] + orders[n].service - gap})
           lat == late + service
           b1 == [i \in 1..e |-> IF i = e THEN late ELSE b[i]]
           t1 == [i \in 0..e |-> IF i = e THEN t[n] + lat ELSE t[i]]
<1>6. late \in Nat /\ r = lat /\ now' = sched' + lat
  <2>1. r = Load!Max({now, sched + gap}) + service - (sched + gap)
    BY DEF r, Load!ResponseTime
  <2>2. Load!Max({now, sched + gap}) = IF now <= sched + gap THEN sched + gap ELSE now
    BY <1>3, LoadOfTwo
  <2>3. CASE n = 0
    <3>1. now = 0 /\ sched = 0 /\ late = 0
      BY <1>2, <2>3 DEF OnTime, n
    <3> HIDE DEF late
    <3>. QED  BY <1>1, <1>3, <2>1, <2>2, <3>1
  <2>4. CASE n # 0
    <3>1. n \in 1..n
      BY <1>3, <2>4
    <3>2. PICK w \in Nat : w = b[n] + orders[n].service
      BY <1>5, <3>1
    <3>3. now = sched + w
      BY <1>2, <2>4, <3>2 DEF OnTime, n
    <3>4. late = Load!Max({0, w - gap})
      <4> DEFINE M(x) == Load!Max({0, x})
      <4>1. late = M(b[n] + orders[n].service - gap)
        BY <2>4
      <4> HIDE DEF M, late
      <4>2. b[n] + orders[n].service - gap = w - gap
        <5>1. PICK x \in Nat, y \in Nat : x = b[n] /\ y = orders[n].service
          BY <1>5, <3>1
        <5>2. w = x + y
          BY <3>2, <5>1
        <5>3. x + y - gap = w - gap
          BY <1>3, <5>2
        <5>. QED  BY <5>1, <5>3
      <4>3. late = M(w - gap)
        BY <4>1, <4>2
      <4>. QED  BY <4>3 DEF M
    <3>5. w - gap \in Int /\ 0 \in Int
      BY <1>3, <3>2
    <3> HIDE DEF late
    <3>6. late = IF 0 <= w - gap THEN w - gap ELSE 0
      BY <3>4, <3>5, LoadOfTwo
    <3>7. Load!Max({now, sched + gap}) = sched + gap + late /\ late \in Nat
      BY <1>3, <2>2, <3>2, <3>3, <3>6
    <3>. QED  BY <1>1, <1>3, <2>1, <3>7
  <2>. QED  BY <2>3, <2>4
<1>8. late = IF e = 1 THEN 0 ELSE Load!Max({0, b[e - 1] + os[e - 1].service - os[e].gap})
  <2>1. e - 1 = n /\ (e = 1 <=> n = 0) /\ os[e].gap = gap
    BY <1>3, <1>4
  <2>2. n # 0 => os[n] = orders[n]
    BY <1>3, <1>4
  <2> HIDE DEF e
  <2>. QED  BY <2>1, <2>2
<1> HIDE DEF late
<1>9. b1 \in [1..e -> Nat] /\ b1[e] = late /\ \A i \in 1..n : b1[i] = b[i]
  <2>1. e \in 1..e /\ \A i \in 1..n : i \in 1..e /\ i # e
    BY <1>3
  <2>2. \A i \in 1..e : i = e \/ i \in 1..n
    BY <1>3
  <2> HIDE DEF e
  <2>. QED  BY <1>2, <1>6, <2>1, <2>2
<1>10. t1 \in [0..e -> Nat] /\ t1[e] = t[n] + lat /\ (\A i \in 0..n : t1[i] = t[i]) /\ t[n] \in Nat /\ lat \in Nat
  <2>1. e \in 0..e /\ n \in 0..n /\ \A i \in 0..n : i \in 0..e /\ i # e
    BY <1>3
  <2>2. \A i \in 0..e : i = e \/ i \in 0..n
    BY <1>3
  <2>3. t[n] \in Nat /\ lat \in Nat
    BY <1>2, <1>3, <1>6, <2>1
  <2>4. t[n] + lat \in Nat
    BY <2>3
  <2> HIDE DEF e, lat
  <2>. QED  BY <1>2, <2>1, <2>2, <2>3, <2>4
<1> HIDE DEF b1, t1
<1>11. IsBacklog(b1, os)
  <2>1. ASSUME NEW i \in 1..e
        PROVE  b1[i] = IF i = 1 THEN 0 ELSE Load!Max({0, b1[i - 1] + os[i - 1].service - os[i].gap})
    <3>1. i - 1 = 0 \/ i - 1 \in 1..n
      BY <1>3
    <3>2. CASE i = e
      <4>1. e # 1 => b1[e - 1] = b[e - 1]
        BY <1>9, <3>1, <3>2
      <4> HIDE DEF e
      <4>. QED  BY <1>8, <1>9, <3>2, <4>1
    <3>3. CASE i # e
      <4>1. i \in 1..n
        BY <1>3, <3>3
      <4>2. b[i] = IF i = 1 THEN 0 ELSE Load!Max({0, b[i - 1] + orders[i - 1].service - orders[i].gap})
        BY <1>2, <4>1 DEF IsBacklog, n
      <4>3. b1[i] = b[i] /\ os[i] = orders[i]
        BY <1>4, <1>9, <4>1
      <4>4. i # 1 => b1[i - 1] = b[i - 1] /\ os[i - 1] = orders[i - 1]
        BY <1>4, <1>9, <3>1, <4>1
      <4>. QED  BY <4>2, <4>3, <4>4
    <3>. QED  BY <3>2, <3>3
  <2>. QED  BY <1>4, <2>1 DEF IsBacklog
<1>12. IsTotal(t1, b1, os)
  <2>1. t1[0] = 0
    <3>1. 0 \in 0..n
      BY <1>3
    <3>. QED  BY <1>2, <1>10, <3>1 DEF IsTotal
  <2>2. ASSUME NEW i \in 1..e PROVE t1[i] = t1[i - 1] + (b1[i] + os[i].service)
    <3>1. i - 1 \in 0..n
      BY <1>3
    <3>2. CASE i = e
      <4>1. i - 1 = n /\ t1[i - 1] = t[n]
        BY <1>3, <1>10, <3>1, <3>2
      <4>2. b1[i] = late /\ os[i].service = service /\ t1[i] = t[n] + lat
        BY <1>4, <1>9, <1>10, <3>2
      <4>. QED  BY <4>1, <4>2
    <3>3. CASE i # e
      <4>1. i \in 1..n /\ i \in 0..n
        BY <1>3, <3>3
      <4>2. t[i] = t[i - 1] + (b[i] + orders[i].service)
        BY <1>2, <4>1 DEF IsTotal, n
      <4>. QED  BY <1>4, <1>9, <1>10, <3>1, <4>1, <4>2
    <3>. QED  BY <3>2, <3>3
  <2>. QED  BY <1>4, <2>1, <2>2 DEF IsTotal
<1>13. OnTime(b1, os, now', sched')
  <2>1. now' = sched' + (b1[e] + os[e].service)
    <3>1. b1[e] = late /\ os[e].service = service
      BY <1>4, <1>9
    <3>. QED  BY <1>6, <3>1
  <2> HIDE DEF e
  <2>. QED  BY <1>4, <2>1 DEF OnTime
<1>14. \A i \in 1..e : i = e \/ i \in 1..n
  BY <1>3
<1>15. /\ hist'.total = hist.total + 1 /\ hist'.sum = hist.sum + lat
       /\ hist'.min = IF hist.min = Load!None THEN lat ELSE Load!Min({hist.min, lat})
       /\ hist'.max = Load!Max({hist.max, lat})
  BY <1>1, <1>6 DEF Load!Record
<1>16. b1[e] + os[e].service = lat /\ \A i \in 1..n : b1[i] + os[i].service = b[i] + orders[i].service
  BY <1>4, <1>9
<1>17. e \in 1..e /\ \A i \in 1..n : i \in 1..e
  BY <1>3
<1> HIDE DEF lat, o
<1>18. Summarizes(hist', t1, b1, os)
  <2>1. hist'.total = e /\ hist'.sum = t1[e]
    BY <1>2, <1>10, <1>15 DEF Summarizes, n
  <2>2. /\ \A i \in 1..e : hist'.min <= b1[i] + os[i].service /\ b1[i] + os[i].service <= hist'.max
        /\ \E i \in 1..e : hist'.min = b1[i] + os[i].service
        /\ \E i \in 1..e : hist'.max = b1[i] + os[i].service
    <3>1. CASE n = 0
      <4>1. hist.min = Load!None /\ hist.max = 0
        BY <1>2, <3>1 DEF Summarizes, n
      <4>2. hist'.min = lat /\ hist'.max = lat
        BY <1>10, <1>15, <4>1, LoadOfTwo
      <4>3. \A i \in 1..e : i = e
        BY <3>1
      <4> HIDE DEF e
      <4>. QED  BY <1>10, <1>16, <1>17, <4>2, <4>3
    <3>2. CASE n # 0
      <4>1. PICK lo \in 1..n, hi \in 1..n :
               hist.min = b[lo] + orders[lo].service /\ hist.max = b[hi] + orders[hi].service
        BY <1>2, <3>2 DEF Summarizes, n
      <4>2. \A i \in 1..n : hist.min <= b[i] + orders[i].service /\ b[i] + orders[i].service <= hist.max
        BY <1>2, <3>2 DEF Summarizes, n
      <4>3. hist.min \in Nat /\ hist.max \in Nat
        BY <1>5, <4>1
      <4>4. hist.min # Load!None
        BY <4>3 DEF Load!None
      <4>5. /\ hist'.min = IF hist.min <= lat THEN hist.min ELSE lat
            /\ hist'.max = IF hist.max <= lat THEN lat ELSE hist.max
        <5>1. /\ Load!Min({hist.min, lat}) = IF hist.min <= lat THEN hist.min ELSE lat
              /\ Load!Max({hist.max, lat}) = IF hist.max <= lat THEN lat ELSE hist.max
          <6>1. hist.min \in Int /\ hist.max \in Int /\ lat \in Int
            BY <1>10, <4>3
          <6>. QED  BY <6>1, LoadOfTwo
        <5>. QED  BY <1>15, <4>4, <5>1
      <4>6. /\ hist'.min <= lat /\ hist'.min <= hist.min
            /\ lat <= hist'.max /\ hist.max <= hist'.max
            /\ hist'.min \in Nat /\ hist'.max \in Nat
        BY <1>10, <4>3, <4>5
      <4>7. \A i \in 1..n : b[i] + orders[i].service \in Nat
        BY <1>5
      <4> HIDE DEF e
      <4>8. ASSUME NEW i \in 1..e
            PROVE  hist'.min <= b1[i] + os[i].service /\ b1[i] + os[i].service <= hist'.max
        <5>1. CASE i = e
          BY <1>16, <4>6, <5>1
        <5>2. CASE i \in 1..n
          <6>1. PICK v \in Nat : v = b[i] + orders[i].service /\ hist.min <= v /\ v <= hist.max
            BY <4>2, <4>7, <5>2
          <6>2. b1[i] + os[i].service = v
            BY <1>16, <5>2, <6>1
          <6>. QED  BY <4>3, <4>6, <6>1, <6>2
        <5>. QED  BY <1>14, <5>1, <5>2
      <4>9. \E i \in 1..e : hist'.min = b1[i] + os[i].service
        BY <1>16, <1>17, <4>1, <4>5
      <4>10. \E i \in 1..e : hist'.max = b1[i] + os[i].service
        BY <1>16, <1>17, <4>1, <4>5
      <4>. QED  BY <4>8, <4>9, <4>10
    <3>. QED  BY <3>1, <3>2
  <2> HIDE DEF e
  <2>. QED  BY <1>4, <2>1, <2>2 DEF Summarizes
<1>19. now' \in Nat /\ sched' \in Nat
  BY <1>1, <1>3, <1>6, <1>10
<1> HIDE DEF e
<1>20. orders' = os /\ Len(orders') = e
  BY <1>1, <1>4
<1>. QED  BY <1>4, <1>9, <1>10, <1>11, <1>12, <1>13, <1>18, <1>19, <1>20 DEF LoadInv

\* Before the first order there is nothing to sum up.
LEMMA LoadStart == Init => LoadInv
<1> SUFFICES ASSUME Init PROVE LoadInv
  OBVIOUS
<1>1. now = 0 /\ sched = 0 /\ hist = Load!Empty /\ orders = <<>>
  BY DEF Init, Load!Init
<1> DEFINE t == [i \in 0..0 |-> 0]
           b == [i \in 1..0 |-> 0]
<1>2. /\ b \in [1..0 -> Nat] /\ t \in [0..0 -> Nat] /\ t[0] = 0
      /\ \A i \in 1..0 : FALSE
  OBVIOUS
<1> HIDE DEF t, b
<1>3. Len(orders) = 0 /\ orders \in Seq(TimedOrder)
  BY <1>1
<1>4. IsBacklog(b, orders) /\ IsTotal(t, b, orders)
  BY <1>2, <1>3 DEF IsBacklog, IsTotal
<1>5. OnTime(b, orders, now, sched)
  BY <1>1, <1>3 DEF OnTime
<1>6. hist.total = 0 /\ hist.sum = 0 /\ hist.min = Load!None /\ hist.max = 0
  BY <1>1 DEF Load!Empty
<1>7. Summarizes(hist, t, b, orders)
  BY <1>2, <1>3, <1>6 DEF Summarizes
<1>. QED  BY <1>1, <1>2, <1>3, <1>4, <1>5, <1>7 DEF LoadInv

LEMMA LoadStep == LoadInv /\ [Next]_vars => LoadInv'
<1> SUFFICES ASSUME LoadInv, [Next]_vars PROVE LoadInv'
  OBVIOUS
<1>1. CASE UNCHANGED loadVars
  BY <1>1 DEF LoadInv, loadVars
<1>2. CASE Load!Next
  BY <1>2, LoadOrder DEF Load!Next
<1>3. Load!Next \/ UNCHANGED loadVars
  BY DEF Next, RunFlow, RunSubscribe, RunLoad, vars
<1>. QED  BY <1>1, <1>2, <1>3

\* What the histogram sums up is the run of the client that does not wait.
LEMMA LoadSummed == LoadInv => SummaryTrue
<1> SUFFICES ASSUME LoadInv PROVE SummaryTrue
  OBVIOUS
<1> DEFINE n == Len(orders)
           V == Load!ToSet(Load!Response)
<1>1. PICK b \in [1..n -> Nat], t \in [0..n -> Nat] :
         IsBacklog(b, orders) /\ IsTotal(t, b, orders) /\ Summarizes(hist, t, b, orders)
  BY DEF LoadInv
<1>2. orders \in Seq(TimedOrder) /\ n \in Nat
  BY LenProperties DEF LoadInv
<1>3. Load!Total = t
  BY <1>1, <1>2, LatenciesTotal
<1>4. /\ DOMAIN Load!Response = 1..n
      /\ \A i \in 1..n : Load!Response[i] = b[i] + orders[i].service
  BY <1>1, <1>2, LatencyOf
<1>5. V = {Load!Response[i] : i \in 1..n}
  BY <1>4 DEF Load!ToSet
<1>6. \A i \in 1..n : b[i] + orders[i].service \in Nat
  <2>1. \A i \in 1..n : orders[i].service \in Nat
    <3>1. \A i \in 1..n : orders[i] \in TimedOrder
      BY <1>2, ElementOfSeq
    <3>. QED  BY <3>1, ProgramsAssumption DEF TimedOrder
  <2>. QED  BY <1>1, <2>1
<1>7. hist.total = n /\ hist.sum = Load!Total[n]
  BY <1>1, <1>3 DEF Summarizes
<1>8. ASSUME orders # <<>> PROVE hist.min = Load!Min(V) /\ hist.max = Load!Max(V)
  <2>1. n # 0
    BY <1>2, <1>8, EmptySeq
  <2>2. /\ \A i \in 1..n : hist.min <= b[i] + orders[i].service /\ b[i] + orders[i].service <= hist.max
        /\ \E i \in 1..n : hist.min = b[i] + orders[i].service
        /\ \E i \in 1..n : hist.max = b[i] + orders[i].service
    BY <1>1, <2>1 DEF Summarizes
  <2>3. V \subseteq Int /\ hist.min \in V /\ hist.max \in V
    BY <1>4, <1>5, <1>6, <2>2, SMTT(20)
  <2>4. \A y \in V : hist.min <= y /\ y <= hist.max
    BY <1>4, <1>5, <2>2
  <2> HIDE DEF V
  <2>. QED  BY <2>3, <2>4, LoadLeast, LoadGreatest
<1>. QED  BY <1>7, <1>8 DEF SummaryTrue, Load!SummaryTrue

\* The mean, the least and the greatest latency that lob_bench shows are those of a
\* client whose orders come on schedule whether or not the engine is done
\* (measure_load, Histogram::record), however long the run and the delays.
THEOREM SummaryIsOpenLoop == Spec => []SummaryTrue
<1>1. Init => LoadInv
  BY LoadStart
<1>2. LoadInv /\ [Next]_vars => LoadInv'
  BY LoadStep
<1>3. LoadInv => SummaryTrue
  BY LoadSummed
<1>. QED  BY <1>1, <1>2, <1>3, PTL DEF Spec
=============================================================================
