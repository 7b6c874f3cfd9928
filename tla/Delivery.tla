------------------------------- MODULE Delivery -------------------------------
(***************************************************************************)
(* What happens to an application payload on either side of the flow: the  *)
(* sender cuts it into pieces on consecutive sequences (split.rs for pairs,*)
(* push_app of driver_adv.rs for fragments), the flow hands the pieces     *)
(* over in order with gaps flagged, and Merger or FragReassembler puts     *)
(* them together.  FEC control messages are fragments that no flow orders  *)
(* (FecCtrlReassembler, fec.rs).                                           *)
(***************************************************************************)
EXTENDS Integers, SequencesExt

CONSTANTS
  DelHalf,        \* half of the sequence space
  DelStart,       \* random_start_seq: even when the sender splits
  MaxFragments,   \* MAX_REASSEMBLY_FRAGMENTS
  DelPayloads,    \* payloads of a run
  MaxPending,     \* pieces of earlier payloads still under way at a push
  DelCases        \* the cases of a run

DelSeq == INSTANCE SeqArith WITH Half <- DelHalf

\* carriage: how payloads are cut; merge: "pairs" or "auto"; empties: whether
\* the application also sends empty payloads.
DelCase == [carriage : {"split", "fragment", "control"}, merge : {"pairs", "auto"},
            empties : BOOLEAN]

ASSUME DeliveryAssumption ==
  /\ DelHalf \in Nat \ {0} /\ DelStart \in DelSeq!SeqNum
  /\ MaxFragments \in Nat \ {0, 1} /\ DelPayloads \in Nat
  /\ DelCases \subseteq DelCase

VARIABLES
  delCase,
  pushed,    \* payloads sent: [n pieces] each
  cursor,    \* the sequence number of the next piece
  stamp,      \* the clock that stamps source times
  pieces,    \* pieces the flow, or the wire, still holds
  broken,    \* a sequence was given up since the last delivery
  merger,    \* [auto, held]
  reasm,     \* [run, active, count, last]
  handed,    \* pieces that reached the merger or reassembler while it was on
  given      \* payloads the application received, each a sequence of pieces

delVars == <<delCase, pushed, cursor, stamp, pieces, broken, merger, reasm, handed, given>>

Unheld == [none |-> TRUE]
Piece(p, k) == [payload |-> p, part |-> k]

DelStartState(c) ==
  /\ delCase = c /\ pushed = <<>> /\ cursor = DelStart /\ stamp = 0
  /\ pieces = <<>> /\ broken = FALSE /\ handed = {} /\ given = <<>>
  /\ merger = [auto |-> FALSE, held |-> Unheld]
  /\ reasm = [run |-> <<>>, active |-> FALSE, count |-> 0, last |-> Unheld]

DelInit == \E c \in DelCases : DelStartState(c)

----------------------------------------------------------------------------
(* The sender *)

\* split_payload: two parts whatever the size, except the empty payload.
Parts(size) == IF size = 0 THEN 1 ELSE 2

Role(k, n) == IF n = 1 THEN "Standalone" ELSE IF k = 1 THEN "First"
              ELSE IF k = n THEN "Last" ELSE "Middle"

\* push_split, push_app and send_fec_adv: n consecutive sequences, one source time.
Cut(n) ==
  /\ pushed' = Append(pushed, n)
  /\ cursor' = DelSeq!Add(cursor, n)
  /\ pieces' = pieces \o
       [k \in 1 .. n |-> [seq |-> DelSeq!Add(cursor, k - 1), src |-> stamp,
                          role |-> Role(k, n), id |-> Piece(Len(pushed) + 1, k)]]

\* Two payloads may carry the same source time; the wire's unit is 1/90 ms.
PushPayload ==
  /\ Len(pushed) < DelPayloads /\ Len(pieces) <= MaxPending
  /\ CASE delCase.carriage = "split" ->
            \E size \in IF delCase.empties THEN 0 .. 2 ELSE 1 .. 2 : Cut(Parts(size))
       [] delCase.carriage = "fragment" -> \E n \in 1 .. MaxFragments : Cut(n)
       [] delCase.carriage = "control" -> \E n \in 2 .. MaxFragments : Cut(n)
  /\ UNCHANGED <<delCase, stamp, broken, merger, reasm, handed, given>>

Ticks == /\ stamp < 1 /\ stamp' = stamp + 1
         /\ UNCHANGED <<delCase, pushed, cursor, pieces, broken, merger, reasm, handed, given>>

----------------------------------------------------------------------------
(* Merger: the new merger and what it yields *)

\* is_split_pair
SplitPair(a, b) == /\ a.seq % 2 = 0 /\ b.seq = DelSeq!Add(a.seq, 1)
                   /\ a.src = b.src

MergeActive == delCase.merge = "pairs" \/ merger.auto

\* The orphan is flushed and the delivery is processed fresh.
AfterOrphan(m, d) ==
  IF d.seq % 2 = 0
  THEN [merger |-> [m EXCEPT !.held = d], out |-> <<<<m.held.id>>>>]
  ELSE [merger |-> [m EXCEPT !.held = Unheld], out |-> <<<<m.held.id>>, <<d.id>>>>]

Deliver(m, d, gap) ==
  CASE ~MergeActive -> [merger |-> m, out |-> <<<<d.id>>>>]
    [] MergeActive /\ m.held # Unheld ->
         IF ~gap /\ SplitPair(m.held, d)
         THEN [merger |-> [m EXCEPT !.held = Unheld], out |-> <<<<m.held.id, d.id>>>>]
         ELSE AfterOrphan(m, d)
    [] OTHER ->
         IF d.seq % 2 = 0 THEN [merger |-> [m EXCEPT !.held = d], out |-> <<>>]
         ELSE [merger |-> m, out |-> <<<<d.id>>>>]

(* FragReassembler: the new run and what it yields *)

NoRun(r) == [r EXCEPT !.run = <<>>, !.active = FALSE, !.count = 0]

\* Slip: a gap before a fragment is not looked at.
BreaksOnCount(r, gap) == ~r.active \/ r.count >= MaxFragments
\* A Middle or Last that cannot belong to the open run.
Breaks(r, gap) == ~r.active \/ gap \/ r.count >= MaxFragments

FragPush(r, d, gap) ==
  CASE d.role = "First" ->
         [reasm |-> [r EXCEPT !.run = <<d.id>>, !.active = TRUE, !.count = 1], out |-> <<>>]
    [] d.role = "Standalone" -> [reasm |-> NoRun(r), out |-> <<<<d.id>>>>]
    [] OTHER ->
         IF Breaks(r, gap) THEN [reasm |-> NoRun(r), out |-> <<>>]
         ELSE IF d.role = "Last"
         THEN [reasm |-> NoRun(r), out |-> <<Append(r.run, d.id)>>]
         ELSE [reasm |-> [r EXCEPT !.run = Append(@, d.id), !.count = @ + 1], out |-> <<>>]

\* FecCtrlReassembler::push: the gap is read off the sequence numbers.
CtrlGap(r, d) == r.last # Unheld /\ d.seq # DelSeq!Add(r.last.seq, 1)

----------------------------------------------------------------------------
(* The receiver *)

\* drain: the next delivery of the flow.
FlowDelivers ==
  /\ delCase.carriage # "control" /\ pieces # <<>>
  /\ pieces' = Tail(pieces) /\ broken' = FALSE
  /\ LET d == Head(pieces)
     IN IF delCase.carriage = "split"
        THEN /\ \E x \in {Deliver(merger, d, broken)} :
                  merger' = x.merger /\ given' = given \o x.out
             /\ handed' = IF MergeActive THEN handed \cup {d.id} ELSE handed
             /\ UNCHANGED reasm
        ELSE /\ \E x \in {FragPush(reasm, d, broken)} :
                  reasm' = x.reasm /\ given' = given \o x.out
             /\ handed' = handed \cup {d.id}
             /\ UNCHANGED merger
  /\ UNCHANGED <<delCase, pushed, cursor, stamp>>

\* The flow gives a sequence up; the next delivery carries discontinuity.
FlowSkips ==
  /\ delCase.carriage # "control" /\ pieces # <<>>
  /\ pieces' = Tail(pieces) /\ broken' = TRUE
  /\ UNCHANGED <<delCase, pushed, cursor, stamp, merger, reasm, handed, given>>

\* The keepalive's L bit: the peer splits.
KeepaliveL ==
  /\ delCase.carriage = "split" /\ ~merger.auto
  /\ merger' = [merger EXCEPT !.auto = TRUE]
  /\ UNCHANGED <<delCase, pushed, cursor, stamp, pieces, broken, reasm, handed, given>>

\* A control fragment off the wire: any, once or twice, or never.
ControlArrives ==
  /\ delCase.carriage = "control"
  /\ \E i \in DOMAIN pieces :
       /\ pieces' \in {pieces, RemoveAt(pieces, i)}
       /\ \E x \in {FragPush(reasm, pieces[i], CtrlGap(reasm, pieces[i]))} :
            /\ reasm' = [x.reasm EXCEPT !.last = [seq |-> pieces[i].seq]]
            /\ given' = given \o x.out
            /\ Len(given') <= DelPayloads
  /\ UNCHANGED <<delCase, pushed, cursor, stamp, broken, merger, handed>>

ControlLost ==
  /\ delCase.carriage = "control"
  /\ \E i \in DOMAIN pieces : pieces' = RemoveAt(pieces, i)
  /\ UNCHANGED <<delCase, pushed, cursor, stamp, broken, merger, reasm, handed, given>>

DelNext == \/ PushPayload \/ Ticks \/ FlowDelivers \/ FlowSkips \/ KeepaliveL
           \/ ControlArrives \/ ControlLost
DelSpec == DelInit /\ [][DelNext]_delVars

----------------------------------------------------------------------------
(* Properties *)

PiecesOf(p) == {Piece(p, k) : k \in 1 .. pushed[p]}
WholeOf(p) == [k \in 1 .. pushed[p] |-> Piece(p, k)]

\* No payload is put together from pieces of two (split.rs: "rather than
\* splicing the wrong halves together"; fec.rs: "a dropped middle/last
\* fragment cannot fold two FEC messages together"), and a reassembled one
\* is complete.
NeverSpliced ==
  \A i \in DOMAIN given :
    LET p == given[i][1].payload
    IN /\ \A k \in DOMAIN given[i] : given[i][k].payload = p
       /\ Len(given[i]) > 1 => given[i] = WholeOf(p)
       /\ delCase.carriage # "split" => given[i] = WholeOf(p)

\* A payload whose pieces all came through is delivered whole, whatever was
\* lost before it, and what the flow delivered is given once, in order.
WholeAndInOrder ==
  delCase.carriage # "control" =>
    /\ \A p \in DOMAIN pushed :
         (PiecesOf(p) \subseteq handed) => \E i \in DOMAIN given : given[i] = WholeOf(p)
    /\ \A i, j \in DOMAIN given : i < j =>
         LET a == Last(given[i])
             b == given[j][1]
         IN a.payload < b.payload \/ (a.payload = b.payload /\ a.part < b.part)

\* The application gets its payloads, and nothing that is none.
PayloadsWhole == NeverSpliced /\ WholeAndInOrder
=============================================================================
