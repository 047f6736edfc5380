----------------------------- MODULE SegmentNames -----------------------------
(***************************************************************************)
(* The names of a shard's segment files (internal/journal/writer.go): an   *)
(* index that is formatted with a minimal width, sorted as text and parsed *)
(* again when the program restarts.  Segments lists the files by index;    *)
(* this module shows how far it may.                                       *)
(***************************************************************************)
EXTENDS Integers, Sequences, SequencesExt

CONSTANTS Width,    \* the digits of a name, 6 in the code
          MaxOpens  \* bound: segments opened

VARIABLES status,        \* "down", "up", or "failed" to open a segment
          segmentIndex,  \* of the writer: its next segment, or the one it could not
                         \* open; 0 when it does not know yet
          opened         \* the indices of the files, in the order of their creation

vars == <<status, segmentIndex, opened>>

-----------------------------------------------------------------------------
Digits[n \in 0..MaxOpens] == IF n < 10 THEN <<n>> ELSE Append(Digits[n \div 10], n % 10)

Dot == -1  \* the full stop of ".wal" sorts before the digits

\* mutant of Name: without padding
NameUnpadded(n) == Append(Digits[n], Dot)

\* what follows "shard-NN-" in the name of segment n
Name(n) ==
  LET d == Digits[n]
      zeros == IF Len(d) < Width THEN [i \in 1..(Width - Len(d)) |-> 0] ELSE <<>>
  IN Append(zeros \o d, Dot)

\* the order of sort.Strings
Less(m, n) ==
  LET a == Name(m)
      b == Name(n)
  IN \E i \in DOMAIN a : /\ i \in DOMAIN b /\ a[i] < b[i]
                         /\ \A j \in 1..(i - 1) : a[j] = b[j]

Files == ToSet(opened)
Sorted == SortSeq(opened, Less)

nextSegmentIndex == IF Files = {} THEN 0 ELSE Last(Sorted) + 1

-----------------------------------------------------------------------------
Init == status = "down" /\ segmentIndex = 0 /\ opened = <<>>

\* openNextSegment, with O_EXCL
openNextSegment(known) ==
  LET idx == IF known = 0 THEN nextSegmentIndex ELSE known
  IN /\ Len(opened) < MaxOpens
     /\ IF idx \in Files THEN status' = "failed" /\ segmentIndex' = idx /\ UNCHANGED opened
        ELSE status' = "up" /\ segmentIndex' = idx + 1 /\ opened' = Append(opened, idx)

\* a writer starts; a segment is full; the program ends
Start == status = "down" /\ openNextSegment(0)
Rotate == status = "up" /\ openNextSegment(segmentIndex)
Stop == status # "down" /\ status' = "down" /\ segmentIndex' = 0 /\ UNCHANGED opened

Next == Start \/ Rotate \/ Stop

Spec == Init /\ [][Next]_vars

-----------------------------------------------------------------------------
(***************************************************************************)
(* Properties.                                                             *)
(***************************************************************************)
\* "WAL segments use exclusive creation and monotonically increasing indices"
\* (docs/DESIGN.md): a segment is opened above all those before it.  As long as the
\* indices fit the width it is never opened in vain, and readShardRecords, which sorts the
\* names, reads the segments in the order in which they were written, whatever restarts
\* there were between them.  With one segment more the order of the names is another, and
\* every start asks for the first index that did not fit, which exists.
ReadInOrder ==
  /\ \A i \in 2..Len(opened) : opened[i - 1] < opened[i]
  /\ IF Len(opened) <= 10^Width THEN Sorted = opened /\ status # "failed"
     ELSE Sorted # opened /\ (status = "failed" => segmentIndex = 10^Width)
=============================================================================
