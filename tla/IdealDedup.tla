----------------------------- MODULE IdealDedup -----------------------------
(***************************************************************************)
(* What duplicate suppression promises for one RTP stream, stated on the   *)
(* packets themselves instead of on their 16-bit sequence numbers: the     *)
(* stream's packets have indices that never wrap, and the suppressor       *)
(* remembers every index it ever accepted.                                 *)
(***************************************************************************)
EXTENDS Integers

CONSTANTS
  Window,   \* how far behind the newest packet a late one may be
  Index     \* the indices of the stream's packets

VARIABLES
  top,        \* highest index accepted
  accepted,   \* every index accepted
  verdict     \* the last packet judged, and the judgement

vars == <<top, accepted, verdict>>

Init ==
  \E i \in Index :
    /\ top = i
    /\ accepted = {i}
    /\ verdict = [index |-> i, fresh |-> TRUE]

\* A packet is fresh when it was never accepted and is not too late.
Fresh(i) == i \notin accepted /\ (i > top \/ top - i < Window)

Judge(i) ==
  /\ verdict' = [index |-> i, fresh |-> Fresh(i)]
  /\ accepted' = IF Fresh(i) THEN accepted \cup {i} ELSE accepted
  /\ top' = IF Fresh(i) /\ i > top THEN i ELSE top

Next == \E i \in Index : Judge(i)

Spec == Init /\ [][Next]_vars
=============================================================================
