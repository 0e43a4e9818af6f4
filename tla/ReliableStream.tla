--------------------------- MODULE ReliableStream ----------------------------
(***************************************************************************)
(* What the UDP transport promises to the code above it: a channel in each *)
(* direction that gives the reader what the writer put in, in order, each  *)
(* chunk once.  It does not promise that everything arrives.               *)
(***************************************************************************)
EXTENDS Naturals, Sequences

CONSTANT Data

VARIABLES written, got

Ends == {"conn", "acc"}
Other(e) == IF e = "conn" THEN "acc" ELSE "conn"

Init ==
  /\ written = [e \in Ends |-> <<>>]
  /\ got = [e \in Ends |-> <<>>]

Write(e, d) ==
  /\ written' = [written EXCEPT ![e] = Append(@, d)]
  /\ UNCHANGED got

\* The reader at e takes some of the chunks it has not yet taken.
Read(e) ==
  /\ \E k \in (Len(got[e]) + 1)..Len(written[Other(e)]) :
       got' = [got EXCEPT ![e] = SubSeq(written[Other(e)], 1, k)]
  /\ UNCHANGED written

Next == \E e \in Ends : Read(e) \/ \E d \in Data : Write(e, d)

Spec == Init /\ [][Next]_<<written, got>>
=============================================================================
