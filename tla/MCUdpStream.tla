----------------------------- MODULE MCUdpStream -----------------------------
(* Instances of UdpStream for TLC. *)
EXTENDS UdpStream, TLC

CONSTANTS d1, d2

\* The chunks each end writes.
OneWay == "conn" :> 2 @@ "acc" :> 0
Greeting == "conn" :> 1 @@ "acc" :> 2
Reply == "conn" :> 2 @@ "acc" :> 2

\* What an end writes is all different, since chunks that were mixed up show
\* only then.
Different ==
  \A e \in End : \A i, j \in 1..Len(written[e]) :
    i # j => written[e][i] # written[e][j]
DifferentSpec == Init /\ [][Next /\ Different']_vars

Sym == Permutations({d1, d2})
=============================================================================
