--------------------------- MODULE MCMaglevTable ---------------------------
(***************************************************************************)
(* One or two services with up to three pods each and weights from 0 to 7, *)
(* four slots, a table of eleven and four hash functions.                  *)
(***************************************************************************)
EXTENDS MaglevTable

Weights == {0, 1, 2, 7}

SmallServices ==
  LET One(podLists) == {[pods |-> ps, weight |-> w] : ps \in podLists, w \in Weights}
      first == One({<<1>>, <<1, 2>>, <<1, 2, 3>>})
      second == One({<<4>>, <<4, 5, 6>>})
  IN  {<<s>> : s \in first} \union {<<s, t>> : s \in first, t \in second}

LinearHashes ==
  {[x \in (1 .. 6) \X (0 .. 60) |-> a * x[1] + b * x[2] + x[1] * x[2]] : a \in {0, 3}, b \in {2, 5}}
=============================================================================
