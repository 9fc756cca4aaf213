-------------------------- MODULE MC_Conversations --------------------------
(* Instances of Conversations for TLC: two calls of client A in context x    *)
(* and a third one, of a foreign client there or of A in context y.          *)
EXTENDS ConversationsInv, TLC

CONSTANTS c1, c2, c3, x, y, A, B

ThreeCalls == {c1, c2, c3}

SameContext == c1 :> x @@ c2 :> x @@ c3 :> x
ForeignThird == c1 :> A @@ c2 :> A @@ c3 :> B
ThirdElsewhere == c1 :> x @@ c2 :> x @@ c3 :> y
SameClient == c1 :> A @@ c2 :> A @@ c3 :> A

(* Sessions and locks are interchangeable, in one context c1 and c2 are too. *)
SymmetryIds == Permutations(SessionId) \cup Permutations(Lock)
SymmetryAll == Permutations({c1, c2}) \cup SymmetryIds

=============================================================================
