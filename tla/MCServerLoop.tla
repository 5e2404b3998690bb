---------------------------- MODULE MCServerLoop ----------------------------
(* Instances of ServerLoop for TLC: two teams of one player.               *)
EXTENDS ServerLoop, TLC

TwoPlaces ==
    {[current |-> TRUE, team |-> t, uniform |-> 1, ptype |-> "outField"] : t \in Team}

ClientSymmetry == Permutations(Client)
=============================================================================
