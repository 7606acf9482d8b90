------------------------ MODULE MCUpdateTransaction ------------------------
EXTENDS UpdateTransaction, TLC

CONSTANTS old, new, dead, plain, modern

(* The old sing-box does not know the options of the modern configuration, *)
(* and the dead one passes every check.                                    *)
MCAccepts == {<<old, plain>>, <<new, plain>>, <<new, modern>>, <<dead, plain>>}

Symmetry == Permutations(Updaters)
=============================================================================
