----------------------------- MODULE MCTscSync -----------------------------
(***************************************************************************)
(* The clock-skew tool for TLC: a skew beyond the threshold, negative so   *)
(* that the sign of every difference matters, and core lists with the      *)
(* reference core, with a duplicate, with nothing and with a core that     *)
(* does not exist.                                                         *)
(***************************************************************************)
EXTENDS TscCheck

MCSkew == -2
MCCoreLists == {<< >>, <<0, 1, 2>>, <<1, 1>>, <<1, 3>>}
=============================================================================
