---------------------------- MODULE MCMultiScope ----------------------------
(* An instance of MultiScope: three projects.  A run finds all of them or  *)
(* only the second, whose directory is then the one that the first has in  *)
(* the longer list: it may be resumed for the other one, either way.       *)
EXTENDS MultiScope

AllOrTheSecond == {<<"p1", "p2", "p3">>, <<"p2">>}
=============================================================================
