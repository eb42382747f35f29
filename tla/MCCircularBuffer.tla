-------------------------- MODULE MCCircularBuffer --------------------------
(* The lines that are logged: an empty one, a short one, one of three       *)
(* characters, and one of six, longer than what consume_line is asked for.  *)
EXTENDS CircularBuffer

MCLines == {<<"\n">>, <<"a", "\n">>, <<"b", "c", "\n">>}
MCLongLines == {<<"a", "\n">>, <<"b", "c", "d", "e", "f", "\n">>}
=============================================================================
