------------------------------ MODULE MCParser ------------------------------
(* Four openings: a clause with two nested binary operators of every pair of  *)
(* levels, in parentheses or not; a clause with signs and parentheses; any    *)
(* value or schema; a clause with names, paths, calls and attributes.         *)
EXTENDS Printer

MCSources ==
    {[text |-> <<"(", "x", ",">>, room |-> 8,
      tokens |-> {"x", "==", "<", "&&", "-", "*", "(", ")"}],
     [text |-> <<"(", "x", ",">>, room |-> 6,
      tokens |-> {"x", "1", "==", "||", "+", "- ", "-", "!", "(", ")"}],
     [text |-> <<>>, room |-> 6,
      tokens |-> {"x", "1", "- ", "-", "s", ":", ",", "|", "(", ")", "[", "]", "{", "}"}],
     [text |-> <<"(", ".", "null", ",">>, room |-> 6,
      tokens |-> {"x", ".", "in", "null", "=", ",", "(", ")", "#{", "}"}]}
=============================================================================
