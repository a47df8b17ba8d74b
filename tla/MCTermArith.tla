---------------------------- MODULE MCTermArith ----------------------------
EXTENDS TermArith

\* ?x is -1, ?y -2, ?z -3, ?w -4
term(op, args, neg) == [op |-> op, args |-> args, neg |-> neg]

MCTerms ==
  {term("ADD", <<-1, -1, -2>>, FALSE), term("ADD", <<-1, mknum(1), -2>>, FALSE),
   term("MULT", <<-1, -2, -3>>, FALSE), term("MULT", <<-1, mknum(3), -2, -3>>, FALSE),
   term("SHL", <<-1, mknum(1), -2>>, FALSE), term("SHR", <<-1, mknum(2), -2>>, FALSE),
   term("EQ", <<-1, -2>>, TRUE), term("EQ", <<-1, mknum(1)>>, FALSE),
   term("LEQ", <<-1, -2>>, FALSE), term("LEQ", <<-1, mknum(1)>>, TRUE),
   term("LEQ", <<mknum(2), -1>>, FALSE)}

\* two or three bits, so that either operand may leave some untested
MCAdHoc == [op : {"bw_and", "bw_or", "bw_xor", "pw_add", "pw_mult"},
            left : {{3}, {1, 2}, {0, 2}, {0, 1, 2, 3}, {2, 6}},
            right : {{1}, {5}, {0, 2}, {0, 1, 4, 5}}]
=============================================================================
