------------------------------- MODULE MCOda --------------------------------
(* Instance of Oda: sequences of one kind of ODA slot and of both, in steps *)
(* that have and that have no common divisor with two to four applications; *)
(* a start with empty userdata, or with a text that is to be cleared and an *)
(* RT+ of another program.                                                  *)
EXTENDS Oda

MCSequences == {<<"aid">>, <<"data">>, <<"aid", "data">>, <<"aid", "data", "data">>}
MCEmpty == [on |-> {}, ertNew |-> "none"]
MCSaved == {[p \in {0, 1} |-> MCEmpty],
            [p \in {0, 1} |-> IF p = 0 THEN [on |-> {"af", "ert"}, ertNew |-> "clear"]
                               ELSE [on |-> {"rtp"}, ertNew |-> "none"]]}
=============================================================================
