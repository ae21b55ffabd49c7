------------------------------ MODULE MCLines ------------------------------
(* Lines on two descriptors and files of up to five characters.              *)
EXTENDS Lines

MCTexts == {<< >>, <<"n">>, <<"a">>, <<"a", "n", "b">>, <<"a", "a", "b", "n">>,
            <<"n", "n", "a", "n">>, <<"b", "n", "a", "n", "b">>, <<"a", "b", "a", "b">>}
=============================================================================
