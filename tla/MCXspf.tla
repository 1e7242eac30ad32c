------------------------------- MODULE MCXspf -------------------------------
(* Instances of Xspf and Text: all short strings over the characters that  *)
(* matter, and all short paths.                                            *)
EXTENDS Xspf

MCNames == BoundedSeq({"/", " ", "a"}, 5)
MCTexts == BoundedSeq({"&", "'", "<", "!", "amp", "x"}, 4)
MCTitles == {<<"<", "/", "playlist">>, <<"'", "<", "track">>}
\* The root and the paths of one or two elements of one or two letters,
\* and some of three.
Elems == BoundedSeq({"a", "b"}, 2) \ {<<>>}
MCPathNames ==
    {<<"/">>} \cup {<<"/">> \o e : e \in Elems}
              \cup {<<"/">> \o e \o <<"/">> \o f : e, f \in Elems}
              \cup {<<"/">> \o e \o <<"/">> \o f \o <<"/">> \o g :
                     e, f, g \in {<<"a">>, <<"a", "b">>}}
=============================================================================
