--------------------------- MODULE MCEditorDocument ---------------------------
(* Instance of EditorDocument for TLC. *)
EXTENDS EditorDocument

LoadedText == <<"a", "b">>

\* A key, and a bracket that closes itself.
TypedKeys == {[before |-> <<"x">>, after |-> <<>>, origin |-> "Input"],
              [before |-> <<"a">>, after |-> <<"b">>, origin |-> "Input"]}

\* A selection made backwards, and two carets.
CaretsSet == {<<Selected(2, 0)>>, <<Caret(2), Caret(1)>>}

Back == {-1}

RewriteAll == {<<"x", <<"a", "a">>>>}

\* A shorter one, and one that does not fit.
OtherTexts == {<<"x">>, <<"a", "b", "x", "a", "b", "x">>}
=============================================================================
