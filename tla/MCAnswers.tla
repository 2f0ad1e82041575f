------------------------------ MODULE MCAnswers ------------------------------
EXTENDS Answers

MCOperations == {"query", "mutation", "ast", "badVariables"}
MCBatches == {<<a, b>> : a, b \in MCOperations} \cup {<<"query", "mutation", "query">>}

A == <<"a">>
B == <<"b">>
Bx == <<"b", "x">>

\* A field that may not be null, and one with a field below.
MCFields == {A, B, Bx}
MCNonNull == {A}
MCComposite == {B}
MCFieldDirective ==
  [f \in MCFields |-> IF f = A THEN [maxAge |-> 2, scope |-> Undefined, inherit |-> FALSE]
                      ELSE NoDirective]
MCTypeDirectives ==
  [f \in MCFields |-> IF f = B
                      THEN << [maxAge |-> 1, scope |-> "PUBLIC", inherit |-> FALSE] >>
                      ELSE << >>]
MCDynamicHints == {NewPolicy, [maxAge |-> 3, scope |-> "PRIVATE"]}
MCPresets == {NewPolicy}
=============================================================================
