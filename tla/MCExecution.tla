---------------------------- MODULE MCExecution ----------------------------
EXTENDS Execution

Hint(age, scope) == [maxAge |-> age, scope |-> scope]
Args(age, scope, inherit) == [maxAge |-> age, scope |-> scope, inherit |-> inherit]

A == <<"a">>
B == <<"b">>
B0 == <<"b", "0">>
B1 == <<"b", "1">>
Bx == <<"b", "0", "x">>
By == <<"b", "0", "y">>
Bxz == <<"b", "0", "x", "z">>

MCFields == {A, B, Bx, By, Bxz}
MCItems == {B0, B1}
MCNonNull == {A, B0, B1, By}
MCComposite == {B, Bx}
MCFieldDirective ==
  [f \in MCFields |-> CASE f = B -> Args(2, Undefined, FALSE)
                        [] f = Bx -> Args(2, "PRIVATE", TRUE)
                        [] OTHER -> NoDirective]
MCTypeDirectives ==
  [f \in MCFields |-> CASE f = B -> <<NoDirective, Args(1, "PUBLIC", FALSE)>>
                        [] OTHER -> <<>>]
MCDynamicHints == {NewPolicy, Hint(1, Undefined), Hint(3, "PRIVATE"), Hint(Undefined, "PUBLIC")}
MCDropped == {Bxz}
MCPresets == {NewPolicy, Hint(1, Undefined)}
=============================================================================
