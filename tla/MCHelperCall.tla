---- MODULE MCHelperCall ----
EXTENDS HelperCall

\* An answer, one after another object, one that a lone brace hides, no answer.
MCTexts == {<<"success">>, <<"object", "fix_required">>, <<"brace", "success">>, <<"misfit">>}
====
