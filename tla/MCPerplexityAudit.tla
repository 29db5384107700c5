-------------------------- MODULE MCPerplexityAudit --------------------------
EXTENDS PerplexityAudit

MCCategories == <<"security", "testing">>
MCIncremental == <<"security", "adr">>
MCFiles == <<"f1", "f2">>
MCChangedLists == {<<>>, <<"f3", "f1">>, <<"f1", "f1">>}

\* A P1 of the query's category before a P0 of another one; an element that is
\* no object; a value without a report.
Says(severity, category) == [severity |-> severity, category |-> category]
MCAnswers == {<<>>, <<Says("P1", None), Says("P0", "testing")>>,
              <<Says("P2", None), Says("junk", None)>>, <<Says("odd", None)>>}
=============================================================================
