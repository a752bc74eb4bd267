------------------------------ MODULE MCTemplate ------------------------------
EXTENDS Template

CONSTANTS k1, k2, a, b

\* The first key comes twice in a row, as no page of resources/ has it yet.
MCPage == <<a, k1, k1, k2>>

\* The file grows, or is cut short.
MCEdits == {<<b, k1, b, k2, b>>, <<b>>}

\* Nothing, text, and a value that holds a key.
MCValue == {<<>>, <<b, b>>, <<k1>>}

MCPlainValue == {<<b>>}

===============================================================================
