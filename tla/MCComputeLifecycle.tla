------------------------- MODULE MCComputeLifecycle -------------------------
EXTENDS ComputeLifecycle

CONSTANTS s1, s2
MCNewest == <<s2, s1>>
MCAlone == <<s1>>

\* one dispatch of each session, two of the first, or two of it alone
MCSingle == {<<s1, 1>>, <<s2, 1>>}
MCDouble == MCSingle \cup {<<s1, 2>>}
MCTwo == {<<s1, 1>>, <<s1, 2>>}
MCOne == {<<s1, 1>>}
=============================================================================
