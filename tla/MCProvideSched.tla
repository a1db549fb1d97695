--------------------------- MODULE MCProvideSched ---------------------------
EXTENDS ProvideSched

CONSTANTS r1, r2, r3, r4, h1, h2, h3

\* Four files on hosts that overlap.
Overlap == r1 :> <<h1, h2>> @@ r2 :> <<h2, h3>> @@ r3 :> <<h2>> @@ r4 :> <<h3>>

\* Three files, for progress.
ThreeFiles == r1 :> <<h1, h2>> @@ r2 :> <<h2, h3>> @@ r3 :> <<h2>>

\* One file with several mirrors, and one in the way of it.
Spare == r1 :> <<h1>> @@ r2 :> <<h2, h3>>

\* One file with a second mirror.
Second == r1 :> <<h1, h2>>
=============================================================================
