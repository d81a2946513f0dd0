------------------------------ MODULE MCDownload ------------------------------
EXTENDS Download

\* Three successive versions: one shorter, then one as long as the first.
MCSizes == <<3, 2, 3>>

\* Every kind of server, with the ETag of the second version or none.
MCRequests == [sized : BOOLEAN, known : {0, 2}, other : BOOLEAN]
==============================================================================
