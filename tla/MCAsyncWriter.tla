--------------------------- MODULE MCAsyncWriter ---------------------------
EXTENDS AsyncWriter
CONSTANTS t1, t2, p1, p2, p3
MCThreads == {t1, t2}
MCPaths == {p1, p2, p3}
MCOpenable == {p1, p2}
=============================================================================
