----------------------------- MODULE MCAsyncLog -----------------------------
EXTENDS AsyncLog

\* LOG_CTX_SIZE = {64, 1024, LOG_MAX_LENGTH}, scaled down in the same order.
MCCtxSize == <<1, 2, 4>>
\* Lengths below LOG_MAX_LENGTH, and lengths reaching it.
MCShortLens == 0..3
MCAllLens == 0..5
\* Two log files (a _path and printf_path, say).
MCPaths == {"p1", "p2"}
====
