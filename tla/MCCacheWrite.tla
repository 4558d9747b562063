---------------------------- MODULE MCCacheWrite ----------------------------
(***************************************************************************)
(* Instances of CacheWrite.  Bodies are empty, shorter than the channel and  *)
(* the queue together, and longer.                                          *)
(***************************************************************************)
EXTENDS CacheWrite

Job(m, k, n, d, c) == [mode |-> m, kind |-> k, len |-> n, known |-> d, cut |-> c]

\* Inline populates of every form.
RelayJobs ==
    {Job("relay", "whole", n, d, c) : n \in {0, 3, 4}, d \in BOOLEAN, c \in {"short", "failed"}}
        \cup {Job("relay", "block", n, TRUE, "short") : n \in {2, 4}}

\* Background fetches, but for a body of undeclared length that is cut with an
\* EOF-shaped error.
DirectJobs ==
    {Job("direct", "whole", n, TRUE, c) : n \in {0, 3}, c \in {"short", "failed"}}
        \cup {Job("direct", "whole", n, FALSE, "failed") : n \in {0, 3}}
        \cup {Job("direct", "block", n, TRUE, "short") : n \in {2, 3}}

MCJobs == RelayJobs \cup DirectJobs

\* A background fetch of a chunked response that the upstream cuts short.
ChunkedJobs == {Job("direct", "whole", 2, FALSE, "short")}
=============================================================================
