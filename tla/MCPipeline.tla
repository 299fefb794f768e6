----------------------------- MODULE MCPipeline -----------------------------
EXTENDS Pipeline

CONSTANTS r1, r2, r3, noError

\* One request of each kind that the middlewares tell apart; of the two that
\* they cannot read, answered alike, one.
MCKinds == {
    Quiet,
    [Quiet EXCEPT !.origin = "ours"],
    [Quiet EXCEPT !.origin = "ours", !.preflight = TRUE],
    [Quiet EXCEPT !.origin = "foreign"],
    [Quiet EXCEPT !.origin = "ours", !.length = "too large"],
    [Quiet EXCEPT !.origin = "ours", !.length = "no number"]}
=============================================================================
