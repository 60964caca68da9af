----------------------------- MODULE MCPipeline -----------------------------
EXTENDS Pipeline

\* One solution and enough blocks for its price to grow old, two solutions and blocks between
\* them, or enough lines to fill the channel while the handler is busy.
FewOfEach == {[lines |-> 1, blocks |-> 5], [lines |-> 2, blocks |-> 2], [lines |-> 3, blocks |-> 0]}
=============================================================================
