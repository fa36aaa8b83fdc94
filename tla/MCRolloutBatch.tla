--------------------------- MODULE MCRolloutBatch ---------------------------
EXTENDS RolloutBatch

CONSTANT GroupSize  \* rollout.n

\* Two prompts, repeated with interleave=True.
MCRollouts == 1..(2 * GroupSize)
MCPromptOf == [i \in 1..(2 * GroupSize) |-> (i - 1) \div GroupSize]
=============================================================================
