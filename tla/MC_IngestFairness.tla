-------------------------- MODULE MC_IngestFairness --------------------------
EXTENDS IngestFairness
CONSTANTS n1, n2, mate, other, s1, s2, noisy, quiet, botA, botB, botC, botD

\* Two bots of a noisy workspace, and two of a quiet one, one of these by
\* another subscription: only the workspace cap keeps a slot of s1 free.
Upload == {n1, n2, mate, other}
TwoSubjects == [m \in Upload |-> IF m = mate THEN s2 ELSE s1]
MCWorkspaceOf == [m \in Upload |-> IF m \in {n1, n2} THEN noisy ELSE quiet]
MCBotOf == [m \in Upload |->
              CASE m = n1 -> botA [] m = n2 -> botB [] m = other -> botC [] OTHER -> botD]
==============================================================================
