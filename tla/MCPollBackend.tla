---------------------------- MODULE MCPollBackend ----------------------------
EXTENDS PollBackend, TLC

CONSTANTS f1, f2, f3

MCFds == {f1, f2, f3}
MCSymmetry == Permutations(MCFds)
====
