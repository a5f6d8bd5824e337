---------------------------- MODULE MCMemoryStore ----------------------------
EXTENDS MemoryStore, TLC

Symmetry == Permutations(Text) \cup Permutations(Editor) \cup Permutations(Worker)
=============================================================================
