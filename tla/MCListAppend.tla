---------------------------- MODULE MCListAppend ----------------------------
EXTENDS ListAppend, TLC

MCLiterals == { << >>, <<1>> }
MCExtras == { <<1>>, <<2>>, <<2, 2, 2>> }
MCSpares == {0, 3}
ListSymmetry == Permutations(Lists) \union Permutations(Threads)
==============================================================================
