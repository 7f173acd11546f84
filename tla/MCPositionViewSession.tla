------------------------ MODULE MCPositionViewSession ------------------------
(* Two tabs of one browser.                                                *)
EXTENDS PositionViewSession, TLC

CONSTANTS t1, t2

MCTabs == {t1, t2}
TabSymmetry == Permutations(MCTabs)
=============================================================================
