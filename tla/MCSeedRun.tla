------------------------------- MODULE MCSeedRun -------------------------------
(* Instances of SeedRun. *)
EXTENDS SeedRun, TLC

OneMount == <<1>>
TwoMounts == <<1, 2>>   \* one in each of two namespaces
ThreeSecrets == <<1, 1, 1>>
FourSecrets == <<1, 1, 1, 1>>
SplitSecrets == <<1, 1, 2>>
Version2 == <<2>>
MixedVersions == <<2, 1>>
AllBudgets == {-1, 0, 2}
AllSkips == BOOLEAN \X BOOLEAN
SkipAll == {<<TRUE, TRUE>>}
Workers == Permutations(Worker)
===============================================================================
