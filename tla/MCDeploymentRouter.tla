------------------------- MODULE MCDeploymentRouter -------------------------
EXTENDS DeploymentRouter, TLC

MCRpm == <<1, 2>>
MCWeight == <<2, 1>>
MCPrice == <<5, NoPrice>>
Symmetry == Permutations(Requests)
=============================================================================
