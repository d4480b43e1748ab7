------------------------ MODULE MCGeneratorStaging ------------------------
(* Three generators over two days, killed or overlapping at any step.      *)
EXTENDS GeneratorStaging
=============================================================================
