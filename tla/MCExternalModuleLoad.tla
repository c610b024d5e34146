------------------------ MODULE MCExternalModuleLoad ------------------------
(* Instantiation of ExternalModuleLoad for TLC: metadata with up to two    *)
(* actions over two names, so that a repeated name can occur.              *)
EXTENDS ExternalModuleLoad, TLC

CONSTANTS a1, a2

MCActionNames == {a1, a2}

MCSymmetry == Permutations(MCActionNames)
=============================================================================
