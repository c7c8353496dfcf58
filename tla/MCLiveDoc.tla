----------------------------- MODULE MCLiveDoc -----------------------------
(* Values of LiveDoc's constants that a .cfg cannot write down.             *)
EXTENDS LiveDoc, TLC

NoTexts == {}
EmptyPage == {{}}
EmptyOrText == {{}, {"p"}}
RestText == {{"r"}}
VersionText == {{"v"}}

HolderSymmetry == Permutations(Holders)
IncarnationSymmetry == Permutations(Incarnations)
Symmetric == HolderSymmetry \cup IncarnationSymmetry
=============================================================================
