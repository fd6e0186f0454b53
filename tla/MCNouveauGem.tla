---------------------------- MODULE MCNouveauGem ----------------------------
(* Instances of NouveauGem for TLC: two buffers that two clients name in   *)
(* opposite orders, one of which needs VRAM, with room for one there.      *)
EXTENDS NouveauGem

CONSTANTS bo1, bo2

Vram == {"vram"}
Gart == {"gart"}
MCUse(b, write, valid) == [bo |-> b, write |-> write, valid |-> valid]
MCBoth == [bos |-> <<MCUse(bo1, TRUE, Vram), MCUse(bo2, TRUE, Gart)>>, sync |-> FALSE]
MCEither == [bos |-> <<MCUse(bo2, FALSE, Gart), MCUse(bo1, FALSE, Places)>>, sync |-> FALSE]
MCOther(sync) == [bos |-> <<MCUse(bo2, TRUE, Vram)>>, sync |-> sync]
MCTwice == [bos |-> <<MCUse(bo2, FALSE, Gart), MCUse(bo2, FALSE, Gart)>>, sync |-> FALSE]
MCRequests == [f \in Families |-> IF f = "tesla" THEN {MCBoth, MCEither, MCOther(TRUE)}
                                  ELSE {MCEither, MCOther(FALSE), MCTwice}]
MCHomes == (bo1 :> "vram") @@ (bo2 :> "gart")

MCVmaLess == Clients \X {bo2}

GemSym == Permutations(Clients)
=============================================================================
