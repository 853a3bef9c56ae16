----------------------------- MODULE GenMarkers -----------------------------
(***************************************************************************)
(* The generation marker one node keeps on disk for one project            *)
(* (backend/src/reconcile/state.ts): which generation it deployed last,    *)
(* which one it announced ready, and which ones still have containers.     *)
(* The file may be missing; every read of a missing file yields the empty  *)
(* marker, and every write creates the file.                               *)
(***************************************************************************)
EXTENDS Integers

NoGen == 0          \* JSON null: no generation yet (real ones start at 1)

NoFile == [deployed |-> -1, ready |-> -1, live |-> {}]

EmptyMarker == [deployed |-> NoGen, ready |-> NoGen, live |-> {}]

Marker(Gens) == [deployed : Gens \cup {NoGen},
                 ready    : Gens \cup {NoGen},
                 live     : SUBSET Gens]

readMarker(file) == IF file = NoFile THEN EmptyMarker ELSE file

setLocalGeneration(g) == [deployed |-> g, ready |-> g, live |-> {g}]

\* mutant: forgets the older generations that still have containers
markGenerationLive_Alone(file, g) ==
    [readMarker(file) EXCEPT !.deployed = g, !.live = {g}]

markGenerationLive(file, g) ==
    [readMarker(file) EXCEPT !.deployed = g, !.live = @ \cup {g}]

\* deployedGeneration becomes Math.max(deployed ?? g, g)
markGenerationReady(file, g) ==
    [readMarker(file) EXCEPT !.ready = g, !.deployed = IF @ > g THEN @ ELSE g]

removeLiveGeneration(file, g) ==
    [readMarker(file) EXCEPT !.live = @ \ {g}]

=============================================================================
