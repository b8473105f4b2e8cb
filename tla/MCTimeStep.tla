----------------------------- MODULE MCTimeStep -----------------------------
(***************************************************************************)
(* A row of nodes from the sea over a tidal flat, with a Neumann node at   *)
(* its side, to the land.  Every sorted time column of up to MaxRows rows  *)
(* over the times 0 .. 4 with one direction; and two rows with every       *)
(* sector of every circle of up to MaxBins bins, in every direction.       *)
(***************************************************************************)
EXTENDS TimeStep

CONSTANTS MaxRows, MaxBins

MCSeriesSet ==
  {s \in UNION {[1 .. n -> 0 .. 4] : n \in 0 .. MaxRows} : Sorted(s)}
MCStarts == {-1, 2}

(* 1 sea, 2 foreshore, 3 flat, 4 land, 5 the Neumann node the flat feeds.  *)
MCNodes == 1 .. 5
MCmsk == <<2, 1, 1, 1, 3>>
MCconn == <<0, 0, 5, 0, 0>>
MCup == <<{}, {1}, {2}, {3, 5}, {}>>
MCzb == <<-500, -300, -20, 150, -20>>

(* Calm and low, then a storm; a tide that falls; a swell dying out.       *)
Pattern(s, hs, tp, zs) ==
  [hs |-> [i \in DOMAIN s |-> hs[i]], tp |-> [i \in DOMAIN s |-> tp[i]],
   zs |-> [i \in DOMAIN s |-> zs[i]]]
MCRowData(s) ==
  {Pattern(s, <<0, 0, 2, 2>>, <<1, 1, 4, 4>>, <<-100, -100, 100, 100>>),
   Pattern(s, <<1, 1, 1, 1>>, <<2, 2, 2, 2>>, <<100, -100, 100, -100>>),
   Pattern(s, <<3, 2, 1, 0>>, <<8, 4, 2, 1>>, <<100, 50, 0, -50>>)}

Circles == {g \in (1 .. MaxBins) \X (1 .. MaxBins) : g[1] <= g[2]}
MCGridsFor(s) == IF s = <<0, 4>> THEN Circles ELSE {<<2, 4>>}
MCHeadings(g) == IF g = <<2, 4>> THEN {PerBin} ELSE Directions(g)
=============================================================================
