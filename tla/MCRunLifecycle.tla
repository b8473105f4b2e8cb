--------------------------- MODULE MCRunLifecycle ---------------------------
(***************************************************************************)
(* A tree three levels deep, and every way it can look when the program    *)
(* starts; outputs at any of its paths, also one below the other.          *)
(***************************************************************************)
EXTENDS RunLifecycle

MCPaths ==
  {<<>>, <<"out">>, <<"out", "a">>, <<"out", "a", "his.nc">>, <<"map.nc">>}
=============================================================================
