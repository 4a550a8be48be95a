---------------------------- MODULE MCZetaClient ----------------------------
(* Keys and nonces for checking ZetaClient with TLC. *)
EXTENDS ZetaClient

MCKeys == [i \in Indices |-> 10 * (i + 1)]

\* Seeds of different kinds, users and markets have different nonces.
MCBump(seeds) ==
  CASE Len(seeds) = 3 /\ seeds[1] = "margin" -> IF seeds[3] = "ua" THEN 251 ELSE 252
    [] Len(seeds) = 4 -> (IF seeds[4] = "ua" THEN 100 ELSE 101) + seeds[3]
    [] OTHER -> 255
=============================================================================
