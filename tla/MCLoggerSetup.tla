--------------------------- MODULE MCLoggerSetup ----------------------------
(* slog's INFO and ERROR with a file each, and a level between them. *)
EXTENDS LoggerSetup, TLC
CONSTANTS c1, c2
CallerSymmetry == Permutations({c1, c2})
MCLevels == <<0, 8>>
MCOtherLevels == {2}
=============================================================================
