--------------------------- MODULE MCUiCoordination ---------------------------
(* Two jobs of a kept session against two of the application's own; one of *)
(* each wants the desktop.                                                  *)
EXTENDS UiCoordination

MCSessionOf == [j \in Jobs |-> IF j \in {"a1", "a2"} THEN "kept" ELSE "owned"]
MCClassOf == [j \in Jobs |-> CASE j \in {"a1", "b1"} -> "desktop"
                               [] j = "a2" -> "observation"
                               [] OTHER -> "session"]
=============================================================================
