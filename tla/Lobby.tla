-------------------------------- MODULE Lobby --------------------------------
(* What the coordinator, the relay and the page share: the tables they name. *)
CONSTANTS
  Tables,
  NoTable   \* selectedTableId = ""

ASSUME LobbyAssumption == NoTable \notin Tables
==============================================================================
