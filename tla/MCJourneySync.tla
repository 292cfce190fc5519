--------------------------- MODULE MCJourneySync ---------------------------
(* An instance of JourneySync for TLC. *)
EXTENDS JourneySync

CONSTANTS ann, ben

MCParticipants == <<ann, ben>>
MCOwners == {<<NoOne, NoOne>>}
=============================================================================
