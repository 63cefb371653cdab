-------------------------------- MODULE MCConsole --------------------------------
(***************************************************************************)
(* The console's course page and lesson editor in one run.  They share no  *)
(* state, so a behaviour moves one of them, chosen at the start.           *)
(***************************************************************************)
EXTENDS CoursePage, LessonEditor

VARIABLE moves

ConsoleInit ==
    /\ moves \in {"page", "editor"}
    /\ PageInit /\ EditorInit
    /\ moves # "page" => draft.exists
    /\ moves # "editor" => doc.blocks[1].assetId = Picture

ConsoleNext ==
    /\ UNCHANGED moves
    /\ \/ moves = "page" /\ PageNext /\ UNCHANGED editorVars
       \/ moves = "editor" /\ EditorNext /\ UNCHANGED pageVars

ConsoleSpec ==
    ConsoleInit /\ [][ConsoleNext]_<<moves, pageVars, editorVars>> /\ EditorFairness

\* Of the course page one request at a time is crossed by a change of others.
OneCrossed == Cardinality(crossed) <= 1
=============================================================================
