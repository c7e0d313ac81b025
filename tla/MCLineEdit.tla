----------------------------- MODULE MCLineEdit -----------------------------
(* The line editor with plain, wide and combining characters, an escape        *)
(* sequence of several reads, a paste and the editing keys.                    *)
EXTENDS LineEdit

Typed == {"a", "d", "L", "ESC", "[", "A", "200", "201", "~", "nl", "ENTER", "CC", "BS", "CT",
          "CW", "CB", "TAB", "CL", "CD"}
Offers == <<<<"a", " ">>, <<"a", "a">>>>
SavedHistory == {<<<<"nl", "nl">>, <<"a", "k", "a">>>>}

EditSpec == LeInit /\ [][LeNext]_leVars
=============================================================================
