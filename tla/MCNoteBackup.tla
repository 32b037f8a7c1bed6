---------------------------- MODULE MCNoteBackup ----------------------------
(* Constants of NoteBackup for TLC: one note, one passphrase, set or not.      *)
EXTENDS NoteBackup

First == [word |-> "first", length |-> 8]
MCStarts == {[web |-> <<Note("n1")>>, cli |-> <<>>]}
MCPassphrases == {First}
MCEnvironments == {NoPass, First}
=============================================================================
