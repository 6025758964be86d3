---- MODULE MCFileWatcher ----
(* Constants for the TLC runs of FileWatcher.                              *)
EXTENDS FileWatcher

CONSTANTS a, frag

(* What a first seek to the end leaves of a line is its blank end.         *)
Kind == [t \in AllTexts |-> IF t = frag THEN "blank" ELSE "event"]
====
