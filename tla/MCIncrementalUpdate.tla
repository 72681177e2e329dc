------------------------- MODULE MCIncrementalUpdate -------------------------
(* Small instances of IncrementalUpdate for TLC. *)
EXTENDS IncrementalUpdate

\* Two files in a directory that may be ignored, one under an excluded directory.
ManyFiles == {<<"pkg", "a.go">>, <<"pkg", "b.go">>, <<"vendor", "lib.go">>}

NoteFiles == {<<"main.go">>, <<"notes.txt">>}

Names == UNION {{p[i] : i \in DOMAIN p} : p \in ManyFiles \cup NoteFiles}

LanguageOfName == [n \in Names |->
    IF n \in {"main.go", "a.go", "b.go", "lib.go"} THEN "go" ELSE ""]
ReasonOfName == [n \in Names |-> IF n = "vendor" THEN "vendored" ELSE ""]

=============================================================================
