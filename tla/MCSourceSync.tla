---------------------------- MODULE MCSourceSync ----------------------------
(* Line kinds and environments for the model-checked instances. *)
EXTENDS SourceSync

KindMixed4 == <<"user", "asst", "meta", "link">>
KindPlain4 == <<"user", "meta", "asst", "user">>

\* A Claude transcript that is read whole and stored whole, or one to which
\* everything happens; a Codex transcript that is replaced.
EnvsMixed == [a \in Agents |->
                 IF a = "claude"
                 THEN {{"replace", "trash", "io"},
                       {"partial", "grow", "samestat", "crash", "dbfail"}}
                 ELSE {{"replace"}}]
EnvsPartial == [a \in Agents |-> {{"partial"}}]
EnvsDbFail == [a \in Agents |-> {{"dbfail"}}]
=============================================================================
