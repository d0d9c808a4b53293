---------------------------- MODULE MCEditorServer ----------------------------
(* The prelude and a page, in one shard; a text defines a form or does not parse. *)
EXTENDS EditorServer

MCShardOf == [d \in Docs |-> 1]
MCDrafts == {Unparsed, [m \in Macros |-> "f1"]}
===============================================================================
