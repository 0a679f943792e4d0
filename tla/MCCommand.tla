----------------------------- MODULE MCCommand ------------------------------
(* Small instance of Command: two objects with two versions each, and -f   *)
(* flags that cover every branch of the loading and of the rendering.      *)
EXTENDS Command

MCIdentifiers == Keys \cup {"moved"}

-----------------------------------------------------------------------------
(* Templates, as functions of the values of an event. *)
Const(r) == [v \in Values |-> r]
Second(r, s) == [v \in Values |-> IF v.version = 1 THEN r ELSE s]

ByKey == [v \in Values |-> [text |-> v.key, fails |-> FALSE]]
Moves == [v \in Values |-> [text |-> IF v.version = 1 THEN v.key ELSE "moved",
                            fails |-> FALSE]]
(* The second version writes a valid name and then fails.                  *)
Truncated == [v \in Values |-> [text |-> v.key, fails |-> v.version = 2]]
(* The second version renders text that is no identifier.                  *)
Refused == [v \in Values |-> [text |-> IF v.version = 1 THEN v.key ELSE "A_B",
                              fails |-> FALSE]]

-----------------------------------------------------------------------------
Extra == [fields |-> RequiredExtraFields \cup {"sourceRef", "targetRef", "typeRef"},
          policy |-> "cascade", family |-> "relationships", parses |-> TRUE,
          createIf |-> Const("always"), id |-> ByKey, body |-> Const("object")]

Repo == [form |-> "mapping", type |-> "repo", fields |-> {"apiVersion", "itemFamily"},
         parses |-> TRUE, id |-> ByKey, metadata |-> Const("object"),
         spec |-> Const("object"), extras |-> <<Extra>>]

Empty == [form |-> "empty"]
Malformed == [form |-> "malformed"]

File(docs) == [kind |-> "file", docs |-> docs, entries |-> <<>>]
Dir(entries) == [kind |-> "dir", docs |-> <<>>, entries |-> entries]
Other(kind, docs) == [kind |-> kind, docs |-> docs, entries |-> <<>>]

(* Mappings that load and render in different ways. *)
Loadable ==
    {(* a relationship that exists only for the first version *)
     <<File(<<[Repo EXCEPT !.extras = <<[Extra EXCEPT !.createIf = Second("true", "false")]>>]>>)>>,
     (* one relationship is left alone by deletions, one moves *)
     <<File(<<[Repo EXCEPT !.extras = <<[Extra EXCEPT !.policy = "none"],
                                        [Extra EXCEPT !.id = Moves]>>]>>)>>,
     (* the item has no spec and its second version no valid name *)
     <<File(<<Empty, [Repo EXCEPT !.spec = Second("nothing", "object"), !.id = Refused]>>)>>,
     (* the item renders, its second relationship fails *)
     <<File(<<[Repo EXCEPT !.extras = <<Extra, [Extra EXCEPT !.id = Truncated]>>]>>)>>,
     (* createIf and the body fail for the second version *)
     <<File(<<[Repo EXCEPT !.extras = <<[Extra EXCEPT !.createIf = Second("true", "error")],
                                        [Extra EXCEPT !.body = Second("object", "error")]>>]>>)>>,
     (* two documents of one type: the later one, in the linked file, wins *)
     <<Dir(<<File(<<Repo>>), Other("dir", <<Malformed>>),
             Other("linkToFile", <<[Repo EXCEPT !.metadata = Second("object", "error"),
                                                !.extras = <<>>]>>)>>)>>,
     (* a link to a directory: nothing is loaded *)
     <<Other("linkToDir", <<Malformed>>)>>}

Unloadable ==
    {<<File(<<Repo>>), Other("missing", <<>>)>>,
     <<Dir(<<File(<<Repo>>), Other("brokenLink", <<>>)>>)>>,
     <<File(<<Repo, Malformed>>)>>,
     <<File(<<[Repo EXCEPT !.fields = {"apiVersion"}]>>)>>,
     <<File(<<[Repo EXCEPT !.type = "none"]>>)>>,
     <<File(<<[Repo EXCEPT !.parses = FALSE]>>)>>,
     <<File(<<[Repo EXCEPT !.extras = <<[Extra EXCEPT !.policy = "delete"]>>]>>)>>,
     <<File(<<[Repo EXCEPT !.extras = <<[Extra EXCEPT !.fields = RequiredExtraFields]>>]>>)>>,
     <<File(<<[Repo EXCEPT !.extras = <<[Extra EXCEPT !.parses = FALSE]>>]>>)>>}

MCPathLists == Loadable \cup Unloadable
=============================================================================
