---------------------------- MODULE MCRpcDispatch ----------------------------
(* A small instance of RpcDispatch: a tree of a root and a child, a free    *)
(* conversation that may not exist yet, and one project.                    *)
EXTENDS RpcDispatch

CONSTANTS root, child, chat, p

MCRoot == [c \in Conversations |-> IF c = child THEN root ELSE c]

\* The tree is in the project; the chat is in none, or does not exist yet.
Home(tree, other) == [c \in Conversations |-> IF c = chat THEN other ELSE tree]
MCHomes == {Home(p, "missing"), Home(p, None)}

Req(op, c, q) == [op |-> op, conv |-> c, project |-> q]

\* Requests about the free conversation, the tree, the project and everything.
MCMenu ==
    {Req("turn", chat, p), Req("save_meta", chat, p), Req("cancel_run", chat, None),
     Req("approve", chat, None), Req("overview", None, None),
     Req("turn", root, None), Req("load", child, None),
     Req("delete_conversation", root, None), Req("delete_project", None, p),
     Req("set_access", None, None), Req("configure", None, None)}

MCCapacity == [l \in Lanes |-> IF l = "control" THEN 1 ELSE 3]

MCConcurrency == [l \in Lanes |-> 2]
=============================================================================
