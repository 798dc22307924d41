----------------------------- MODULE MCGreeter ------------------------------
(***************************************************************************)
(* Greeter on two small worlds.  In "full" two files share an id, two a    *)
(* command, and one is named like the id of another; "bare" has neither a  *)
(* listed account nor a desktop file that runs, so that both lists are     *)
(* made up.                                                                *)
(***************************************************************************)
EXTENDS Greeter

File(id, name, exec) == [id |-> id, name |-> name, exec |-> exec]

Account(name, uid) == [username |-> name, uid |-> uid, shell |-> "login"]

MCTexts == {"", "user", "nobody", "miquland", "miquland (Wayland)", "Wayland",
            "ann", "svc", "a", "b", "c", "A", "B", "run", "run2"}

Full == [accounts |-> {Account("ann", 1000), Account("svc", 999)},
         desktops |-> <<File("a", "A", "run"), File("a", "B", "run2"),
                        File("b", "a", "run")>>]

Bare == [accounts |-> {Account("svc", 999)},
         desktops |-> <<File("c", "", "")>>]

MCWorlds == {Full, Bare}
=============================================================================
