----------------------------- MODULE MCTreePage -----------------------------
(* Pages for TLC: settings, data and scripts for every part of the control. *)
EXTENDS TreePage

CONSTANTS n1, n2, n3, n4, NoNode
MCNode == {n1, n2, n3, n4}

Off == [enable |-> FALSE, style |-> "checkbox", radioType |-> "level",
        Y |-> {"p", "s"}, N |-> {"p", "s"}]
Boxes == [Off EXCEPT !.enable = TRUE]
Radio(type) == [Boxes EXCEPT !.style = "radio", !.radioType = type]

Children(p, s) == [n \in MCNode \cup {NoNode} |-> IF n = p THEN s ELSE <<>>]
None == Children(NoNode, <<>>)
Chain == [None EXCEPT ![NoNode] = <<n1>>, ![n1] = <<n2>>, ![n2] = <<n3>>]
Fork == [None EXCEPT ![NoNode] = <<n1>>, ![n1] = <<n2, n3>>, ![n3] = <<n4>>]
Pair == [None EXCEPT ![NoNode] = <<n1, n3>>, ![n1] = <<n2>>]

Editing == [setting |-> Off, size |-> 4, names |-> FALSE, data |-> [kids |-> None],
            script |-> {"addNodes", "addSilent", "removeNode", "removeChildNodes",
                        "expandAll", "expandNode"}]
Inserting == [Editing EXCEPT !.size = 3, !.script = {"addSilent", "insertSilent", "removeNode"}]
Selecting == [setting |-> Off, size |-> 3, names |-> TRUE, data |-> [kids |-> Chain],
              script |-> {"addNodes", "removeNode", "removeChildNodes", "selectNode",
                          "cancelSelectedNode", "refresh"}]
Checking == [setting |-> Boxes, size |-> 4, names |-> FALSE,
             data |-> [kids |-> Fork, checked |-> {n1, n2}],
             script |-> {"checkNode", "checkAllNodes", "expandAll"}]
Removing == [Checking EXCEPT !.setting = [Boxes EXCEPT !.Y = {"p"}, !.N = {"s"}],
                             !.script = {"checkAllNodes", "removeNode", "refresh"}]
Hiding == [Removing EXCEPT !.setting = [Boxes EXCEPT !.Y = {"p"}],
                           !.data = [kids |-> Fork, disabled |-> {n3}, checked |-> {n4}]]
Growing == [setting |-> Boxes, size |-> 3, names |-> FALSE,
            data |-> [kids |-> Pair, checked |-> {n1, n2}],
            script |-> {"addNodes", "addSilent", "addChecked", "removeNode", "checkNode",
                        "checkAlone", "setChkDisabled"}]
Disabling == [Checking EXCEPT !.data = [kids |-> Fork, disabled |-> {n4}, nocheck |-> {n2}],
                              !.script = {"setChkDisabled", "checkNode"}]
Inheriting == [Disabling EXCEPT !.script = {"setChkDisabled", "disableInner", "checkAllNodes"}]
Level == [setting |-> Radio("level"), size |-> 3, names |-> FALSE, data |-> [kids |-> Pair],
          script |-> {"addNodes", "removeNode", "checkNode"}]
All == [Level EXCEPT !.setting = Radio("all"), !.script = {"removeNode", "refresh", "addSilent"}]

MCPages == {Editing, Inserting, Selecting, Checking, Removing, Hiding, Growing, Disabling, Inheriting, Level, All}
=============================================================================
