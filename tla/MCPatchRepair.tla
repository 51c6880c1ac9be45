----------------------------- MODULE MCPatchRepair -----------------------------
(* A small instance of PatchRepair for TLC. *)
EXTENDS PatchRepair, TLC

FileSet == {"f", "g", "h"}

\* The user's text still holds the anchors of some patches; what "both" makes of it
\* does not parse.
TextSet == {"old", "half", "mid", "new", "mine", "bad"}

OldProject == [x \in FileSet |-> "old"]

\* Two files; two operations of which the second, on the user's text, finds its anchor
\* only until the first is applied; and a file nobody may touch.
Operations ==
  [p \in {"both", "twice", "wide"} |->
     CASE p = "both" -> [x \in {"f", "g"} |-> <<("old" :> "half") @@ ("mine" :> "bad")>>]
       [] p = "twice" -> [x \in {"f"} |->
                            <<("old" :> "half") @@ ("half" :> "mid") @@ ("mine" :> "new"),
                              ("old" :> "half") @@ ("half" :> "new") @@ ("mid" :> "new")
                                @@ ("mine" :> "half")>>]
       [] p = "wide" -> [x \in {"h"} |-> <<("old" :> "new")>>]]
=============================================================================
