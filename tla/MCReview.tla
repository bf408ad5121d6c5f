------------------------------ MODULE MCReview ------------------------------
(***************************************************************************)
(* A matter of up to three appearances: a title that names nothing of its  *)
(* paper, one that names all of a larger paper, the first title again over *)
(* that paper, on the consent calendar, and over one it names half of, and *)
(* an appearance of which little is recorded.                              *)
(***************************************************************************)
EXTENDS Review, TLC

CONSTANTS t1, t2

MCTitles == {t1, t2}
MCMentions == (t1 :> {"z"}) @@ (t2 :> {"x", "y"})

Vague == [title |-> t1, facets |-> {"x"}, placement |-> "regular"]
Exact == [title |-> t2, facets |-> {"x", "y"}, placement |-> "regular"]
Hidden == [title |-> t1, facets |-> {"x", "y"}, placement |-> "consent"]
Partial == [title |-> t1, facets |-> {"y", "z"}, placement |-> "consent"]
Unread == [title |-> NoTitle, facets |-> {}, placement |-> "unknown"]

MCKinds == {Vague, Exact, Hidden, Partial, Unread}
MCCases == {<<>>} \cup [1..1 -> MCKinds] \cup [1..2 -> MCKinds]

(* Two readers that share an id, one with an id of its own, and one that   *)
(* cites no appearance.                                                    *)
MCNotes ==
  {[role |-> "archivist", id |-> "a", direction |-> "clearer", back |-> 0, cites |-> "item"],
   [role |-> "process", id |-> "a", direction |-> "less_clear", back |-> 1, cites |-> "agenda"],
   [role |-> "substance", id |-> "s", direction |-> "neutral", back |-> 0, cites |-> "paper"],
   [role |-> "process", id |-> "m", direction |-> "less_clear", back |-> 0, cites |-> "matter"]}

Symmetric == Permutations(Threads)
=============================================================================
