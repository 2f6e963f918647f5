----------------------------- MODULE WorkplanMC -----------------------------
(* An instance of RemoteWorkplan: two cards, whose paths may be nested, two *)
(* workers, one of whom may not have the second definition of a card.      *)
EXTENDS RemoteWorkplan, TLC

CONSTANTS c1, c2, w1, w2

Files == {"src", "src/lib", "docs"}
Below == {<<"src", "src/lib">>}
Qualified == (c1 :> {{"src"}}) @@ (c2 :> {{"src/lib"}, {"docs"}})
After == (c1 :> {{}}) @@ (c2 :> {{}, {c1}})
Checkouts == (1 :> "a") @@ (2 :> "b")
Tasks == (c1 :> {1, 2}) @@ (c2 :> {1})
Commits == (c1 :> {1, 2}) @@ (c2 :> {1})
Seats == (1 :> {w1, w2}) @@ (2 :> {w1})
=============================================================================
