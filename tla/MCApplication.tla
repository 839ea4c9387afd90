--------------------------- MODULE MCApplication ---------------------------
EXTENDS Application, TLC

CONSTANTS r1, r2, alice, bob, root, post, legacy, product

MCClaims == {[sub |-> alice, su |-> FALSE], [sub |-> bob, su |-> FALSE], [sub |-> root, su |-> TRUE]}

\* A post of alice's, a reply from before replies had authors, a product.
MCSeeds == post :> [app |-> "blog", author |-> alice]
        @@ legacy :> [app |-> "reply", author |-> NoAuthor]
        @@ product :> [app |-> "catalog", author |-> NoAuthor]

Symmetry == Permutations(Requests)
=============================================================================
