--------------------------- MODULE MCLiveComments ---------------------------
(* Pages and requests of a single room: rooms share nothing.               *)
EXTENDS LiveComments

\* The valid requests differ in nothing but their names.
PostSymmetry == Permutations(Post \ Invalid)

OneRoom == [x \in Client \cup Post |-> "r"]
=============================================================================
