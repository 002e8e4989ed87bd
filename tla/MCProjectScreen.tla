--------------------------- MODULE MCProjectScreen ---------------------------
(* One id of a project, with a forest, two domains and a server.            *)
EXTENDS ProjectScreen, TLC

MCNodes  == {"p", "f", "d", "e", "s"}
MCKind   == [n \in MCNodes |-> CASE n = "p" -> "project" [] n = "f" -> "forest"
                                 [] n = "s" -> "server" [] OTHER -> "domain"]
MCParent == [n \in MCNodes |-> CASE n \in {"d", "e"} -> "f" [] n = "s" -> "d"
                                 [] OTHER -> "p"]
MCNames == {"d", "e"} \X (1..2)

=============================================================================
