------------------------------- MODULE MCArgs -------------------------------
(* Args on every command line of up to four words.                          *)
EXTENDS Args

MCCluster == [w \in {"-arch", "-t", "-", "-u", "-aU", "-s", "-A", "-z"} |->
  CASE w = "-arch" -> {"a", "r", "c", "h"} [] w = "-t" -> {"t"}
    [] w = "-" -> {} [] w = "-u" -> {"u"} [] w = "-aU" -> {"a", "U"}
    [] w = "-s" -> {"s"} [] w = "-A" -> {"A"} [] w = "-z" -> {"z"}]

MCWords == {"a.out", "x", "i386", "all"}
=============================================================================
